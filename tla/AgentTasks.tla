----------------------------- MODULE AgentTasks -----------------------------
(***************************************************************************)
(* The durable task state machine of incidents/tasks.py over the task      *)
(* collection of integrations/mongodb.py.                                  *)
(*                                                                         *)
(* Every method of AgentTaskWorkflow awaits twice: it reads the task       *)
(* document, decides from what it read, and then asks the repository for a *)
(* compare-and-set whose filter is the state it read.  Other coroutines    *)
(* run between the two, so a call is modelled as Begin (read and decide)   *)
(* followed by Commit or Raise.  The callers are the workflow coordinator, *)
(* one sequential coroutine, and the requests of the test-completion hook, *)
(* which may be several at once and only ever call mark_completed.  The    *)
(* coordinator is taken at its most general: it may call any method on any *)
(* task in any order, so nothing below rests on what it chooses to do.     *)
(*                                                                         *)
(* A crash loses every call; the next start runs recover_incomplete_tasks  *)
(* before anybody else may touch a task (main.py 288, before the pipeline  *)
(* and the API are started).  That pass reads at most RecoverLimit tasks   *)
(* (list_tasks with limit=500, oldest updated_at first): which ones a full *)
(* page holds is left open, since the age of a document is not modelled.   *)
(***************************************************************************)
EXTENDS TaskDocument, FiniteSets

CONSTANTS Tasks,         \* tasks, one per idempotency key
          Coordinator,   \* the single workflow coroutine
          Hooks,         \* concurrent requests of the test-completion hook
          RecoverLimit,  \* the limit of recover_incomplete_tasks' one query, 500
          NoCall         \* no call outstanding

Clients == {Coordinator} \cup Hooks

ASSUME ClientAssumption == Coordinator \notin Hooks
ASSUME LimitAssumption == RecoverLimit \in Nat \ {0}

Calls  == [task : Tasks, seen : States, write : Writes]

VARIABLES tasks,   \* the task collection
          call,    \* the outstanding call of each client
          mode,    \* "down", "recovering" or "serving"
          scan,    \* tasks recover_incomplete_tasks has listed and not treated
          scanned  \* how many it had listed: TaskRecoverySummary.scanned
vars == <<tasks, call, mode, scan, scanned>>

TypeOK == /\ tasks \in [Tasks -> Docs]
          /\ call \in [Clients -> Calls \cup {NoCall}]
          /\ mode \in {"down", "recovering", "serving"}
          /\ scan \in SUBSET Tasks
          /\ scanned \in 0..RecoverLimit

Init == /\ tasks = [t \in Tasks |-> NewDoc]
        /\ call = [c \in Clients |-> NoCall]
        /\ mode = "down"
        /\ scan = {}
        /\ scanned = 0

-----------------------------------------------------------------------------
(* create_task: inserted once per idempotency key, found again afterwards. *)
Create(t) ==
    /\ mode = "serving"
    /\ call[Coordinator] = NoCall
    /\ tasks[t].state = "ABSENT"
    /\ tasks' = [tasks EXCEPT ![t] = CreatedDoc]
    /\ UNCHANGED <<call, mode, scan, scanned>>

(* A call that raises on what it read (unknown task, illegal transition)   *)
(* or returns a terminal task unchanged has no step.                       *)
Begin(c, t, w) ==
    /\ mode = "serving"
    /\ call[c] = NoCall
    /\ Allowed(tasks[t].state, w.to)
    /\ call' = [call EXCEPT ![c] = [task |-> t, seen |-> tasks[t].state, write |-> w]]
    /\ UNCHANGED <<tasks, mode, scan, scanned>>

MarkDispatched(t) ==
    /\ tasks[t].state \in {"PENDING", "RETRYING"}
    /\ Begin(Coordinator, t, DispatchWrite(tasks[t]))

MarkRunning(t) == Begin(Coordinator, t, RunningWrite)

MarkCompleted(c, t) == Begin(c, t, CompleteWrite)

MarkExecutionFailed(t, retryable) ==
    /\ tasks[t].state \notin Terminal
    /\ Begin(Coordinator, t, FailureWrite(tasks[t], retryable))

Commit(c) ==
    /\ call[c] # NoCall
    /\ LET k == call[c] IN
         /\ Matches(tasks[k.task], k.seen)
         /\ tasks' = [tasks EXCEPT ![k.task] = Written(@, k.write)]
    /\ call' = [call EXCEPT ![c] = NoCall]
    /\ UNCHANGED <<mode, scan, scanned>>

(* The compare-and-set found another state, or the database call failed:   *)
(* the method raises.                                                      *)
Raise(c) ==
    /\ call[c] # NoCall
    /\ call' = [call EXCEPT ![c] = NoCall]
    /\ UNCHANGED <<tasks, mode, scan, scanned>>

-----------------------------------------------------------------------------
Crash ==
    /\ mode # "down"
    /\ mode' = "down"
    /\ call' = [c \in Clients |-> NoCall]
    /\ scan' = {}
    /\ UNCHANGED <<tasks, scanned>>

(* What a query of at most RecoverLimit rows may return out of a set of    *)
(* matching documents: all of them when they fit, else a full page.        *)
Page(matching) ==
    {S \in SUBSET matching : /\ IsFiniteSet(S)
                             /\ Cardinality(S) <= RecoverLimit
                             /\ Cardinality(S) < RecoverLimit => S = matching}

Interrupted == {t \in Tasks : tasks[t].state \in InFlight}

ListDispatchedOnly ==                  \* mutant: RUNNING is not listed
    /\ mode = "down"
    /\ mode' = "recovering"
    /\ scan' \in Page({t \in Tasks : tasks[t].state = "DISPATCHED"})
    /\ scanned' = Cardinality(scan')
    /\ UNCHANGED <<tasks, call>>

ListInFlight ==
    /\ mode = "down"
    /\ mode' = "recovering"
    /\ scan' \in Page(Interrupted)
    /\ scanned' = Cardinality(scan')
    /\ UNCHANGED <<tasks, call>>

(* One iteration of recover_incomplete_tasks.                              *)
RecoverTask(t) ==
    /\ mode = "recovering"
    /\ t \in scan
    /\ scan' = scan \ {t}
    /\ tasks' = [tasks EXCEPT ![t] = Written(@, FailureWrite(@, TRUE))]
    /\ UNCHANGED <<call, mode, scanned>>

StartServing ==
    /\ mode = "recovering"
    /\ scan = {}
    /\ mode' = "serving"
    /\ UNCHANGED <<tasks, call, scan, scanned>>

Next ==
    \/ \E t \in Tasks : \/ Create(t) \/ MarkDispatched(t) \/ MarkRunning(t)
                        \/ \E c \in Clients : MarkCompleted(c, t)
                        \/ \E r \in BOOLEAN : MarkExecutionFailed(t, r)
                        \/ RecoverTask(t)
    \/ \E c \in Clients : Commit(c) \/ Raise(c)
    \/ Crash \/ ListInFlight \/ StartServing

Spec == Init /\ [][Next]_vars

-----------------------------------------------------------------------------
(* Properties.                                                             *)

(* However the reads and the writes of the callers interleave, and however *)
(* often the backend restarts, a task is never dispatched more than        *)
(* max_attempts times: the check is made on a stale read in mark_dispatched*)
(* while the counter moves in the compare-and-set.                         *)
AttemptWithinBudget == \A t \in Tasks : tasks[t].attempt <= MaxAttempts

(* A task that is waiting to be dispatched again has an attempt left, so   *)
(* the retry_exhausted branch of mark_dispatched is never what ends it:    *)
(* the failure that consumed the last attempt is the one recorded.         *)
RetryIsAffordable ==
    \A t \in Tasks : tasks[t].state \in {"PENDING", "RETRYING"} => tasks[t].attempt < MaxAttempts

(* last_error agrees with the state it was written with: a task that will  *)
(* be retried says so and only a failed task carries a final error.        *)
ErrorMatchesState ==
    \A t \in Tasks : /\ tasks[t].state = "RETRYING" <=> tasks[t].error = "retryable"
                     /\ tasks[t].state = "FAILED"   <=> tasks[t].error = "final"

(* A completed or failed task is never touched again, whichever caller     *)
(* decided to move it before it ended: a failure decided while the         *)
(* completion hook was committing must not reopen the task, nor a          *)
(* completion overwrite a failure.                                         *)
TerminalIsFinal ==
    [][\A t \in Tasks : tasks[t].state \in Terminal => tasks'[t] = tasks[t]]_vars

(* When the backend starts serving again no task is left in flight from    *)
(* the run that crashed, since nobody would ever report its outcome: true  *)
(* as long as the recovery summary counts fewer tasks than its one query   *)
(* may return.  A full page is the only case in which tasks are left       *)
(* behind, DISPATCHED or RUNNING, until a later restart lists them.        *)
NothingInFlightAfterRestart ==
    [][mode # "serving" /\ mode' = "serving" /\ scanned < RecoverLimit =>
          \A t \in Tasks : tasks'[t].state \notin InFlight]_vars

(* The state machine with two-step calls, concurrent callers and restarts  *)
(* implements the lifecycle a task promises.                               *)
Lifecycle == INSTANCE TaskLifecycle WITH
               state   <- [t \in Tasks |-> tasks[t].state],
               attempt <- [t \in Tasks |-> tasks[t].attempt]
ImplementsLifecycle == Lifecycle!Spec
=============================================================================
