---------------------------- MODULE TaskDocument ----------------------------
(***************************************************************************)
(* The document of one durable task (incidents/tasks.py over the           *)
(* agent_tasks collection of integrations/mongodb.py): its states, what    *)
(* each method of AgentTaskWorkflow decides from a document it has read,   *)
(* and what the repository's compare-and-set makes of that decision.       *)
(***************************************************************************)
EXTENDS Naturals

CONSTANT MaxAttempts    \* max_attempts of every task

States   == {"ABSENT", "PENDING", "DISPATCHED", "RUNNING", "RETRYING",
             "COMPLETED", "FAILED"}
InFlight == {"DISPATCHED", "RUNNING"}
Terminal == {"COMPLETED", "FAILED"}

ASSUME AttemptsAssumption == MaxAttempts \in Nat \ {0}

TaskTransitions ==
    {<<"PENDING", "DISPATCHED">>,   <<"PENDING", "FAILED">>,
     <<"DISPATCHED", "RUNNING">>,   <<"DISPATCHED", "RETRYING">>,
     <<"DISPATCHED", "FAILED">>,    <<"RUNNING", "COMPLETED">>,
     <<"RUNNING", "RETRYING">>,     <<"RUNNING", "FAILED">>,
     <<"RETRYING", "DISPATCHED">>,  <<"RETRYING", "FAILED">>}

(* What a write puts in last_error: nothing, an error that will be retried,*)
(* one that will not, or (a write whose patch has no last_error) no change.*)
Errors == {"none", "retryable", "final"}

Docs   == [state : States, attempt : Nat, error : Errors]
Writes == [to : States, bump : {0, 1}, error : Errors \cup {"keep"}]

NewDoc     == [state |-> "ABSENT", attempt |-> 0, error |-> "none"]
CreatedDoc == [state |-> "PENDING", attempt |-> 0, error |-> "none"]

-----------------------------------------------------------------------------
(* The decision of each method, from the document it has read.             *)

DispatchWrite(doc) ==
    IF doc.attempt >= MaxAttempts
    THEN [to |-> "FAILED", bump |-> 0, error |-> "final"]
    ELSE [to |-> "DISPATCHED", bump |-> 1, error |-> "none"]

RunningWrite  == [to |-> "RUNNING", bump |-> 0, error |-> "keep"]

CompleteWrite == [to |-> "COMPLETED", bump |-> 0, error |-> "none"]

ShouldRetry(doc, retryable) == retryable /\ doc.attempt < MaxAttempts

FailureWrite(doc, retryable) ==
    IF ShouldRetry(doc, retryable)
    THEN [to |-> "RETRYING", bump |-> 0, error |-> "retryable"]
    ELSE [to |-> "FAILED", bump |-> 0, error |-> "final"]

LateAckAllowed(from, to) ==            \* mutant: a late acknowledgement is accepted
    \/ <<from, to>> \in TaskTransitions
    \/ <<from, to>> = <<"RETRYING", "RUNNING">>

(* validate_task_transition                                                *)
Allowed(from, to) == <<from, to>> \in TaskTransitions

UncheckedWrite(doc, seen) == TRUE      \* mutant: the filter has no state

(* The filter and the update of the repository's compare-and-set.          *)
Matches(doc, seen) == doc.state = seen

CountEveryWrite(doc, w) ==             \* mutant: every transition counts
    [state |-> w.to, attempt |-> doc.attempt + 1,
     error |-> IF w.error = "keep" THEN doc.error ELSE w.error]

WriteErrorAlways(doc, w) ==            \* mutant: a patch without last_error writes it
    [state |-> w.to, attempt |-> doc.attempt + w.bump, error |-> w.error]

Written(doc, w) ==
    [state   |-> w.to,
     attempt |-> doc.attempt + w.bump,
     error   |-> IF w.error = "keep" THEN doc.error ELSE w.error]
=============================================================================
