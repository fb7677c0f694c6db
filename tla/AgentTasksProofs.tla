-------------------------- MODULE AgentTasksProofs --------------------------
(***************************************************************************)
(* Proofs about AgentTasks for every set of tasks, every set of concurrent *)
(* completion requests and every attempt budget.                           *)
(***************************************************************************)
EXTENDS AgentTasks, FiniteSetTheorems, TLAPS

(* A write of any method agrees with itself: what it says of the error and *)
(* of the attempt counter goes with the state it moves to.                 *)
WriteConsistent(w) ==
    /\ w.to = "RETRYING" <=> w.error = "retryable"
    /\ w.to = "FAILED" <=> w.error = "final"
    /\ w.error = "keep" => w.to = "RUNNING"
    /\ w.bump = 1 <=> w.to = "DISPATCHED"

(* The part of the document an outstanding call relies on.  A hook only    *)
(* completes; the coordinator's decision to spend or to save an attempt is *)
(* still affordable as long as the state is the one it read, because only  *)
(* a hook can have written since, and a hook's write ends the task.        *)
CallSound(c) ==
    call[c] # NoCall =>
      /\ Allowed(call[c].seen, call[c].write.to)
      /\ WriteConsistent(call[c].write)
      /\ c \in Hooks => call[c].write = CompleteWrite
      /\ /\ Matches(tasks[call[c].task], call[c].seen)
         /\ call[c].write.to \in {"DISPATCHED", "RETRYING"}
         => tasks[call[c].task].attempt < MaxAttempts

(* Calls exist only while serving.  The recovery pass treats tasks that are*)
(* in flight and, unless its page was full, every one of them.             *)
ModeSound == /\ mode # "serving" => \A c \in Clients : call[c] = NoCall
             /\ mode = "recovering" =>
                 /\ \A t \in scan : tasks[t].state \in InFlight
                 /\ scanned < RecoverLimit =>
                      \A t \in Tasks : tasks[t].state \in InFlight => t \in scan

IInv == /\ TypeOK
        /\ AttemptWithinBudget
        /\ RetryIsAffordable
        /\ ErrorMatchesState
        /\ \A c \in Clients : CallSound(c)
        /\ ModeSound

USE AttemptsAssumption, ClientAssumption, LimitAssumption DEF NewDoc, CreatedDoc

-----------------------------------------------------------------------------
(* Facts about the decisions and the write.                                *)

LEMMA FailureWriteFacts ==
    ASSUME NEW doc \in Docs, NEW r \in BOOLEAN
    PROVE  /\ FailureWrite(doc, r) \in Writes
           /\ FailureWrite(doc, r).bump = 0
           /\ WriteConsistent(FailureWrite(doc, r))
           /\ FailureWrite(doc, r).to \in {"RETRYING", "FAILED"}
           /\ FailureWrite(doc, r).to = "RETRYING" => doc.attempt < MaxAttempts
  BY DEF FailureWrite, ShouldRetry, Writes, Docs, States, Errors, WriteConsistent

LEMMA DispatchWriteFacts ==
    ASSUME NEW doc \in Docs
    PROVE  /\ DispatchWrite(doc) \in Writes
           /\ WriteConsistent(DispatchWrite(doc))
           /\ DispatchWrite(doc).to \in {"DISPATCHED", "FAILED"}
           /\ DispatchWrite(doc).to = "DISPATCHED" => doc.attempt < MaxAttempts
  BY DEF DispatchWrite, Writes, Docs, States, Errors, WriteConsistent

LEMMA OtherWriteFacts ==
    /\ RunningWrite \in Writes /\ WriteConsistent(RunningWrite)
    /\ CompleteWrite \in Writes /\ WriteConsistent(CompleteWrite)
    /\ RunningWrite.to = "RUNNING" /\ CompleteWrite.to = "COMPLETED"
  BY DEF RunningWrite, CompleteWrite, Writes, States, Errors, WriteConsistent

LEMMA WrittenFacts ==
    ASSUME NEW doc \in Docs, NEW w \in Writes
    PROVE  /\ Written(doc, w) \in Docs
           /\ Written(doc, w).state = w.to
           /\ Written(doc, w).attempt = doc.attempt + w.bump
           /\ Written(doc, w).error = IF w.error = "keep" THEN doc.error ELSE w.error
  BY DEF Written, Docs, Writes, Errors

(* An allowed transition starts in a live state and never leads nowhere.   *)
LEMMA AllowedFacts ==
    ASSUME NEW from, NEW to, Allowed(from, to)
    PROVE  /\ from \in {"PENDING", "RETRYING", "DISPATCHED", "RUNNING"}
           /\ to \in {"DISPATCHED", "RUNNING", "RETRYING", "COMPLETED", "FAILED"}
           /\ to = "DISPATCHED" => from \in {"PENDING", "RETRYING"}
           /\ to = "RUNNING" => from = "DISPATCHED"
           /\ to = "RETRYING" => from \in InFlight
           /\ to = "COMPLETED" => from = "RUNNING"
  BY DEF Allowed, TaskTransitions, InFlight

(* A single write to one task that is affordable, consistent and allowed   *)
(* keeps every invariant of the documents.                                 *)
DocSound(doc) ==
    /\ doc \in Docs
    /\ doc.attempt <= MaxAttempts
    /\ doc.state \in {"PENDING", "RETRYING"} => doc.attempt < MaxAttempts
    /\ doc.state = "RETRYING" <=> doc.error = "retryable"
    /\ doc.state = "FAILED" <=> doc.error = "final"

LEMMA WriteKeepsDocSound ==
    ASSUME NEW doc, DocSound(doc), NEW w \in Writes, WriteConsistent(w),
           Allowed(doc.state, w.to),
           w.to \in {"DISPATCHED", "RETRYING"} => doc.attempt < MaxAttempts
    PROVE  DocSound(Written(doc, w))
<1>1. doc \in Docs
  BY DEF DocSound
<1>2. Written(doc, w) \in Docs /\ Written(doc, w).state = w.to
      /\ Written(doc, w).attempt = doc.attempt + w.bump
      /\ Written(doc, w).error = IF w.error = "keep" THEN doc.error ELSE w.error
  BY <1>1, WrittenFacts
<1>3. doc.attempt + w.bump <= MaxAttempts
  BY <1>1 DEF DocSound, Docs, Writes, WriteConsistent
<1>4. w.to \in {"PENDING", "RETRYING"} => doc.attempt + w.bump < MaxAttempts
  BY <1>1, AllowedFacts DEF DocSound, Docs, Writes, WriteConsistent
<1>5. w.error = "keep" => doc.error = "none"
  BY <1>1, AllowedFacts DEF DocSound, Docs, Errors, WriteConsistent
<1>6. QED
  BY <1>2, <1>3, <1>4, <1>5, AllowedFacts DEF DocSound, WriteConsistent

LEMMA DocsSoundEquiv ==
    TypeOK => ((\A t \in Tasks : DocSound(tasks[t]))
                 <=> AttemptWithinBudget /\ RetryIsAffordable /\ ErrorMatchesState)
  BY DEF TypeOK, DocSound, AttemptWithinBudget, RetryIsAffordable, ErrorMatchesState

(* A page holds only what matches, at most RecoverLimit of it, and all of  *)
(* it when there is room left.                                             *)
LEMMA PageFacts ==
    ASSUME NEW matching, NEW S \in Page(matching)
    PROVE  /\ S \subseteq matching
           /\ Cardinality(S) \in 0..RecoverLimit
           /\ Cardinality(S) < RecoverLimit => S = matching
<1>1. IsFiniteSet(S) /\ Cardinality(S) <= RecoverLimit
  BY DEF Page
<1>2. Cardinality(S) \in Nat
  BY <1>1, FS_CardinalityType
<1>3. QED
  BY <1>1, <1>2 DEF Page

-----------------------------------------------------------------------------
LEMMA InitIInv == Init => IInv
<1> SUFFICES ASSUME Init PROVE IInv
  OBVIOUS
<1>1. TypeOK
  BY DEF Init, TypeOK, Docs, States, Errors
<1>2. AttemptWithinBudget /\ RetryIsAffordable /\ ErrorMatchesState
  BY DEF Init, AttemptWithinBudget, RetryIsAffordable, ErrorMatchesState
<1>3. \A c \in Clients : CallSound(c)
  BY DEF Init, CallSound
<1>4. ModeSound
  BY DEF Init, ModeSound
<1>5. QED
  BY <1>1, <1>2, <1>3, <1>4 DEF IInv

(* A call that begins leaves the documents alone and is sound on the       *)
(* document it has read.                                                   *)
LEMMA BeginKeeps ==
    ASSUME IInv, NEW c \in Clients, NEW t \in Tasks, NEW w \in Writes,
           WriteConsistent(w), c \in Hooks => w = CompleteWrite,
           w.to \in {"DISPATCHED", "RETRYING"} => tasks[t].attempt < MaxAttempts,
           Begin(c, t, w)
    PROVE  IInv'
<1> USE DEF Begin
<1>1. TypeOK'
  <2>1. [task |-> t, seen |-> tasks[t].state, write |-> w] \in Calls
    BY DEF IInv, TypeOK, Docs, Calls
  <2>2. QED
    BY <2>1 DEF IInv, TypeOK
<1>2. AttemptWithinBudget' /\ RetryIsAffordable' /\ ErrorMatchesState'
  BY DEF IInv, AttemptWithinBudget, RetryIsAffordable, ErrorMatchesState
<1>3. ASSUME NEW d \in Clients PROVE CallSound(d)'
  <2>1. CASE d = c
    <3>1. call'[d] = [task |-> t, seen |-> tasks[t].state, write |-> w]
      BY <2>1 DEF IInv, TypeOK
    <3>2. QED
      BY <3>1, <2>1 DEF CallSound, Allowed, Matches
  <2>2. CASE d # c
    <3>1. call'[d] = call[d]
      BY <2>2 DEF IInv, TypeOK
    <3>2. CallSound(d)
      BY DEF IInv
    <3>3. QED
      BY <3>1, <3>2 DEF CallSound, Matches, Allowed
  <2>3. QED
    BY <2>1, <2>2
<1>4. ModeSound'
  BY DEF IInv, ModeSound
<1>5. QED
  BY <1>1, <1>2, <1>3, <1>4 DEF IInv

LEMMA CreateKeeps ==
    ASSUME IInv, NEW t \in Tasks, Create(t)
    PROVE  IInv'
<1> DEFINE new == [state |-> "PENDING", attempt |-> 0, error |-> "none"]
<1>1. new \in Docs
  BY DEF Docs, States, Errors
<1>2. tasks' = [tasks EXCEPT ![t] = new] /\ UNCHANGED <<call, mode, scan, scanned>>
      /\ mode = "serving" /\ call[Coordinator] = NoCall
  BY DEF Create
<1> HIDE DEF new
<1>3. TypeOK'
  BY <1>1, <1>2 DEF IInv, TypeOK
<1>4. AttemptWithinBudget' /\ RetryIsAffordable' /\ ErrorMatchesState'
  BY <1>2 DEF IInv, TypeOK, AttemptWithinBudget, RetryIsAffordable, ErrorMatchesState, new
<1>5. ASSUME NEW d \in Clients PROVE CallSound(d)'
  <2>1. CASE d = Coordinator
    BY <1>2, <2>1 DEF CallSound
  <2>2. CASE d \in Hooks
    <3>1. CallSound(d) /\ call'[d] = call[d]
      BY <1>2 DEF IInv
    <3>2. QED
      BY <3>1, <2>2, OtherWriteFacts DEF CallSound
  <2>3. QED
    BY <2>1, <2>2 DEF Clients
<1>6. ModeSound'
  BY <1>2 DEF IInv, ModeSound
<1>7. QED
  BY <1>3, <1>4, <1>5, <1>6 DEF IInv

LEMMA CommitKeeps ==
    ASSUME IInv, NEW c \in Clients, Commit(c)
    PROVE  /\ IInv'
           /\ \E t \in Tasks, w \in Writes :
                 /\ Allowed(tasks[t].state, w.to)
                 /\ WriteConsistent(w)
                 /\ w.to \in {"DISPATCHED", "RETRYING"} => tasks[t].attempt < MaxAttempts
                 /\ tasks' = [tasks EXCEPT ![t] = Written(@, w)]
<1> DEFINE t == call[c].task
           w == call[c].write
<1>1. /\ call[c] # NoCall /\ Matches(tasks[t], call[c].seen)
      /\ tasks' = [tasks EXCEPT ![t] = Written(@, w)]
      /\ call' = [call EXCEPT ![c] = NoCall]
      /\ UNCHANGED <<mode, scan, scanned>>
  BY DEF Commit
<1>2. t \in Tasks /\ w \in Writes
  BY <1>1 DEF IInv, TypeOK, Calls
<1>3. CallSound(c)
  BY DEF IInv
<1>4. /\ Allowed(tasks[t].state, w.to)
      /\ WriteConsistent(w)
      /\ w.to \in {"DISPATCHED", "RETRYING"} => tasks[t].attempt < MaxAttempts
      /\ c \in Hooks => w = CompleteWrite
  BY <1>1, <1>3 DEF CallSound, Matches
<1> HIDE DEF t, w
<1>5. DocSound(tasks[t])
  BY <1>2, DocsSoundEquiv DEF IInv
<1>6. DocSound(Written(tasks[t], w))
  BY <1>2, <1>4, <1>5, WriteKeepsDocSound
<1>7. Written(tasks[t], w) \in Docs /\ tasks \in [Tasks -> Docs]
  BY <1>6 DEF DocSound, IInv, TypeOK
<1>8. TypeOK'
  BY <1>1, <1>2, <1>7 DEF IInv, TypeOK
<1>9. AttemptWithinBudget' /\ RetryIsAffordable' /\ ErrorMatchesState'
  <2>1. \A u \in Tasks : DocSound(tasks'[u])
    BY <1>1, <1>2, <1>6, <1>7, DocsSoundEquiv DEF IInv
  <2>2. QED
    BY <2>1 DEF DocSound, AttemptWithinBudget, RetryIsAffordable, ErrorMatchesState
<1>10. ASSUME NEW d \in Clients PROVE CallSound(d)'
  <2>1. CASE d = c
    BY <1>1, <2>1 DEF IInv, TypeOK, CallSound
  <2>2. CASE d # c /\ d \in Hooks
    <3>1. CallSound(d) /\ call'[d] = call[d]
      BY <1>1, <2>2 DEF IInv, TypeOK
    <3>2. QED
      BY <3>1, <2>2, OtherWriteFacts DEF CallSound
  <2>3. CASE d # c /\ d = Coordinator
    <3>1. CallSound(d) /\ call'[d] = call[d]
      BY <1>1, <2>3 DEF IInv, TypeOK
    <3>2. w = CompleteWrite
      BY <1>4, <2>3 DEF Clients
    <3>3. SUFFICES ASSUME call[d] # NoCall, Matches(tasks'[call[d].task], call[d].seen),
                          call[d].write.to \in {"DISPATCHED", "RETRYING"}
                   PROVE  tasks'[call[d].task].attempt < MaxAttempts
      BY <3>1 DEF CallSound
    <3>4. call[d].task \in Tasks
      BY <3>3 DEF IInv, TypeOK, Calls
    <3>5. CASE call[d].task = t
      <4>1. tasks'[t].state = "COMPLETED"
        BY <1>1, <1>2, <1>7, <3>2, OtherWriteFacts, WrittenFacts
      <4>2. call[d].seen # "COMPLETED"
        BY <3>1, <3>3, AllowedFacts DEF CallSound
      <4>3. QED
        BY <4>1, <4>2, <3>3, <3>5 DEF Matches
    <3>6. CASE call[d].task # t
      <4>1. tasks'[call[d].task] = tasks[call[d].task]
        BY <1>1, <1>7, <3>4, <3>6
      <4>2. QED
        BY <4>1, <3>1, <3>3 DEF CallSound
    <3>7. QED
      BY <3>5, <3>6
  <2>4. QED
    BY <2>1, <2>2, <2>3 DEF Clients
<1>11. ModeSound'
  BY <1>1 DEF IInv, ModeSound, TypeOK
<1>12. IInv'
  BY <1>8, <1>9, <1>10, <1>11 DEF IInv
<1>13. QED
  BY <1>1, <1>2, <1>4, <1>12

LEMMA RecoverTaskKeeps ==
    ASSUME IInv, NEW t \in Tasks, RecoverTask(t)
    PROVE  /\ IInv'
           /\ \E w \in Writes :
                 /\ Allowed(tasks[t].state, w.to)
                 /\ WriteConsistent(w)
                 /\ w.to \in {"DISPATCHED", "RETRYING"} => tasks[t].attempt < MaxAttempts
                 /\ tasks' = [tasks EXCEPT ![t] = Written(@, w)]
<1> DEFINE w == FailureWrite(tasks[t], TRUE)
<1>1. /\ mode = "recovering" /\ t \in scan /\ scan' = scan \ {t}
      /\ tasks' = [tasks EXCEPT ![t] = Written(@, w)]
      /\ UNCHANGED <<call, mode, scanned>>
  BY DEF RecoverTask
<1>2. tasks[t] \in Docs /\ tasks \in [Tasks -> Docs]
  BY DEF IInv, TypeOK
<1>3. /\ w \in Writes /\ WriteConsistent(w) /\ w.to \in {"RETRYING", "FAILED"}
      /\ w.to \in {"DISPATCHED", "RETRYING"} => tasks[t].attempt < MaxAttempts
  BY <1>2, FailureWriteFacts
<1> HIDE DEF w
<1>4. tasks[t].state \in InFlight
  BY <1>1 DEF IInv, ModeSound
<1>5. Allowed(tasks[t].state, w.to)
  BY <1>3, <1>4 DEF Allowed, TaskTransitions, InFlight
<1>6. DocSound(tasks[t])
  BY DocsSoundEquiv DEF IInv
<1>7. DocSound(Written(tasks[t], w))
  BY <1>3, <1>5, <1>6, WriteKeepsDocSound
<1>8. TypeOK'
  BY <1>1, <1>2, <1>7 DEF IInv, TypeOK, DocSound
<1>9. AttemptWithinBudget' /\ RetryIsAffordable' /\ ErrorMatchesState'
  <2>1. \A u \in Tasks : DocSound(tasks'[u])
    BY <1>1, <1>2, <1>7, DocsSoundEquiv DEF IInv
  <2>2. QED
    BY <2>1 DEF DocSound, AttemptWithinBudget, RetryIsAffordable, ErrorMatchesState
<1>10. \A d \in Clients : CallSound(d)'
  BY <1>1 DEF IInv, ModeSound, CallSound
<1>11. ModeSound'
  <2>1. tasks'[t].state = w.to /\ \A u \in Tasks \ {t} : tasks'[u] = tasks[u]
    BY <1>1, <1>2, <1>3, WrittenFacts
  <2>2. QED
    BY <1>1, <1>3, <2>1 DEF IInv, ModeSound, InFlight
<1>12. IInv'
  BY <1>8, <1>9, <1>10, <1>11 DEF IInv
<1>13. QED
  BY <1>1, <1>3, <1>5, <1>12

-----------------------------------------------------------------------------
(* What one step may do to the documents: nothing, insert one, or one      *)
(* allowed and affordable write.                                           *)
Inserted == \E t \in Tasks :
              /\ tasks[t].state = "ABSENT"
              /\ tasks' = [tasks EXCEPT ![t] = [state |-> "PENDING", attempt |-> 0, error |-> "none"]]

OneWrite == \E t \in Tasks, w \in Writes :
              /\ Allowed(tasks[t].state, w.to)
              /\ WriteConsistent(w)
              /\ w.to \in {"DISPATCHED", "RETRYING"} => tasks[t].attempt < MaxAttempts
              /\ tasks' = [tasks EXCEPT ![t] = Written(@, w)]

LEMMA StepKeeps ==
    IInv /\ [Next]_vars => IInv' /\ (UNCHANGED tasks \/ Inserted \/ OneWrite)
<1> SUFFICES ASSUME IInv, [Next]_vars
             PROVE  IInv' /\ (UNCHANGED tasks \/ Inserted \/ OneWrite)
  OBVIOUS
<1>1. ASSUME NEW t \in Tasks, Create(t)
      PROVE  IInv' /\ Inserted
  BY <1>1, CreateKeeps DEF Create, Inserted
<1>2. ASSUME NEW t \in Tasks, MarkDispatched(t)
      PROVE  IInv' /\ UNCHANGED tasks
  <2>1. tasks[t] \in Docs
    BY DEF IInv, TypeOK
  <2>2. Begin(Coordinator, t, DispatchWrite(tasks[t])) /\ Coordinator \in Clients
    BY <1>2 DEF MarkDispatched, Clients
  <2>3. IInv'
    BY <2>1, <2>2, DispatchWriteFacts, BeginKeeps
  <2>4. QED
    BY <2>2, <2>3 DEF Begin
<1>3. ASSUME NEW t \in Tasks, MarkRunning(t)
      PROVE  IInv' /\ UNCHANGED tasks
  <2>1. Begin(Coordinator, t, RunningWrite) /\ Coordinator \in Clients
    BY <1>3 DEF MarkRunning, Clients
  <2>2. IInv'
    BY <2>1, OtherWriteFacts, BeginKeeps
  <2>3. QED
    BY <2>1, <2>2 DEF Begin
<1>4. ASSUME NEW t \in Tasks, NEW c \in Clients, MarkCompleted(c, t)
      PROVE  IInv' /\ UNCHANGED tasks
  <2>1. Begin(c, t, CompleteWrite)
    BY <1>4 DEF MarkCompleted
  <2>2. IInv'
    BY <2>1, OtherWriteFacts, BeginKeeps
  <2>3. QED
    BY <2>1, <2>2 DEF Begin
<1>5. ASSUME NEW t \in Tasks, NEW r \in BOOLEAN, MarkExecutionFailed(t, r)
      PROVE  IInv' /\ UNCHANGED tasks
  <2>1. tasks[t] \in Docs
    BY DEF IInv, TypeOK
  <2>2. Begin(Coordinator, t, FailureWrite(tasks[t], r)) /\ Coordinator \in Clients
    BY <1>5 DEF MarkExecutionFailed, Clients
  <2>3. IInv'
    BY <2>1, <2>2, FailureWriteFacts, BeginKeeps
  <2>4. QED
    BY <2>2, <2>3 DEF Begin
<1>6. ASSUME NEW t \in Tasks, RecoverTask(t)
      PROVE  IInv' /\ OneWrite
  BY <1>6, RecoverTaskKeeps DEF OneWrite
<1>7. ASSUME NEW c \in Clients, Commit(c)
      PROVE  IInv' /\ OneWrite
  BY <1>7, CommitKeeps DEF OneWrite
<1>8. CASE \/ \E c \in Clients : Raise(c)
           \/ Crash \/ StartServing
           \/ UNCHANGED vars
  <2>1. UNCHANGED tasks
    BY <1>8 DEF Raise, Crash, StartServing, vars
  <2>2. \A d \in Clients : call'[d] = call[d] \/ call'[d] = NoCall
    BY <1>8 DEF Raise, Crash, StartServing, vars, IInv, TypeOK
  <2>3. TypeOK'
    BY <1>8 DEF Raise, Crash, StartServing, vars, IInv, TypeOK
  <2>4. AttemptWithinBudget' /\ RetryIsAffordable' /\ ErrorMatchesState'
    BY <2>1 DEF IInv, AttemptWithinBudget, RetryIsAffordable, ErrorMatchesState
  <2>5. \A d \in Clients : CallSound(d)'
    BY <2>1, <2>2 DEF IInv, CallSound, Matches
  <2>6. ModeSound'
    <3>1. CASE Crash
      BY <3>1 DEF Crash, ModeSound
    <3>2. CASE StartServing
      BY <3>2 DEF StartServing, ModeSound
    <3>3. CASE (\E c \in Clients : Raise(c)) \/ UNCHANGED vars
      BY <2>1, <2>2, <3>3 DEF Raise, vars, IInv, ModeSound
    <3>4. QED
      BY <1>8, <3>1, <3>2, <3>3
  <2>7. QED
    BY <2>1, <2>3, <2>4, <2>5, <2>6 DEF IInv
<1>9. CASE ListInFlight
  <2>1. UNCHANGED <<tasks, call>> /\ mode = "down" /\ mode' = "recovering"
        /\ scan' \in Page(Interrupted) /\ scanned' = Cardinality(scan')
    BY <1>9 DEF ListInFlight
  <2>a. /\ scan' \subseteq Interrupted /\ scanned' \in 0..RecoverLimit
        /\ scanned' < RecoverLimit => scan' = Interrupted
    BY <2>1, PageFacts
  <2>2. TypeOK'
    BY <2>1, <2>a DEF IInv, TypeOK, Interrupted
  <2>3. AttemptWithinBudget' /\ RetryIsAffordable' /\ ErrorMatchesState'
    BY <2>1 DEF IInv, AttemptWithinBudget, RetryIsAffordable, ErrorMatchesState
  <2>4. (\A d \in Clients : CallSound(d)') /\ ModeSound'
    BY <2>1, <2>a DEF IInv, CallSound, ModeSound, Matches, Interrupted
  <2>5. QED
    BY <2>1, <2>2, <2>3, <2>4 DEF IInv
<1>10. QED
  BY <1>1, <1>2, <1>3, <1>4, <1>5, <1>6, <1>7, <1>8, <1>9 DEF Next

-----------------------------------------------------------------------------
(* The inductive invariant holds in every reachable state.                 *)
THEOREM Invariance == Spec => []IInv
  BY InitIInv, StepKeeps, PTL DEF Spec

(* Type correctness of the task collection and of the outstanding calls.   *)
THEOREM TypeCorrect == Spec => []TypeOK
<1>1. IInv => TypeOK
  BY DEF IInv
<1>2. QED
  BY <1>1, Invariance, PTL

(* No interleaving of reads, compare-and-sets, concurrent completions and  *)
(* restarts dispatches a task more often than max_attempts, leaves a       *)
(* waiting task that may not be dispatched, or records an error that       *)
(* disagrees with the state (tasks.py 151-229).                            *)
THEOREM RetryBudget ==
    Spec => [](AttemptWithinBudget /\ RetryIsAffordable /\ ErrorMatchesState)
<1>1. IInv => AttemptWithinBudget /\ RetryIsAffordable /\ ErrorMatchesState
  BY DEF IInv
<1>2. QED
  BY <1>1, Invariance, PTL

(* A completed or failed task document never changes again, whoever decided*)
(* to move it before it ended (mongodb.py 477-528).                        *)
THEOREM TerminalTasksAreFinal == Spec => TerminalIsFinal
<1>1. IInv /\ [Next]_vars =>
        [\A t \in Tasks : tasks[t].state \in Terminal => tasks'[t] = tasks[t]]_vars
  <2> SUFFICES ASSUME IInv, UNCHANGED tasks \/ Inserted \/ OneWrite,
                      NEW t \in Tasks, tasks[t].state \in Terminal
               PROVE  tasks'[t] = tasks[t]
    BY StepKeeps
  <2>1. tasks \in [Tasks -> Docs]
    BY DEF IInv, TypeOK
  <2>2. CASE Inserted
    BY <2>1, <2>2 DEF Inserted, Terminal
  <2>3. CASE OneWrite
    BY <2>1, <2>3, AllowedFacts DEF OneWrite, Terminal
  <2>4. QED
    BY <2>2, <2>3
<1>2. QED
  BY <1>1, Invariance, PTL DEF Spec, TerminalIsFinal

(* However many tasks there are, the backend starts serving with none in   *)
(* flight unless the one query of the recovery pass, limited to            *)
(* RecoverLimit rows, came back full (tasks.py 231-277, mongodb.py 470).   *)
THEOREM RestartLeavesNothingInFlight == Spec => NothingInFlightAfterRestart
<1>1. IInv /\ [Next]_vars =>
        [mode # "serving" /\ mode' = "serving" /\ scanned < RecoverLimit =>
           \A t \in Tasks : tasks'[t].state \notin InFlight]_vars
  <2> SUFFICES ASSUME IInv, Next, mode # "serving", mode' = "serving",
                      scanned < RecoverLimit
               PROVE  \A t \in Tasks : tasks'[t].state \notin InFlight
    OBVIOUS
  <2>1. \A c \in Clients : call[c] = NoCall
    BY DEF IInv, ModeSound
  <2>2. StartServing
    BY <2>1 DEF Next, Create, MarkDispatched, MarkRunning, MarkCompleted,
                MarkExecutionFailed, Begin, RecoverTask, Commit, Raise, Crash, ListInFlight
  <2>3. QED
    BY <2>2 DEF StartServing, IInv, ModeSound
<1>2. QED
  BY <1>1, Invariance, PTL DEF Spec, NothingInFlightAfterRestart

(* The task collection under concurrent callers, failures and restarts     *)
(* implements the lifecycle a durable task promises.                       *)
THEOREM Refinement == Spec => ImplementsLifecycle
<1> DEFINE st == [t \in Tasks |-> tasks[t].state]
           at == [t \in Tasks |-> tasks[t].attempt]
<1>1. Init => Lifecycle!Init
  BY DEF Init, Lifecycle!Init
<1>2. IInv /\ [Next]_vars => [Lifecycle!Next]_(Lifecycle!vars)
  <2> SUFFICES ASSUME IInv, UNCHANGED tasks \/ Inserted \/ OneWrite
               PROVE  [Lifecycle!Next]_(Lifecycle!vars)
    BY StepKeeps
  <2>1. tasks \in [Tasks -> Docs]
    BY DEF IInv, TypeOK
  <2>2. CASE UNCHANGED tasks
    BY <2>2 DEF Lifecycle!vars
  <2>3. CASE Inserted
    <3>1. PICK t \in Tasks :
            /\ tasks[t].state = "ABSENT"
            /\ tasks' = [tasks EXCEPT ![t] = [state |-> "PENDING", attempt |-> 0, error |-> "none"]]
      BY <2>3 DEF Inserted
    <3>2. Lifecycle!Create(t)
      BY <3>1, <2>1 DEF Lifecycle!Create, Lifecycle!Move
    <3>3. QED
      BY <3>2 DEF Lifecycle!Next
  <2>4. CASE OneWrite
    <3>1. PICK t \in Tasks, w \in Writes :
            /\ Allowed(tasks[t].state, w.to)
            /\ WriteConsistent(w)
            /\ w.to \in {"DISPATCHED", "RETRYING"} => tasks[t].attempt < MaxAttempts
            /\ tasks' = [tasks EXCEPT ![t] = Written(@, w)]
      BY <2>4 DEF OneWrite
    <3>2. /\ tasks'[t].state = w.to
          /\ tasks'[t].attempt = tasks[t].attempt + w.bump
          /\ \A u \in Tasks \ {t} : tasks'[u] = tasks[u]
      BY <2>1, <3>1, WrittenFacts
    <3>3. /\ st' = [st EXCEPT ![t] = w.to]
          /\ at' = [at EXCEPT ![t] = @ + w.bump]
      BY <3>2
    <3>4. w.bump = IF w.to = "DISPATCHED" THEN 1 ELSE 0
      BY <3>1 DEF WriteConsistent, Writes
    <3>5. /\ st[t] = tasks[t].state /\ at[t] = tasks[t].attempt
          /\ at[t] \in Nat /\ at \in [Tasks -> Nat]
      BY <2>1 DEF Docs
    <3>6. CASE w.to = "DISPATCHED"
      <4>1. Lifecycle!Dispatch(t)
        BY <3>1, <3>3, <3>4, <3>5, <3>6, AllowedFacts
           DEF Lifecycle!Dispatch, Lifecycle!Move, Lifecycle!Waiting
      <4>2. QED
        BY <4>1 DEF Lifecycle!Next
    <3>7. CASE w.to # "DISPATCHED"
      <4>1. at' = at
        <5>1. at[t] + w.bump = at[t]
          BY <3>4, <3>5, <3>7
        <5>2. at' = [at EXCEPT ![t] = at[t]]
          BY <3>3, <5>1
        <5> HIDE DEF at
        <5>3. QED
          BY <3>5, <5>2
      <4>2. \/ Lifecycle!Accept(t) \/ Lifecycle!Retry(t)
            \/ Lifecycle!Complete(t) \/ Lifecycle!Fail(t)
        BY <3>1, <3>3, <3>5, <3>7, <4>1, AllowedFacts
           DEF Lifecycle!Accept, Lifecycle!Retry, Lifecycle!Complete, Lifecycle!Fail,
               Lifecycle!Move, Lifecycle!Waiting, Lifecycle!InFlight, InFlight
      <4>3. QED
        BY <4>2 DEF Lifecycle!Next
    <3>8. QED
      BY <3>6, <3>7
  <2>5. QED
    BY <2>2, <2>3, <2>4
<1>3. QED
  BY <1>1, <1>2, Invariance, PTL DEF Spec, ImplementsLifecycle, Lifecycle!Spec

=============================================================================
