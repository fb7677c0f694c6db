--------------------------- MODULE ReActExecutor ---------------------------
(***************************************************************************)
(* The ReAct executor of one specialist (reasoning/specialist_react.py     *)
(* over observation_aware_react.py and schema_validated_react.py).  The    *)
(* agent has one executor object; its own task and the peer-help requests  *)
(* it serves call investigate() on it concurrently.  What belongs to one   *)
(* investigation is in local variables of the coroutine (step, evidence,   *)
(* asked, call); what the executor keeps in fields is shared by all of     *)
(* them (snapshot, activeRequest, activeAnchor).  All model calls go       *)
(* through the backend's inference gate.  A step of this module is what a  *)
(* coroutine does between two awaits: the answer of a model, the answer of *)
(* a tool, and everything up to the next question.                         *)
(***************************************************************************)
EXTENDS Naturals, SequencesExt

CONSTANTS Jobs,        \* investigations, each of an incident of its own
          Kinds,       \* evidence families
          KindsOf,     \* [Jobs -> SUBSET Kinds], what its model may ask for
          Tools,       \* operational tools bound to the executor
          ToolsOf,     \* [Kinds -> SUBSET Tools], the compatible ones
          MaxSteps,    \* max_steps of the executor
          Tries,       \* attempts of a structured model call
          Slots,       \* max_concurrency of the inference gate
          None

ASSUME BoundsAssumption == MaxSteps \in Nat \ {0} /\ Tries \in Nat \ {0} /\ Slots \in Nat \ {0}
ASSUME ToolsAssumption  == ToolsOf \in [Kinds -> SUBSET Tools] /\ Tools # {}
ASSUME KindsAssumption  == KindsOf \in [Jobs -> SUBSET Kinds]
ASSUME NoneAssumption   == None \notin Jobs

VARIABLES at,             \* where each investigation stands
          step,           \* its ReAct step
          tries,          \* rejected attempts of its present model call
          asked,          \* the evidence request in its selection assignment
          call,           \* the tool call it executes
          evidence,       \* what it has observed
          retained,       \* the evidence a saturated one is closed on
          result,         \* how it ended
          snapshot,       \* _bounded_evidence_snapshot of the executor
          activeRequest,  \* _active_evidence_request of the executor
          activeAnchor,   \* _active_reasoning_assignment of the executor
          line,           \* the inference gate: holders first, then who waits
          overlapped      \* investigations that ran beside another one
job    == <<step, tries, asked, call, evidence, retained, result>>
shared == <<snapshot, activeRequest, activeAnchor>>
vars   == <<at, job, shared, line, overlapped>>

Thinking == {"reason", "select", "close", "conclude", "saturate"}
Running  == Thinking \cup {"ground", "observe"}
Ended    == {"done", "failed"}

(* focus: the incident whose anchor a request was normalised against       *)
Focus    == Jobs \cup {None}
Requests == [kind : Kinds, focus : Focus]
Calls    == [tool : Tools, focus : Focus]
(* call is None in what a failed call leaves: nothing asks which one it was *)
Items    == [by : Jobs, step : 1 .. MaxSteps, call : Calls \cup {None}]
(* open: the diagnosis is inconclusive and asks no peer                    *)
Results  == [saturated : BOOLEAN, open : BOOLEAN]

Init ==
    /\ at = [j \in Jobs |-> "idle"] /\ step = [j \in Jobs |-> 0]
    /\ tries = [j \in Jobs |-> 0]
    /\ asked = [j \in Jobs |-> None] /\ call = [j \in Jobs |-> None]
    /\ evidence = [j \in Jobs |-> {}] /\ retained = [j \in Jobs |-> {}]
    /\ result = [j \in Jobs |-> None]
    /\ snapshot = {} /\ activeRequest = None /\ activeAnchor = None
    /\ line = <<>> /\ overlapped = {}

-----------------------------------------------------------------------------
(* The inference gate, an asyncio semaphore: first come, first served, the *)
(* first Slots in the line hold a slot.                                    *)

Places(j) == {n \in 1 .. Len(line) : line[n] = j}
Holds(j)  == \E n \in Places(j) : n <= Slots
Left(j)   == IF Places(j) = {} THEN line ELSE RemoveAt(line, CHOOSE n \in Places(j) : TRUE)

KeepSlotOnError(j) ==                  \* mutant: no release when the call raises
    /\ tries' = [tries EXCEPT ![j] = @ + 1]
    /\ line' = Append(line, j) /\ UNCHANGED at

(* A new model call of j, the next attempt of the present one, and leaving *)
(* the gate.                                                               *)
Ask(j, stage) ==
    /\ at' = [at EXCEPT ![j] = stage] /\ tries' = [tries EXCEPT ![j] = 0]
    /\ line' = Append(Left(j), j)

AskAgain(j) ==
    /\ tries' = [tries EXCEPT ![j] = @ + 1]
    /\ line' = Append(Left(j), j) /\ UNCHANGED at

Go(j, stage) ==
    /\ at' = [at EXCEPT ![j] = stage] /\ tries' = [tries EXCEPT ![j] = 0]
    /\ line' = Left(j)

Answered(j, stage) == at[j] = stage /\ Holds(j)

LastTry(j) == tries[j] = Tries - 1

-----------------------------------------------------------------------------
(* The start of investigate(): the shared fields are reset, whoever uses   *)
(* them, and the initial knowledge query is awaited.                       *)
Reset == snapshot' = {} /\ activeRequest' = None /\ activeAnchor' = None

RunningNow == {j \in Jobs : at[j] \in Running}

Begin(j) ==
    /\ at[j] = "idle" /\ at' = [at EXCEPT ![j] = "ground"]
    /\ Reset
    /\ overlapped' = IF RunningNow = {} THEN overlapped
                                        ELSE overlapped \cup RunningNow \cup {j}
    /\ UNCHANGED <<job, line>>

(* _reason: the assignment of j becomes the active one, then the model is  *)
(* asked.                                                                  *)
NextStep(j) ==
    /\ step' = [step EXCEPT ![j] = @ + 1]
    /\ Ask(j, "reason")
    /\ activeAnchor' = j

(* The knowledge query succeeds or not; the loop starts either way.        *)
Grounded(j) ==
    /\ at[j] = "ground" /\ NextStep(j)
    /\ UNCHANGED <<asked, call, evidence, retained, result, snapshot, activeRequest, overlapped>>

-----------------------------------------------------------------------------
(* The end of investigate(): a result or an exception, and the finally     *)
(* block, which clears the shared fields again.                            *)
ClearActive == activeRequest' = None /\ activeAnchor' = None

(* The locals of the coroutine end with it.                                *)
DropLocals(j) ==
    /\ asked' = [asked EXCEPT ![j] = None] /\ call' = [call EXCEPT ![j] = None]
    /\ evidence' = [evidence EXCEPT ![j] = {}] /\ retained' = [retained EXCEPT ![j] = {}]

Conclude(j, open) ==
    /\ result' = [result EXCEPT ![j] = [saturated |-> at[j] = "saturate", open |-> open]]
    /\ Go(j, "done") /\ ClearActive /\ DropLocals(j)
    /\ UNCHANGED <<step, snapshot, overlapped>>

Fail(j) ==
    /\ Go(j, "failed") /\ ClearActive /\ DropLocals(j)
    /\ UNCHANGED <<step, result, snapshot, overlapped>>

-----------------------------------------------------------------------------
(* The answer of the reasoning model.                                      *)

ReasonRejected(j) ==
    /\ Answered(j, "reason")
    /\ IF LastTry(j) THEN Fail(j)
       ELSE /\ AskAgain(j)
            /\ UNCHANGED <<step, asked, call, evidence, retained, result, shared, overlapped>>

(* _native_reasoning_request normalises the request against the assignment *)
(* that is active now, and not at all when there is none.                  *)
Normalised(kind) == [kind |-> kind, focus |-> activeAnchor]

StaleMemory(j) == IF snapshot = {} THEN evidence[j] ELSE snapshot \* mutant: filled once

Remembered(j) == evidence[j]

Decided(j, request) ==
    /\ activeAnchor' = None /\ activeRequest' = request
    /\ snapshot' = Remembered(j)

IsDuplicate(j, c) == \E item \in evidence[j] : item.call = c

(* A repeated call ends the loop: what the executor remembers is closed    *)
(* on, if it remembers anything.                                           *)
Saturate(j, remembered) ==
    /\ remembered # {}
    /\ retained' = [retained EXCEPT ![j] = remembered]
    /\ asked' = [asked EXCEPT ![j] = None]
    /\ Ask(j, "saturate") /\ UNCHANGED call

(* The sole compatible tool, its arguments derived from the request: no    *)
(* model is asked, and a repeated call is noticed at once.                 *)
SelectSole(j, request) ==
    \E tool \in Tools :
      /\ ToolsOf[request.kind] = {tool}
      /\ LET c == [tool |-> tool, focus |-> request.focus] IN
           \/ IsDuplicate(j, c) /\ Saturate(j, Remembered(j))
           \/ /\ ~ IsDuplicate(j, c) /\ Go(j, "observe")
              /\ asked' = [asked EXCEPT ![j] = request]
              /\ call' = [call EXCEPT ![j] = c] /\ UNCHANGED retained

(* Several tools, none, or arguments that cannot be derived: the selection *)
(* model is asked.                                                         *)
SelectByModel(j, request) ==
    /\ Ask(j, "select") /\ asked' = [asked EXCEPT ![j] = request]
    /\ UNCHANGED <<call, retained>>

Gather(j, kind) ==
    LET request == Normalised(kind) IN
    /\ Answered(j, "reason")
    /\ Decided(j, request)
    /\ SelectSole(j, request) \/ SelectByModel(j, request)
    /\ UNCHANGED <<step, evidence, result, overlapped>>

(* A target that no compatible tool accepts ends the investigation.        *)
TargetUnknown(j, kind) ==
    /\ Answered(j, "reason") /\ ToolsOf[kind] # {}
    /\ Go(j, "failed") /\ ClearActive /\ DropLocals(j)
    /\ snapshot' = Remembered(j)
    /\ UNCHANGED <<step, result, overlapped>>

HasObservation(j) == \E item \in evidence[j] : item.call # None

RefuseForFree(j) ==                    \* mutant: a refused closure costs no step
    /\ step[j] < MaxSteps /\ UNCHANGED step
    /\ Ask(j, "reason") /\ activeAnchor' = j

(* Closure refused: the next step of the loop.                             *)
Continue(j) == step[j] < MaxSteps /\ NextStep(j)

(* finish is accepted over a successful observation only; without a        *)
(* concrete hypothesis it is turned back while steps are left.             *)
FinishRefused(j) ==
    /\ Answered(j, "reason") /\ HasObservation(j)
    /\ Continue(j)
    /\ activeRequest' = None /\ snapshot' = Remembered(j)
    /\ UNCHANGED <<asked, call, evidence, retained, result, overlapped>>

FinishAccepted(j) ==
    /\ Answered(j, "reason") /\ HasObservation(j)
    /\ Decided(j, None) /\ Ask(j, "close")
    /\ UNCHANGED <<step, asked, call, evidence, retained, result, overlapped>>

-----------------------------------------------------------------------------
(* The answer of the selection model.                                      *)

OfferedByActive(j) ==                  \* mutant: candidates of the shared request
    IF activeRequest = None THEN Tools ELSE ToolsOf[activeRequest.kind]

(* Only the compatible tools of the request in the assignment are offered, *)
(* all tools when there is none.                                           *)
Offered(j) == IF ToolsOf[asked[j].kind] = {} THEN Tools ELSE ToolsOf[asked[j].kind]

(* _validate_tool_semantics checks against the executor's active request,  *)
(* and not at all when there is none.                                      *)
Semantic(tool) == activeRequest # None => tool \in ToolsOf[activeRequest.kind]

Selected(j, tool) == [tool |-> tool, focus |-> asked[j].focus]

Select(j, tool) ==
    /\ Answered(j, "select")
    /\ tool \in Offered(j) /\ Semantic(tool) /\ ~ IsDuplicate(j, Selected(j, tool))
    /\ call' = [call EXCEPT ![j] = Selected(j, tool)]
    /\ Go(j, "observe")
    /\ UNCHANGED <<step, asked, evidence, retained, result, shared, overlapped>>

(* A proposal that is refused, or a call that raises one of the three      *)
(* exception classes of the loop, is tried again.                          *)
SelectRejected(j) ==
    /\ Answered(j, "select")
    /\ IF LastTry(j) THEN Fail(j)
       ELSE /\ AskAgain(j)
            /\ UNCHANGED <<step, asked, call, evidence, retained, result, shared, overlapped>>

(* Any other exception, a transport error of the selector among them,      *)
(* leaves the loop at once and ends the investigation.                     *)
SelectRaises(j) == Answered(j, "select") /\ Fail(j)

(* The last rejected attempt repeated a successful call: by now the        *)
(* snapshot may be another investigation's.                                *)
SelectSaturated(j, tool) ==
    /\ Answered(j, "select") /\ LastTry(j)
    /\ tool \in Offered(j) /\ Semantic(tool) /\ IsDuplicate(j, Selected(j, tool))
    /\ \/ /\ Saturate(j, snapshot)
          /\ UNCHANGED <<step, evidence, result, shared, overlapped>>
       \/ snapshot = {} /\ Fail(j)

(* The tool answers, fails or times out; the last step leads to the        *)
(* diagnosis.                                                              *)
Observe(j, ok) ==
    /\ at[j] = "observe"
    /\ evidence' = [evidence EXCEPT ![j] = @ \cup
          {[by |-> j, step |-> step[j], call |-> IF ok THEN call[j] ELSE None]}]
    /\ call' = [call EXCEPT ![j] = None] /\ asked' = [asked EXCEPT ![j] = None]
    /\ \/ Continue(j)
       \/ /\ step[j] = MaxSteps /\ Ask(j, "conclude") /\ UNCHANGED <<step, activeAnchor>>
    /\ UNCHANGED <<retained, result, snapshot, activeRequest, overlapped>>

-----------------------------------------------------------------------------
(* The answer of the finalizer: a diagnosis, open or not.                  *)

(* An open closure is refused while steps are left.                        *)
Premature(j, open) == at[j] = "close" /\ open /\ step[j] < MaxSteps

Finalize(j, open) ==
    /\ at[j] \in {"close", "conclude", "saturate"} /\ Holds(j)
    /\ \/ /\ Premature(j, open) /\ Continue(j)
          /\ UNCHANGED <<asked, call, evidence, retained, result, snapshot, activeRequest,
                         overlapped>>
       \/ ~ Premature(j, open) /\ Conclude(j, open)

(* A rejected output; the last one ends the investigation, unless it was   *)
(* rejected for what it claims: then the loop goes on, or a fixed          *)
(* inconclusive output keeps the evidence.                                 *)
FinalizeRejected(j, semantic) ==
    /\ at[j] \in {"close", "conclude", "saturate"} /\ Holds(j)
    /\ \/ /\ ~ LastTry(j) /\ AskAgain(j)
          /\ UNCHANGED <<step, asked, call, evidence, retained, result, shared, overlapped>>
       \/ /\ LastTry(j) /\ semantic /\ at[j] = "close" /\ Continue(j)
          /\ UNCHANGED <<asked, call, evidence, retained, result, snapshot, activeRequest,
                         overlapped>>
       \/ /\ LastTry(j) /\ semantic /\ (at[j] = "close" => step[j] = MaxSteps)
          /\ Conclude(j, TRUE)
       \/ LastTry(j) /\ ~ semantic /\ Fail(j)

-----------------------------------------------------------------------------
Progress(j) ==
    \/ Grounded(j) \/ ReasonRejected(j) \/ FinishRefused(j) \/ FinishAccepted(j)
    \/ \E k \in KindsOf[j] : Gather(j, k) \/ TargetUnknown(j, k)
    \/ \E b \in BOOLEAN : Observe(j, b) \/ Finalize(j, b) \/ FinalizeRejected(j, b)

SelectionAnswer(j) ==
    \/ SelectRejected(j) \/ SelectRaises(j)
    \/ \E t \in Tools : Select(j, t) \/ SelectSaturated(j, t)

Next == \E j \in Jobs : Begin(j) \/ Progress(j) \/ SelectionAnswer(j)

Spec == Init /\ [][Next]_vars

(* The reasoning and finalizer requests carry a timeout, tools run under   *)
(* wait_for, and the semaphore is fair.  The client of the selection model *)
(* is built without a timeout (langchain_agent.py 343): nothing obliges it *)
(* to answer while it holds its slot, so its answers get no fairness.      *)
FairSpec == Spec /\ \A j \in Jobs : WF_vars(Progress(j))

-----------------------------------------------------------------------------
(* Properties.                                                             *)

TypeOK ==
    /\ at \in [Jobs -> {"idle"} \cup Running \cup Ended]
    /\ step \in [Jobs -> 0 .. MaxSteps] /\ tries \in [Jobs -> 0 .. Tries - 1]
    /\ asked \in [Jobs -> Requests \cup {None}] /\ call \in [Jobs -> Calls \cup {None}]
    /\ evidence \in [Jobs -> SUBSET Items] /\ retained \in [Jobs -> SUBSET Items]
    /\ result \in [Jobs -> Results \cup {None}]
    /\ snapshot \in SUBSET Items
    /\ activeRequest \in Requests \cup {None} /\ activeAnchor \in Focus
    /\ line \in Seq(Jobs) /\ overlapped \in SUBSET Jobs

(* The gate: an investigation that waits for a model is in the line        *)
(* exactly once, and nobody else is: no slot is lost when an attempt is    *)
(* rejected, a closure refused or an investigation fails.                  *)
GateSound ==
    \A j \in Jobs : Cardinality(Places(j)) = IF at[j] \in Thinking THEN 1 ELSE 0

(* Whatever the other investigations do to the shared fields, a tool is    *)
(* executed for the family and the incident that this one asked about,     *)
(* as long as some tool fits the family.                                   *)
ToolFitsRequest ==
    \A j \in Jobs : at[j] = "observe" /\ ToolsOf[asked[j].kind] # {} =>
      /\ call[j].tool \in ToolsOf[asked[j].kind]
      /\ call[j].focus = asked[j].focus

(* An investigation never repeats a call that succeeded.                   *)
NoRepeatedCall ==
    \A j \in Jobs : \A x, y \in evidence[j] :
      y.step > x.step => y.call # x.call \/ x.call = None

(* What the finalizer is given, and what the result reports.               *)
Closing(j) == at[j] \in {"close", "conclude", "saturate"}
Basis(j)   == IF at[j] = "saturate" THEN retained[j] ELSE evidence[j]

(* An investigation that ran alone concludes from all it observed, and     *)
(* from nothing else, even when it was cut short by a repeated call; and   *)
(* everything it observed is about its own incident.                       *)
AloneIsComplete ==
    \A j \in Jobs \ overlapped : Closing(j) =>
      /\ Basis(j) = evidence[j]
      /\ \A item \in Basis(j) : item.by = j /\ (item.call # None => item.call.focus = j)

(* No investigation gives up early: an inconclusive result that asks no    *)
(* peer comes after the last step, or after a repeated call.               *)
GivesUpLate ==
    \A j \in Jobs : result[j] # None =>
      (result[j].open => step[j] = MaxSteps \/ result[j].saturated)

(* Type correctness, that the gate is sound, that no call is repeated and   *)
(* that no investigation gives up early.                                   *)
ExecutorSound == TypeOK /\ GateSound /\ NoRepeatedCall /\ GivesUpLate

(* Every investigation ends, with a result or with an error.  The one      *)
(* thing that can keep any of them from ending, its own call or the call   *)
(* of another investigation, is a selection that holds an inference slot   *)
(* and is never answered.                                                  *)
SelectionHangs == \E h \in Jobs : <>[](at[h] = "select" /\ Holds(h))
EveryInvestigationEnds ==
    SelectionHangs \/ \A j \in Jobs : at[j] \in Running ~> at[j] \in Ended
=============================================================================
