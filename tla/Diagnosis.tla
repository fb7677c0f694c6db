----------------------------- MODULE Diagnosis -----------------------------
(***************************************************************************)
(* How one specialist's diagnosis becomes the published one: the finalizer *)
(* fits its prompt into the context and asks the model (evaluation_react,  *)
(* specialist_react._finalize), the output contract closes what the model  *)
(* claims (react_contracts), one peer may be consulted (specialist), the   *)
(* backend collects the result (runtime), the Technical Lead reviews it    *)
(* (review) and the coordinator persists it, or the fallback               *)
(* (evidence_coordinator, react_coordinator).                              *)
(*                                                                         *)
(* Texts are abstract: a cause is the label of an unconfirmed mechanism or *)
(* is named by somebody, a chain is somebody's; a prompt is its length.    *)
(***************************************************************************)
EXTENDS Integers, FiniteSets, FiniteSetsExt

CONSTANTS Contexts,      \* context sizes the agent may be configured with (tokens)
          ItemCounts,    \* numbers of observations
          SchemaChars,   \* length of the schema message ...
          CompactChars,  \* ... and of the instruction that replaces it
          Confidences,   \* percent
          Domains,       \* diagnostic domains, the specialist's own and others
          Own,           \* the specialist's own
          None

ASSUME ContextsAssumption == Contexts \subseteq Nat /\ ItemCounts \subseteq Nat \ {0}
ASSUME CharsAssumption    == SchemaChars \in Nat /\ CompactChars \in 1 .. SchemaChars
ASSUME ClaimsAssumption   == Confidences \subseteq 0 .. 100 /\ Own \in Domains /\ None \notin Domains

Attempts       == 3       \* of the finalizer, and of the review
SafetyMargin   == 2048
LeastInput     == 1024
Ceiling        == 50      \* confidence of a demoted claim
Minimal        == 5       \* the last compaction, after 0 (none) and 1 .. 4

VARIABLES stage,          \* where the diagnosis stands
          prompt,         \* the finalizer's request, None once it is over
          result,         \* the specialist's diagnosis
          consulted,      \* a peer was consulted about the incident before
          tries,          \* rejected reviews
          assessment,     \* what the review concluded
          published       \* the diagnosis in the incident document
vars == <<stage, prompt, result, consulted, tries, assessment, published>>

Stages == {"prompt", "ask", "consult", "collect", "review", "persist", "recorded",
           "fallback", "preserved", "done", "failed", "rejected", "raised"}
Ended  == {"done", "failed", "rejected", "raised"}

Statuses == {"inconclusive", "probable", "confirmed"}
Authors  == {"own", "peer"}
Causes   == Authors \cup {"none", "unconfirmed"}
Chains   == Authors \cup {"none"}

Prompts == [context : Contexts, items : ItemCounts, attempt : 1 .. Attempts,
            level : 0 .. Minimal, forced : BOOLEAN, body : Nat]
(* assistance_required is computed from the domain                         *)
Diagnoses == [status : Statuses, cause : Causes, chain : Chains, confidence : 0 .. 100,
              domain : Domains \cup {None}, steps : BOOLEAN,
              consultation : {"none", "skipped", "unavailable", "completed"}]
(* the incident document has no diagnosis_status                           *)
Reports == [cause : Causes \cup {"reviewed"}, confidence : 0 .. 100, steps : BOOLEAN]

ASSUME NoneAssumption == None \notin Prompts \cup Diagnoses \cup Reports

Init ==
    /\ stage = "prompt"
    /\ prompt \in [context : Contexts, items : ItemCounts, attempt : {1}, level : {0},
                   forced : {FALSE}, body : {0}]
    /\ result = None /\ consulted \in BOOLEAN
    /\ tries = 0 /\ assessment = None /\ published = None

-----------------------------------------------------------------------------
(* The context budget of the finalizer.                                    *)

NumPredict(context) == Max({1024, Min({2048, context \div 4})})

Reserved(context) == NumPredict(context) + SafetyMargin

TooSmall(context) == context < Reserved(context) + LeastInput

Guard(context) == ((context - Reserved(context)) * 3) \div 2

BodyOnly(context, body) == body       \* mutant: measured before schema injection

(* What is sent for a prompt: the schema goes with it when both fit.       *)
InputChars(context, body) ==
    body + IF body + SchemaChars <= Guard(context) THEN SchemaChars ELSE CompactChars

Measured(context, body) == InputChars(context, body)

(* Lengths on both sides of each limit.                                    *)
Bodies(context) ==
    {n \in {Guard(context) + over - limit : over \in {0, 1}, limit \in {SchemaChars, CompactChars}} :
        n > 0}

Limit(level) == <<8, 7, 6, 5, 5>>[level]

(* _select_sequence: the head and the tail, the head one longer.           *)
Selected(n, limit) ==
    LET head == (limit + 1) \div 2 IN
    (1 .. head) \cup ((n - (limit - head) + 1) .. n)

Sent(p) == IF p.level = 0 \/ p.items <= Limit(p.level) THEN 1 .. p.items
           ELSE Selected(p.items, Limit(p.level))

Omitted(p) == IF p.level = 0 \/ p.items <= Limit(p.level) THEN 0
              ELSE p.items - Limit(p.level)

-----------------------------------------------------------------------------
(* The attempts of the finalizer.                                          *)

(* Any error of an attempt; the last one ends the investigation.           *)
AttemptFails ==
    IF prompt.attempt < Attempts
    THEN /\ prompt' = [prompt EXCEPT !.attempt = @ + 1, !.level = 0, !.forced = FALSE, !.body = 0]
         /\ stage' = "prompt"
    ELSE prompt' = None /\ stage' = "failed"

BudgetError ==
    /\ stage = "prompt" /\ TooSmall(prompt.context)
    /\ AttemptFails
    /\ UNCHANGED <<result, consulted, tries, assessment, published>>

(* The next compaction is tried until one fits; each level renders the     *)
(* prompt anew, and not always shorter.                                    *)
Compact(body) ==
    LET fits == Measured(prompt.context, body) <= Guard(prompt.context) IN
    /\ stage = "prompt" /\ ~ TooSmall(prompt.context)
    /\ \/ /\ fits /\ stage' = "ask"
          /\ prompt' = [prompt EXCEPT !.body = body]
       \/ /\ ~ fits /\ prompt.level < Minimal
          /\ prompt' = [prompt EXCEPT !.level = @ + 1] /\ UNCHANGED stage
       \/ ~ fits /\ prompt.level = Minimal /\ AttemptFails
    /\ UNCHANGED <<result, consulted, tries, assessment, published>>

(* No answer, an empty one, invalid JSON, an object outside the schema.    *)
AnswerRejected ==
    /\ stage = "ask" /\ AttemptFails
    /\ UNCHANGED <<result, consulted, tries, assessment, published>>

RetryUnmarked ==                       \* mutant: the retry may be retried
    /\ stage = "ask" /\ ~ prompt.forced
    /\ prompt' = [prompt EXCEPT !.level = 0, !.body = 0] /\ stage' = "prompt"
    /\ UNCHANGED <<result, consulted, tries, assessment, published>>

(* An answer cut off by its length is asked for once more over the minimal *)
(* prompt; one that is minimal already is sent again as it is.             *)
AnswerCutOff ==
    /\ stage = "ask" /\ ~ prompt.forced
    /\ IF prompt.level = Minimal
       THEN prompt' = [prompt EXCEPT !.forced = TRUE] /\ UNCHANGED stage
       ELSE /\ prompt' = [prompt EXCEPT !.forced = TRUE, !.level = Minimal, !.body = 0]
            /\ stage' = "prompt"
    /\ UNCHANGED <<result, consulted, tries, assessment, published>>

-----------------------------------------------------------------------------
(* The output contract: what the model claims and what is left of it.      *)

Claims(d) == d.status \in {"confirmed", "probable"}

ChainOptional(d) ==                    \* mutant: a claim without links stands
    IF Claims(d) /\ d.cause = "unconfirmed"
    THEN [d EXCEPT !.status = "inconclusive", !.confidence = Min({@, Ceiling})] ELSE d

(* A claim without a stated cause or without links is no claim ...         *)
Demoted(d) ==
    IF Claims(d) /\ (d.cause = "unconfirmed" \/ d.chain = "none")
    THEN [d EXCEPT !.status = "inconclusive", !.confidence = Min({@, Ceiling})] ELSE d

(* ... and a settled mechanism does not ask a peer for evidence.           *)
Weakened(d) ==
    IF d.status = "confirmed" /\ d.domain # None THEN [d EXCEPT !.status = "probable"] ELSE d

(* A request to the specialist's own domain is dropped, after the closure. *)
OwnRequestDropped(d) == IF d.domain = Own THEN [d EXCEPT !.domain = None] ELSE d

Closed(d) == OwnRequestDropped(Weakened(Demoted(d)))

(* What a model may claim as author: a cause or a placeholder, which the   *)
(* contract turns into the label.                                          *)
Outputs(author) ==
    [status : Statuses, cause : {author, "unconfirmed"}, chain : {author, "none"},
     confidence : Confidences, domain : Domains \cup {None}, steps : BOOLEAN,
     consultation : {"none"}]

(* The fixed closure of an investigation whose claims were all rejected.   *)
HardStopOutput ==
    [status |-> "inconclusive", cause |-> "unconfirmed", chain |-> "none", confidence |-> 0,
     domain |-> None, steps |-> TRUE, consultation |-> "none"]

AnswerAccepted(output) ==
    /\ stage = "ask"
    /\ result' = Closed(output) /\ prompt' = None /\ stage' = "consult"
    /\ UNCHANGED <<consulted, tries, assessment, published>>

(* The last attempt failed for what the output claims.                     *)
HardStop ==
    /\ stage = "ask" /\ prompt.attempt = Attempts
    /\ result' = HardStopOutput /\ prompt' = None /\ stage' = "consult"
    /\ UNCHANGED <<consulted, tries, assessment, published>>

-----------------------------------------------------------------------------
(* The consultation of one peer.                                           *)

(* None is asked for, or the incident had its consultation: the request    *)
(* then stays in the result.                                               *)
NoConsultation ==
    /\ stage = "consult" /\ (result.domain = None \/ consulted)
    /\ stage' = "collect"
    /\ UNCHANGED <<prompt, result, consulted, tries, assessment, published>>

Asks == stage = "consult" /\ result.domain # None /\ ~ consulted

(* The peer-help reasoner needs no help after all, nobody has the role, or *)
(* the decision, the request or the answer fails or times out.             *)
ConsultationEnds(status) ==
    /\ Asks /\ consulted' = TRUE
    /\ result' = [result EXCEPT !.domain = None, !.consultation = status]
    /\ stage' = "collect"
    /\ UNCHANGED <<prompt, tries, assessment, published>>

Rank(d) == CASE d.status = "inconclusive" -> 0
             [] d.status = "probable"     -> 1
             [] d.status = "confirmed"    -> 2

FirstOf(own, other) == IF own # "none" THEN own ELSE other

OwnChain(d, p) == [d EXCEPT            \* mutant: the peer's chain is forgotten
    !.status = IF Rank(d) >= Rank(p) THEN @ ELSE p.status,
    !.cause = FirstOf(@, p.cause),
    !.confidence = Max({@, p.confidence}),
    !.steps = @ \/ p.steps,
    !.domain = None, !.consultation = "completed"]

PeerFirst(d, p) == [d EXCEPT           \* mutant: the answer replaces the status
    !.status = p.status,
    !.cause = FirstOf(@, p.cause), !.chain = FirstOf(@, p.chain),
    !.confidence = Max({@, p.confidence}),
    !.steps = @ \/ p.steps,
    !.domain = None, !.consultation = "completed"]

Merged(d, p) == [d EXCEPT
    !.status = IF Rank(d) >= Rank(p) THEN @ ELSE p.status,
    !.cause = FirstOf(@, p.cause), !.chain = FirstOf(@, p.chain),
    !.confidence = Max({@, p.confidence}),
    !.steps = @ \/ p.steps,
    !.domain = None, !.consultation = "completed"]

(* The peer answers with a diagnosis that went through the same contract.  *)
PeerAnswers(output) ==
    /\ Asks /\ consulted' = TRUE
    /\ result' = Merged(result, Closed(output))
    /\ stage' = "collect"
    /\ UNCHANGED <<prompt, tries, assessment, published>>

-----------------------------------------------------------------------------
(* The collector of the backend checks the result of the message.          *)

Accepted(d) ==
    /\ Claims(d) => d.cause # "none" /\ d.chain # "none"
    /\ d.status = "confirmed" => d.domain = None

Collect ==
    /\ stage = "collect"
    /\ stage' = IF Accepted(result) THEN "review" ELSE "rejected"
    /\ UNCHANGED <<prompt, result, consulted, tries, assessment, published>>

-----------------------------------------------------------------------------
(* The review.  The incident is closed whatever the model answers.         *)

(* _validate_specialist_result: inside the try of each attempt.            *)
Supported(d) == Claims(d) => d.cause # "none" /\ d.chain # "none"

NoPromotion(a, d) == a                 \* mutant: what the model returned

(* _ensure_operator_guidance                                               *)
Guided(a, d) == [a EXCEPT !.steps = @ \/ d.steps]

ReviewAccepted(steps, confidence) ==
    /\ stage = "review" /\ Supported(result)
    /\ assessment' = Guided([cause |-> "reviewed", confidence |-> confidence, steps |-> steps],
                            result)
    /\ stage' = "persist"
    /\ UNCHANGED <<prompt, result, consulted, tries, published>>

FallbackCause(d) == FirstOf(d.cause, "unconfirmed")

LastReview == tries = Attempts - 1

(* The last rejected answer ends in the deterministic assessment.          *)
ReviewRejected ==
    /\ stage = "review"
    /\ IF ~ LastReview
       THEN tries' = tries + 1 /\ UNCHANGED <<stage, assessment>>
       ELSE /\ assessment' = Guided([cause |-> FallbackCause(result),
                                     confidence |-> result.confidence, steps |-> FALSE], result)
            /\ stage' = "persist" /\ UNCHANGED tries
    /\ UNCHANGED <<prompt, result, consulted, published>>

(* The control loop of the Technical Lead gives up, or times out.          *)
ReviewFails ==
    /\ stage = "review" /\ stage' = "fallback"
    /\ UNCHANGED <<prompt, result, consulted, tries, assessment, published>>

-----------------------------------------------------------------------------
(* Persistence: the incident document first, then its event.  An error of  *)
(* either write leads to the fallback, which writes the document again.    *)

(* The confidence is the specialist's, not the review's.                   *)
Report(a, d) == [a EXCEPT !.confidence = d.confidence]

PersistReview ==
    /\ stage = "persist"
    /\ \/ published' = Report(assessment, result) /\ stage' = "recorded"
       \/ stage' = "fallback" /\ UNCHANGED published
    /\ UNCHANGED <<prompt, result, consulted, tries, assessment>>

RecordReview ==
    /\ stage = "recorded" /\ stage' \in {"done", "fallback"}
    /\ UNCHANGED <<prompt, result, consulted, tries, assessment, published>>

(* An error of the fallback itself leaves the task completed and the       *)
(* incident where it is: the workflow raises.                              *)
PersistFallback ==
    /\ stage = "fallback"
    /\ \/ /\ stage' = "preserved"
          /\ published' = [cause |-> FallbackCause(result), confidence |-> result.confidence,
                           steps |-> result.steps]
       \/ stage' = "raised" /\ UNCHANGED published
    /\ UNCHANGED <<prompt, result, consulted, tries, assessment>>

RecordFallback ==
    /\ stage = "preserved" /\ stage' \in {"done", "raised"}
    /\ UNCHANGED <<prompt, result, consulted, tries, assessment, published>>

-----------------------------------------------------------------------------
Next ==
    \/ BudgetError \/ AnswerRejected \/ AnswerCutOff \/ HardStop
    \/ stage = "prompt" /\ \E body \in Bodies(prompt.context) : Compact(body)
    \/ \E output \in Outputs("own") : AnswerAccepted(output)
    \/ NoConsultation
    \/ \E status \in {"skipped", "unavailable"} : ConsultationEnds(status)
    \/ \E output \in Outputs("peer") : PeerAnswers(output)
    \/ Collect
    \/ \E steps \in BOOLEAN, confidence \in Confidences : ReviewAccepted(steps, confidence)
    \/ ReviewRejected \/ ReviewFails
    \/ PersistReview \/ RecordReview \/ PersistFallback \/ RecordFallback

Spec == Init /\ [][Next]_vars

(* Every request and write returns or times out, and so does a model call  *)
(* that has its slot of the gate; what can hold the slot for ever, a tool  *)
(* selection, is in ReActExecutor.                                         *)
FairSpec == Spec /\ WF_vars(Next)

-----------------------------------------------------------------------------
(* Properties.                                                             *)

TypeOK ==
    /\ stage \in Stages
    /\ prompt \in Prompts \cup {None} /\ (prompt # None <=> stage \in {"prompt", "ask"})
    /\ result \in Diagnoses \cup {None} /\ consulted \in BOOLEAN
    /\ tries \in 0 .. Attempts - 1
    /\ assessment \in Reports \cup {None} /\ published \in Reports \cup {None}

(* The context holds what is sent, the answer it reserves and the margin,  *)
(* at 1.5 characters per token, on the first request and on the minimal    *)
(* one that follows an answer cut off.                                     *)
PromptFits ==
    stage = "ask" =>
      LET p == prompt IN
      2 * InputChars(p.context, p.body) + 3 * Reserved(p.context) <= 3 * p.context

(* Whatever is omitted to fit, the first and the latest observation are    *)
(* sent, and the prompt says truly how many are not.                       *)
EndsAreSent ==
    stage = "ask" =>
      /\ {1, prompt.items} \subseteq Sent(prompt)
      /\ Cardinality(Sent(prompt)) + Omitted(prompt) = prompt.items

(* What is sent to the model fits and says truly what it leaves out.        *)
PromptIsSound == PromptFits /\ EndsAreSent

(* The contracts of the three programs agree: the collector accepts every  *)
(* diagnosis that an executor returns, solo or merged, and the review      *)
(* never blames a result that was collected.  Either would repeat: the     *)
(* specialist reports its cached result again, the review spends its       *)
(* attempts.                                                               *)
ContractsAgree ==
    /\ stage # "rejected"
    /\ stage = "review" => Supported(result)

(* Type correctness, and that the contracts agree.                          *)
ContractsHold == TypeOK /\ ContractsAgree

(* A claim that no peer took part in names the specialist's own cause and  *)
(* its own chain.                                                          *)
SoloClaimIsSpecific ==
    result # None /\ Claims(result) /\ result.consultation # "completed" =>
      result.cause = "own" /\ result.chain = "own"

(* The answer of a peer never weakens the diagnosis it was asked for: not  *)
(* its status, its confidence, its cause, its links or its guidance.       *)
PeerNeverWeakens ==
    [][ Asks /\ stage' = "collect" =>
        /\ Rank(result') >= Rank(result) /\ result'.confidence >= result.confidence
        /\ result.cause = "own" => result'.cause = "own"
        /\ result.chain = "own" => result'.chain = "own"
        /\ result.steps => result'.steps ]_vars

(* Whoever writes the report, and whoever overwrites it, the operator gets *)
(* steps when the specialist recommended some.                             *)
GuidanceReachesOperator == published # None /\ result.steps => published.steps

(* Every diagnosis ends, published or given back to the workflow.          *)
DiagnosisEnds == <>(stage \in Ended)

(* FINALIZATION_POLICY, observation_aware_react.py 145: never confirmed or *)
(* probable with an unconfirmed cause.                                     *)
ClaimsNameTheirCause == stage = "review" /\ Claims(result) => result.cause \in Authors
=============================================================================
