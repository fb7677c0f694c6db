-------------------------- MODULE DiagnosisProofs --------------------------
(***************************************************************************)
(* Proofs about Diagnosis for every set of contexts and numbers of         *)
(* observations, every length of the schema message, all confidences and   *)
(* all domains.                                                            *)
(***************************************************************************)
EXTENDS Diagnosis, FiniteSetTheorems, TLAPS

(* What is there at each stage.                                            *)
StageSound ==
    /\ stage \notin {"prompt", "ask", "failed"} => result \in Diagnoses
    /\ stage = "consult" => result.consultation = "none"
    /\ stage # "rejected"
    /\ stage \in {"prompt", "ask", "consult", "collect", "review"} =>
         assessment = None /\ published = None
    /\ stage = "persist" => assessment \in Reports

(* What collector and review ask of a diagnosis holds from the start: a    *)
(* cause is never missing, a claim has links, a confirmed one asks nobody. *)
ResultSound ==
    result # None => /\ result.cause # "none"
                     /\ Claims(result) => result.chain # "none"
                     /\ result.status = "confirmed" => result.domain = None

(* The guidance is already in the assessment when it is published.         *)
AssessmentGuides == assessment # None /\ result.steps => assessment.steps

IInv == /\ TypeOK
        /\ StageSound
        /\ ResultSound
        /\ PromptFits
        /\ SoloClaimIsSpecific
        /\ AssessmentGuides
        /\ GuidanceReachesOperator

-----------------------------------------------------------------------------
(* The larger and the smaller of two numbers.                              *)

LEMMA MaxOfTwo ==
    ASSUME NEW a \in Int, NEW b \in Int
    PROVE  /\ Max({a, b}) \in {a, b}
           /\ Max({a, b}) >= a /\ Max({a, b}) >= b
<1>1. \E x \in {a, b} : \A y \in {a, b} : x >= y
  <2>1. CASE a >= b
    BY <2>1
  <2>2. CASE b >= a
    BY <2>2
  <2>3. QED
    BY <2>1, <2>2
<1>2. QED
  BY <1>1 DEF Max

LEMMA MinOfTwo ==
    ASSUME NEW a \in Int, NEW b \in Int
    PROVE  /\ Min({a, b}) \in {a, b}
           /\ Min({a, b}) <= a /\ Min({a, b}) <= b
<1>1. \E x \in {a, b} : \A y \in {a, b} : x <= y
  <2>1. CASE a <= b
    BY <2>1
  <2>2. CASE b <= a
    BY <2>2
  <2>3. QED
    BY <2>1, <2>2
<1>2. QED
  BY <1>1 DEF Min

-----------------------------------------------------------------------------
(* The context budget.                                                     *)

LEMMA BudgetIsInteger ==
    ASSUME NEW c \in Nat
    PROVE  Reserved(c) \in Int /\ Guard(c) \in Int
<1> DEFINE smaller == Min({2048, c \div 4})
<1>1. smaller \in {2048, c \div 4}
  <2>1. c \div 4 \in Int
    OBVIOUS
  <2>2. QED
    BY <2>1, MinOfTwo
<1>2. smaller \in Int
  BY <1>1
<1> HIDE DEF smaller
<1>3. Max({1024, smaller}) \in {1024, smaller}
  BY <1>2, MaxOfTwo
<1>4. Max({1024, smaller}) \in Int
  BY <1>2, <1>3
<1>5. NumPredict(c) \in Int
  BY <1>4 DEF NumPredict, smaller
<1>6. QED
  BY <1>5 DEF Reserved, Guard, SafetyMargin

LEMMA BodiesAreNatural ==
    ASSUME NEW c \in Nat
    PROVE  Bodies(c) \subseteq Nat
  BY BudgetIsInteger, CharsAssumption DEF Bodies

LEMMA InputIsInteger ==
    ASSUME NEW c \in Nat, NEW body \in Nat
    PROVE  InputChars(c, body) \in Int
  BY BudgetIsInteger, CharsAssumption DEF InputChars

(* What is under the guard fits the context, at 1.5 characters per token.  *)
LEMMA GuardFits ==
    ASSUME NEW c \in Nat, NEW n \in Int, n <= Guard(c)
    PROVE  2 * n + 3 * Reserved(c) <= 3 * c
<1>1. Reserved(c) \in Int
  BY BudgetIsInteger
<1>2. 2 * Guard(c) <= 3 * (c - Reserved(c))
  BY <1>1 DEF Guard
<1>3. QED
  BY <1>1, <1>2, BudgetIsInteger

(* Compaction keeps the head and the tail, and omits the rest.             *)
LEMMA SelectionKeepsEnds ==
    ASSUME NEW n \in Nat, NEW limit \in 5 .. 8, n > limit
    PROVE  /\ {1, n} \subseteq Selected(n, limit)
           /\ Cardinality(Selected(n, limit)) = limit
<1> DEFINE head == (limit + 1) \div 2
           last == n - (limit - head) + 1
<1>1. head \in Nat /\ head >= 3 /\ limit - head >= 2 /\ last \in Nat /\ last > head /\ last <= n
  OBVIOUS
<1>2. IsFiniteSet(1 .. head) /\ Cardinality(1 .. head) = head
  BY <1>1, FS_Interval
<1>3. IsFiniteSet(last .. n) /\ Cardinality(last .. n) = limit - head
  BY <1>1, FS_Interval
<1>4. (1 .. head) \cap (last .. n) = {}
  BY <1>1
<1>5. Cardinality((1 .. head) \cup (last .. n)) = limit
  <2>1. Cardinality((1 .. head) \cup (last .. n))
          = Cardinality(1 .. head) + Cardinality(last .. n)
            - Cardinality((1 .. head) \cap (last .. n))
    BY <1>2, <1>3, FS_Union
  <2>2. Cardinality((1 .. head) \cap (last .. n)) = 0
    BY <1>4, FS_EmptySet
  <2> HIDE DEF head, last
  <2>3. QED
    BY <1>1, <1>2, <1>3, <2>1, <2>2
<1>6. Selected(n, limit) = (1 .. head) \cup (last .. n)
  BY DEF Selected
<1>7. {1, n} \subseteq (1 .. head) \cup (last .. n)
  BY <1>1
<1>8. QED
  BY <1>5, <1>6, <1>7

LEMMA EndsFact ==
    ASSUME NEW p \in Prompts
    PROVE  /\ {1, p.items} \subseteq Sent(p)
           /\ Cardinality(Sent(p)) + Omitted(p) = p.items
<1>1. p.items \in Nat /\ p.items >= 1 /\ p.level \in 0 .. 5
  <2>1. p.items \in ItemCounts /\ p.level \in 0 .. Minimal
    BY DEF Prompts
  <2>2. p.items \in Nat \ {0}
    BY <2>1, ContextsAssumption
  <2>3. p.items \in Nat /\ p.items >= 1
    BY <2>2
  <2>4. QED
    BY <2>1, <2>3 DEF Minimal
<1>2. CASE p.level = 0 \/ p.items <= Limit(p.level)
  <2>1. Sent(p) = 1 .. p.items /\ Omitted(p) = 0
    BY <1>2 DEF Sent, Omitted
  <2>2. Cardinality(1 .. p.items) = p.items
    BY <1>1, FS_Interval
  <2>3. QED
    BY <1>1, <2>1, <2>2
<1>3. CASE ~ (p.level = 0 \/ p.items <= Limit(p.level))
  <2>1. Limit(p.level) \in 5 .. 8
    BY <1>1, <1>3 DEF Limit
  <2>2. p.items > Limit(p.level)
    BY <1>1, <1>3, <2>1
  <2>3. Sent(p) = Selected(p.items, Limit(p.level)) /\ Omitted(p) = p.items - Limit(p.level)
    BY <1>3 DEF Sent, Omitted
  <2>4. QED
    BY <1>1, <2>1, <2>2, <2>3, SelectionKeepsEnds
<1>4. QED
  BY <1>2, <1>3

-----------------------------------------------------------------------------
(* The output contract and the merge.                                      *)

LEMMA ConfidenceCapped ==
    ASSUME NEW n \in 0 .. 100
    PROVE  Min({n, Ceiling}) \in 0 .. 100
<1>1. n \in Int /\ Ceiling \in Int /\ Ceiling \in 0 .. 100
  BY DEF Ceiling
<1>2. Min({n, Ceiling}) \in {n, Ceiling}
  BY <1>1, MinOfTwo
<1>3. QED
  BY <1>1, <1>2

(* A diagnosis of one author as the contract leaves it.                    *)
SoundFor(d, author) ==
    /\ d \in Diagnoses
    /\ d.cause \in {author, "unconfirmed"} /\ d.chain \in {author, "none"}
    /\ Claims(d) => d.cause = author /\ d.chain = author
    /\ d.status = "confirmed" => d.domain = None
    /\ d.consultation = "none"

LEMMA OutputsAreDiagnoses ==
    ASSUME NEW author \in Authors, NEW o \in Outputs(author)
    PROVE  /\ o \in Diagnoses
           /\ o.cause \in {author, "unconfirmed"} /\ o.chain \in {author, "none"}
           /\ o.consultation = "none"
<1>1. o.confidence \in 0 .. 100
  BY ClaimsAssumption DEF Outputs
<1>2. QED
  BY <1>1 DEF Outputs, Diagnoses, Causes, Chains, Authors

LEMMA DemotedFacts ==
    ASSUME NEW author \in Authors, NEW o \in Outputs(author)
    PROVE  /\ Demoted(o) \in Diagnoses
           /\ Demoted(o).cause \in {author, "unconfirmed"}
           /\ Demoted(o).chain \in {author, "none"}
           /\ Claims(Demoted(o)) => Demoted(o).cause = author /\ Demoted(o).chain = author
           /\ Demoted(o).consultation = "none"
<1>1. /\ o \in Diagnoses
      /\ o.cause \in {author, "unconfirmed"} /\ o.chain \in {author, "none"}
      /\ o.consultation = "none"
  BY OutputsAreDiagnoses
<1>2. Min({o.confidence, Ceiling}) \in 0 .. 100
  BY <1>1, ConfidenceCapped DEF Diagnoses
<1>3. CASE Claims(o) /\ (o.cause = "unconfirmed" \/ o.chain = "none")
  <2> DEFINE least == Min({o.confidence, Ceiling})
  <2>1. Demoted(o) = [o EXCEPT !.status = "inconclusive", !.confidence = least]
    BY <1>3 DEF Demoted
  <2> HIDE DEF least
  <2>2. least \in 0 .. 100
    BY <1>2 DEF least
  <2>3. QED
    BY <1>1, <2>1, <2>2 DEF Diagnoses, Statuses, Claims
<1>4. CASE ~ (Claims(o) /\ (o.cause = "unconfirmed" \/ o.chain = "none"))
  <2>1. Demoted(o) = o
    BY <1>4 DEF Demoted
  <2>2. QED
    BY <1>1, <1>4, <2>1
<1>5. QED
  BY <1>3, <1>4

(* Whatever a model claims, what is left names its own cause and chain.    *)
LEMMA ClosedFacts ==
    ASSUME NEW author \in Authors, NEW o \in Outputs(author)
    PROVE  SoundFor(Closed(o), author)
<1> DEFINE d == Demoted(o)
<1>1. /\ d \in Diagnoses
      /\ d.cause \in {author, "unconfirmed"} /\ d.chain \in {author, "none"}
      /\ Claims(d) => d.cause = author /\ d.chain = author
      /\ d.consultation = "none"
  BY DemotedFacts
<1>2. Closed(o) = OwnRequestDropped(Weakened(d))
  BY DEF Closed
<1> HIDE DEF d
<1>3. SoundFor(Weakened(d), author)
  BY <1>1 DEF Weakened, SoundFor, Diagnoses, Statuses, Claims
<1>4. SoundFor(OwnRequestDropped(Weakened(d)), author)
  BY <1>3 DEF OwnRequestDropped, SoundFor, Diagnoses, Claims
<1>5. QED
  BY <1>2, <1>4

(* The merge keeps what collector and review ask, and weakens nothing.     *)
MergeSound(m, d) ==
    /\ m \in Diagnoses
    /\ m.cause # "none" /\ (Claims(m) => m.chain # "none")
    /\ m.domain = None /\ m.consultation = "completed"
    /\ Rank(m) >= Rank(d) /\ m.confidence >= d.confidence
    /\ d.cause = "own" => m.cause = "own"
    /\ d.chain = "own" => m.chain = "own"
    /\ d.steps => m.steps

LEMMA MergedFacts ==
    ASSUME NEW d \in Diagnoses, d.cause # "none", Claims(d) => d.chain # "none",
           NEW p, SoundFor(p, "peer")
    PROVE  MergeSound(Merged(d, p), d)
<1> DEFINE greater == Max({d.confidence, p.confidence})
<1>1. /\ d.status \in Statuses /\ d.cause \in Causes /\ d.chain \in Chains
      /\ d.confidence \in 0 .. 100 /\ d.steps \in BOOLEAN
      /\ p.status \in Statuses /\ p.cause \in {"peer", "unconfirmed"}
      /\ p.chain \in {"peer", "none"} /\ p.confidence \in 0 .. 100 /\ p.steps \in BOOLEAN
  BY DEF Diagnoses, SoundFor
<1>2. greater \in 0 .. 100 /\ greater >= d.confidence
  <2>1. d.confidence \in Int /\ p.confidence \in Int
    BY <1>1
  <2>2. greater \in {d.confidence, p.confidence} /\ greater >= d.confidence
    BY <2>1, MaxOfTwo
  <2>3. QED
    BY <1>1, <2>2
<1>3. Merged(d, p) = [d EXCEPT !.status = IF Rank(d) >= Rank(p) THEN d.status ELSE p.status,
                               !.cause = FirstOf(d.cause, p.cause),
                               !.chain = FirstOf(d.chain, p.chain),
                               !.confidence = greater, !.steps = d.steps \/ p.steps,
                               !.domain = None, !.consultation = "completed"]
  BY DEF Merged
<1> HIDE DEF greater
<1> DEFINE m == Merged(d, p)
<1>4. /\ m.status = IF Rank(d) >= Rank(p) THEN d.status ELSE p.status
      /\ m.cause = FirstOf(d.cause, p.cause) /\ m.chain = FirstOf(d.chain, p.chain)
      /\ m.confidence = greater /\ m.steps = (d.steps \/ p.steps)
      /\ m.domain = None /\ m.consultation = "completed"
  BY <1>3 DEF Diagnoses
<1>5. FirstOf(d.cause, p.cause) \in Causes /\ FirstOf(d.chain, p.chain) \in Chains
  BY <1>1 DEF FirstOf, Causes, Chains, Authors
<1>6. m \in Diagnoses
  BY <1>1, <1>2, <1>3, <1>5 DEF Diagnoses
<1>7. Rank(m) >= Rank(d) /\ (Claims(m) => Claims(d) \/ Claims(p))
  BY <1>1, <1>4 DEF Rank, Statuses, Claims
<1>8. m.cause # "none" /\ (d.cause = "own" => m.cause = "own")
  BY <1>4 DEF FirstOf
<1>9. (Claims(m) => m.chain # "none") /\ (d.chain = "own" => m.chain = "own")
  BY <1>4, <1>7 DEF FirstOf, SoundFor
<1>10. QED
  BY <1>2, <1>4, <1>6, <1>7, <1>8, <1>9 DEF MergeSound

-----------------------------------------------------------------------------
(* The invariant.                                                          *)

LEMMA InitIInv == Init => IInv
<1> SUFFICES ASSUME Init PROVE IInv
  OBVIOUS
<1>1. prompt \in Prompts
  <2>1. 1 \in 1 .. Attempts /\ 0 \in 0 .. Minimal /\ FALSE \in BOOLEAN /\ 0 \in Nat
    BY DEF Attempts, Minimal
  <2>2. prompt \in [context : Contexts, items : ItemCounts, attempt : {1}, level : {0},
                    forced : {FALSE}, body : {0}]
    BY DEF Init
  <2>3. QED
    BY <2>1, <2>2 DEF Prompts
<1>2. TypeOK
  BY <1>1, NoneAssumption DEF Init, TypeOK, Stages, Attempts
<1>3. QED
  BY <1>2 DEF Init, IInv, StageSound, ResultSound, PromptFits, SoloClaimIsSpecific,
              AssessmentGuides, GuidanceReachesOperator

(* The steps of the finalizer: nothing is there yet but the prompt.        *)
LEMMA PromptStep ==
    ASSUME IInv, stage \in {"prompt", "ask"}, stage' \in {"prompt", "ask", "failed"},
           UNCHANGED <<result, consulted, tries, assessment, published>>,
           prompt' \in Prompts \cup {None},
           prompt' # None <=> stage' \in {"prompt", "ask"},
           PromptFits'
    PROVE  IInv'
<1>1. TypeOK'
  BY DEF IInv, TypeOK, Stages
<1>2. StageSound'
  BY DEF IInv, StageSound
<1>3. ResultSound' /\ SoloClaimIsSpecific' /\ AssessmentGuides' /\ GuidanceReachesOperator'
  BY DEF IInv, ResultSound, SoloClaimIsSpecific, AssessmentGuides, GuidanceReachesOperator, Claims
<1>4. QED
  BY <1>1, <1>2, <1>3 DEF IInv

LEMMA AttemptFailsStep ==
    ASSUME IInv, stage \in {"prompt", "ask"}, AttemptFails,
           UNCHANGED <<result, consulted, tries, assessment, published>>
    PROVE  IInv'
<1>1. prompt \in Prompts
  BY DEF IInv, TypeOK
<1>2. CASE prompt.attempt < Attempts
  <2>1. stage' = "prompt" /\ prompt' = [prompt EXCEPT !.attempt = prompt.attempt + 1,
                                        !.level = 0, !.forced = FALSE, !.body = 0]
    BY <1>2 DEF AttemptFails
  <2>2. prompt.attempt + 1 \in 1 .. Attempts
    BY <1>1, <1>2 DEF Prompts, Attempts
  <2>3. 0 \in 0 .. Minimal /\ FALSE \in BOOLEAN /\ 0 \in Nat
    BY DEF Minimal
  <2>4. prompt' \in Prompts
    BY <1>1, <2>1, <2>2, <2>3 DEF Prompts
  <2>5. prompt' # None /\ PromptFits'
    BY <2>1, <2>4, NoneAssumption DEF PromptFits
  <2>6. QED
    BY <2>1, <2>4, <2>5, PromptStep
<1>3. CASE ~ (prompt.attempt < Attempts)
  <2>1. prompt' = None /\ stage' = "failed"
    BY <1>3 DEF AttemptFails
  <2>2. PromptFits'
    BY <2>1 DEF PromptFits
  <2>3. QED
    BY <2>1, <2>2, PromptStep
<1>4. QED
  BY <1>2, <1>3

LEMMA CompactStep ==
    ASSUME IInv, NEW body \in Bodies(prompt.context), Compact(body)
    PROVE  IInv'
<1>1. stage = "prompt" /\ UNCHANGED <<result, consulted, tries, assessment, published>>
  BY DEF Compact
<1>2. prompt \in Prompts /\ prompt.context \in Nat
  <2>1. prompt \in Prompts
    BY <1>1 DEF IInv, TypeOK
  <2>2. prompt.context \in Contexts
    BY <2>1 DEF Prompts
  <2>3. QED
    BY <2>1, <2>2, ContextsAssumption
<1>3. body \in Nat
  BY <1>2, BodiesAreNatural
<1>4. CASE stage' = "ask" /\ prompt' = [prompt EXCEPT !.body = body]
           /\ Measured(prompt.context, body) <= Guard(prompt.context)
  <2>1. prompt' \in Prompts /\ prompt'.body = body /\ prompt'.context = prompt.context
    BY <1>2, <1>3, <1>4 DEF Prompts
  <2>2. InputChars(prompt.context, body) <= Guard(prompt.context)
    BY <1>4 DEF Measured
  <2>3. InputChars(prompt.context, body) \in Int
    BY <1>2, <1>3, InputIsInteger
  <2>4. 2 * InputChars(prompt.context, body) + 3 * Reserved(prompt.context) <= 3 * prompt.context
    BY <1>2, <2>2, <2>3, GuardFits
  <2>5. PromptFits'
    BY <2>1, <2>4 DEF PromptFits
  <2>6. QED
    BY <1>1, <1>4, <2>1, <2>5, NoneAssumption, PromptStep
<1>5. CASE stage' = "prompt" /\ prompt.level < Minimal
           /\ prompt' = [prompt EXCEPT !.level = prompt.level + 1]
  <2>1. prompt' \in Prompts
    BY <1>2, <1>5 DEF Prompts, Minimal
  <2>2. PromptFits'
    BY <1>5 DEF PromptFits
  <2>3. QED
    BY <1>1, <1>5, <2>1, <2>2, NoneAssumption, PromptStep
<1>6. CASE AttemptFails
  BY <1>1, <1>6, AttemptFailsStep
<1>7. QED
  BY <1>1, <1>4, <1>5, <1>6 DEF Compact

LEMMA CutOffStep ==
    ASSUME IInv, AnswerCutOff
    PROVE  IInv'
<1>1. stage = "ask" /\ UNCHANGED <<result, consulted, tries, assessment, published>>
  BY DEF AnswerCutOff
<1>2. prompt \in Prompts
  BY <1>1 DEF IInv, TypeOK
<1>3. CASE prompt.level = Minimal
  <2>1. prompt' = [prompt EXCEPT !.forced = TRUE] /\ stage' = "ask"
    BY <1>1, <1>3 DEF AnswerCutOff
  <2>2. prompt' \in Prompts /\ prompt'.body = prompt.body /\ prompt'.context = prompt.context
    BY <1>2, <2>1 DEF Prompts
  <2>3. PromptFits'
    BY <1>1, <2>2 DEF IInv, PromptFits
  <2>4. QED
    BY <1>1, <2>1, <2>2, <2>3, NoneAssumption, PromptStep
<1>4. CASE prompt.level # Minimal
  <2>1. stage' = "prompt"
        /\ prompt' = [prompt EXCEPT !.forced = TRUE, !.level = Minimal, !.body = 0]
    BY <1>4 DEF AnswerCutOff
  <2>2. Minimal \in 0 .. Minimal /\ TRUE \in BOOLEAN /\ 0 \in Nat
    BY DEF Minimal
  <2>3. prompt' \in Prompts
    BY <1>2, <2>1, <2>2 DEF Prompts
  <2>4. PromptFits'
    BY <2>1 DEF PromptFits
  <2>5. QED
    BY <1>1, <2>1, <2>3, <2>4, NoneAssumption, PromptStep
<1>5. QED
  BY <1>3, <1>4

(* The steps that write the result: nothing is published yet.              *)
LEMMA ResultStep ==
    ASSUME IInv, stage \in {"ask", "consult"}, stage' \in {"consult", "collect"},
           UNCHANGED <<tries, assessment, published>>, prompt' = None, consulted' \in BOOLEAN,
           result' \in Diagnoses,
           result'.cause # "none",
           Claims(result') => result'.chain # "none",
           result'.status = "confirmed" => result'.domain = None,
           Claims(result') /\ result'.consultation # "completed" =>
             result'.cause = "own" /\ result'.chain = "own",
           stage' = "consult" => result'.consultation = "none"
    PROVE  IInv'
<1>1. TypeOK'
  BY DEF IInv, TypeOK, Stages
<1>2. assessment = None /\ published = None
  BY DEF IInv, StageSound
<1>3. StageSound' /\ AssessmentGuides' /\ GuidanceReachesOperator'
  BY <1>2 DEF StageSound, AssessmentGuides, GuidanceReachesOperator
<1>4. ResultSound' /\ SoloClaimIsSpecific' /\ PromptFits'
  BY DEF ResultSound, SoloClaimIsSpecific, PromptFits, Claims
<1>5. QED
  BY <1>1, <1>3, <1>4 DEF IInv

LEMMA FinalizerEnds ==
    ASSUME IInv, HardStop \/ \E output \in Outputs("own") : AnswerAccepted(output)
    PROVE  IInv'
<1>1. consulted \in BOOLEAN
  BY DEF IInv, TypeOK
<1>2. CASE HardStop
  <2>1. HardStopOutput \in Diagnoses
    BY DEF HardStopOutput, Diagnoses, Statuses, Causes, Chains, Authors
  <2>2. /\ HardStopOutput.cause = "unconfirmed" /\ ~ Claims(HardStopOutput)
        /\ HardStopOutput.status # "confirmed" /\ HardStopOutput.consultation = "none"
    BY DEF HardStopOutput, Claims
  <2>3. QED
    BY <1>1, <1>2, <2>1, <2>2, ResultStep DEF HardStop
<1>3. ASSUME NEW output \in Outputs("own"), AnswerAccepted(output)
      PROVE  IInv'
  <2>1. SoundFor(Closed(output), "own")
    BY ClosedFacts DEF Authors
  <2>2. result' = Closed(output) /\ prompt' = None /\ stage = "ask" /\ stage' = "consult"
        /\ UNCHANGED <<consulted, tries, assessment, published>>
    BY <1>3 DEF AnswerAccepted
  <2> HIDE DEF Closed
  <2>3. QED
    BY <1>1, <2>1, <2>2, ResultStep DEF SoundFor, Claims
<1>4. QED
  BY <1>2, <1>3

LEMMA ConsultationStep ==
    ASSUME IInv, \/ NoConsultation
                 \/ \E status \in {"skipped", "unavailable"} : ConsultationEnds(status)
                 \/ \E output \in Outputs("peer") : PeerAnswers(output)
    PROVE  IInv'
<1>1. stage = "consult" /\ stage' = "collect" /\ UNCHANGED <<prompt, tries, assessment, published>>
  BY DEF NoConsultation, ConsultationEnds, PeerAnswers, Asks
<1>2. prompt' = None /\ consulted \in BOOLEAN
  BY <1>1 DEF IInv, TypeOK
<1>3. result \in Diagnoses /\ result # None
  BY <1>1, NoneAssumption DEF IInv, StageSound
<1>4. /\ result.cause # "none" /\ (Claims(result) => result.chain # "none")
      /\ result.status = "confirmed" => result.domain = None
      /\ Claims(result) /\ result.consultation # "completed" =>
           result.cause = "own" /\ result.chain = "own"
  BY <1>3 DEF IInv, ResultSound, SoloClaimIsSpecific
<1>5. CASE NoConsultation
  BY <1>1, <1>2, <1>3, <1>4, <1>5, ResultStep DEF NoConsultation
<1>6. ASSUME NEW status \in {"skipped", "unavailable"}, ConsultationEnds(status)
      PROVE  IInv'
  <2>1. result' = [result EXCEPT !.domain = None, !.consultation = status]
        /\ consulted' = TRUE
    BY <1>6 DEF ConsultationEnds
  <2>2. result.consultation # "completed"
    BY <1>1 DEF IInv, StageSound
  <2>3. /\ result' \in Diagnoses /\ result'.cause = result.cause /\ result'.chain = result.chain
        /\ result'.status = result.status /\ result'.domain = None
    BY <1>3, <2>1 DEF Diagnoses
  <2>4. Claims(result') <=> Claims(result)
    BY <2>3 DEF Claims
  <2>5. QED
    BY <1>1, <1>2, <1>4, <2>1, <2>2, <2>3, <2>4, ResultStep
<1>7. ASSUME NEW output \in Outputs("peer"), PeerAnswers(output)
      PROVE  IInv'
  <2>1. SoundFor(Closed(output), "peer")
    BY ClosedFacts DEF Authors
  <2> DEFINE merged == Merged(result, Closed(output))
  <2>2. result' = merged /\ consulted' = TRUE
    BY <1>7 DEF PeerAnswers
  <2>3. MergeSound(merged, result)
    BY <1>3, <1>4, <2>1, MergedFacts
  <2> HIDE DEF merged
  <2>4. QED
    BY <1>1, <1>2, <2>2, <2>3, ResultStep DEF MergeSound
<1>8. QED
  BY <1>5, <1>6, <1>7

(* What remains is what the backend does with a result it does not change. *)
LEMMA ReportStep ==
    ASSUME IInv, stage \in {"collect", "review", "persist", "recorded", "fallback", "preserved"},
           UNCHANGED <<prompt, result, consulted>>,
           stage' \in Stages \ {"prompt", "ask", "failed", "consult", "collect", "rejected"},
           tries' \in 0 .. Attempts - 1,
           stage' = "review" => UNCHANGED <<assessment, published>>
                                /\ stage \in {"collect", "review"},
           assessment' \in Reports \cup {None},
           stage' = "persist" => assessment' \in Reports,
           assessment' # None /\ result.steps => assessment'.steps,
           published' \in Reports \cup {None},
           published' # None /\ result.steps => published'.steps
    PROVE  IInv'
<1>1. TypeOK'
  BY DEF IInv, TypeOK, Stages
<1>2. StageSound'
  BY DEF IInv, StageSound, Stages
<1>3. ResultSound' /\ SoloClaimIsSpecific' /\ PromptFits'
  BY DEF IInv, ResultSound, SoloClaimIsSpecific, PromptFits, Claims
<1>4. AssessmentGuides' /\ GuidanceReachesOperator'
  BY DEF AssessmentGuides, GuidanceReachesOperator
<1>5. QED
  BY <1>1, <1>2, <1>3, <1>4 DEF IInv

LEMMA ReviewSteps ==
    ASSUME IInv, \/ Collect \/ ReviewRejected \/ ReviewFails
                 \/ \E steps \in BOOLEAN, confidence \in Confidences :
                       ReviewAccepted(steps, confidence)
    PROVE  IInv'
<1>1. stage \in {"collect", "review"} /\ UNCHANGED <<prompt, result, consulted>>
  BY DEF Collect, ReviewRejected, ReviewFails, ReviewAccepted
<1>2. result \in Diagnoses /\ assessment = None /\ published = None /\ tries \in 0 .. Attempts - 1
  BY <1>1 DEF IInv, StageSound, TypeOK
<1>3. CASE Collect
  <2>1. Accepted(result)
    BY <1>2, NoneAssumption DEF Accepted, IInv, ResultSound
  <2>2. stage = "collect" /\ stage' = "review" /\ UNCHANGED <<tries, assessment, published>>
    BY <1>3, <2>1 DEF Collect
  <2>3. QED
    BY <1>1, <1>2, <2>2, ReportStep DEF Stages
<1>4. CASE ReviewFails
  BY <1>1, <1>2, <1>4, ReportStep DEF ReviewFails, Stages
<1>5. ASSUME NEW steps \in BOOLEAN, NEW confidence \in Confidences,
             ReviewAccepted(steps, confidence)
      PROVE  IInv'
  <2> DEFINE a == [cause |-> "reviewed", confidence |-> confidence, steps |-> steps]
             b == Guided(a, result)
  <2>1. assessment' = b /\ stage' = "persist" /\ UNCHANGED <<tries, published>>
    BY <1>5 DEF ReviewAccepted
  <2>2. a \in Reports
    BY ClaimsAssumption DEF Reports
  <2>3. b \in Reports /\ (result.steps => b.steps)
    BY <1>2, <2>2 DEF Guided, Reports, Diagnoses
  <2> HIDE DEF b
  <2>4. QED
    BY <1>1, <1>2, <2>1, <2>3, ReportStep DEF Stages
<1>6. CASE ReviewRejected /\ LastReview
  <2> DEFINE a == [cause |-> FallbackCause(result), confidence |-> result.confidence,
                   steps |-> FALSE]
             b == Guided(a, result)
  <2>1. assessment' = b /\ stage' = "persist" /\ UNCHANGED <<tries, published>>
    BY <1>6 DEF ReviewRejected
  <2>2. a \in Reports
    BY <1>2 DEF Reports, Diagnoses, FallbackCause, FirstOf, Causes
  <2>3. b \in Reports /\ (result.steps => b.steps)
    BY <1>2, <2>2 DEF Guided, Reports, Diagnoses
  <2> HIDE DEF b
  <2>4. QED
    BY <1>1, <1>2, <2>1, <2>3, ReportStep DEF Stages
<1>7. CASE ReviewRejected /\ ~ LastReview
  <2>1. tries' = tries + 1 /\ stage = "review" /\ UNCHANGED <<stage, assessment, published>>
    BY <1>7 DEF ReviewRejected
  <2>2. tries' \in 0 .. Attempts - 1
    BY <1>2, <1>7, <2>1 DEF LastReview, Attempts
  <2>3. QED
    BY <1>1, <1>2, <2>1, <2>2, ReportStep DEF Stages
<1>8. QED
  BY <1>3, <1>4, <1>5, <1>6, <1>7

LEMMA PersistSteps ==
    ASSUME IInv, PersistReview \/ RecordReview \/ PersistFallback \/ RecordFallback
    PROVE  IInv'
<1>1. /\ stage \in {"persist", "recorded", "fallback", "preserved"}
      /\ stage' \in {"recorded", "fallback", "preserved", "done", "raised"}
      /\ UNCHANGED <<prompt, result, consulted, tries, assessment>>
  BY DEF PersistReview, RecordReview, PersistFallback, RecordFallback
<1>2. /\ result \in Diagnoses /\ tries \in 0 .. Attempts - 1
      /\ assessment \in Reports \cup {None} /\ published \in Reports \cup {None}
      /\ assessment # None /\ result.steps => assessment.steps
      /\ published # None /\ result.steps => published.steps
  BY <1>1 DEF IInv, StageSound, TypeOK, AssessmentGuides, GuidanceReachesOperator
<1>3. published' \in Reports \cup {None} /\ (published' # None /\ result.steps => published'.steps)
  <2>1. CASE UNCHANGED published
    BY <1>2, <2>1
  <2>2. CASE PersistReview /\ published' = Report(assessment, result)
    <3>1. assessment \in Reports /\ assessment # None
      BY <2>2, NoneAssumption DEF PersistReview, IInv, StageSound
    <3>2. QED
      BY <1>2, <2>2, <3>1 DEF Report, Reports, Diagnoses
  <2>3. CASE PersistFallback
             /\ published' = [cause |-> FallbackCause(result), confidence |-> result.confidence,
                              steps |-> result.steps]
    BY <1>2, <2>3 DEF Reports, Diagnoses, FallbackCause, FirstOf, Causes
  <2>4. QED
    BY <2>1, <2>2, <2>3 DEF PersistReview, RecordReview, PersistFallback, RecordFallback
<1>4. QED
  BY <1>1, <1>2, <1>3, ReportStep DEF Stages

LEMMA StepKeeps == IInv /\ [Next]_vars => IInv'
<1> SUFFICES ASSUME IInv, [Next]_vars PROVE IInv'
  OBVIOUS
<1>1. CASE BudgetError
  BY <1>1, AttemptFailsStep DEF BudgetError
<1>2. CASE AnswerRejected
  BY <1>2, AttemptFailsStep DEF AnswerRejected
<1>3. CASE AnswerCutOff
  BY <1>3, CutOffStep
<1>4. CASE HardStop \/ \E output \in Outputs("own") : AnswerAccepted(output)
  BY <1>4, FinalizerEnds
<1>5. CASE \E body \in Bodies(prompt.context) : Compact(body)
  BY <1>5, CompactStep
<1>6. CASE \/ NoConsultation
           \/ \E status \in {"skipped", "unavailable"} : ConsultationEnds(status)
           \/ \E output \in Outputs("peer") : PeerAnswers(output)
  BY <1>6, ConsultationStep
<1>7. CASE \/ Collect \/ ReviewRejected \/ ReviewFails
           \/ \E steps \in BOOLEAN, confidence \in Confidences : ReviewAccepted(steps, confidence)
  BY <1>7, ReviewSteps
<1>8. CASE PersistReview \/ RecordReview \/ PersistFallback \/ RecordFallback
  BY <1>8, PersistSteps
<1>9. CASE UNCHANGED vars
  BY <1>9 DEF vars, IInv, TypeOK, StageSound, ResultSound, PromptFits, SoloClaimIsSpecific,
              AssessmentGuides, GuidanceReachesOperator, Claims
<1>10. QED
  BY <1>1, <1>2, <1>3, <1>4, <1>5, <1>6, <1>7, <1>8, <1>9 DEF Next

THEOREM Invariance == Spec => []IInv
  BY InitIInv, StepKeeps, PTL DEF Spec

-----------------------------------------------------------------------------
(* The diagnosis is well typed, the collector accepts every result that an *)
(* executor returns, solo or merged, and the review never meets one that   *)
(* it would blame (runtime.py 325, review.py).                             *)
THEOREM ContractsAlwaysHold == Spec => []ContractsHold
<1>1. IInv => ContractsHold
  <2> SUFFICES ASSUME IInv PROVE ContractsAgree
    BY DEF ContractsHold, IInv
  <2>1. stage = "review" => Supported(result)
    BY NoneAssumption DEF IInv, StageSound, ResultSound, Supported
  <2>2. stage # "rejected"
    BY DEF IInv, StageSound
  <2>3. QED
    BY <2>1, <2>2 DEF ContractsAgree
<1>2. QED
  BY <1>1, Invariance, PTL

(* However prompts are compacted and however often they are rendered anew, *)
(* for every context and every length of the schema message, what is sent  *)
(* fits with the answer and the margin; and for every number of            *)
(* observations it has the first and the last one and counts the others    *)
(* (evaluation_react.py 573).                                              *)
THEOREM PromptsAreSound == Spec => []PromptIsSound
<1>1. IInv => PromptIsSound
  <2> SUFFICES ASSUME IInv PROVE EndsAreSent
    BY DEF PromptIsSound, IInv
  <2>1. stage = "ask" => prompt \in Prompts
    BY DEF IInv, TypeOK
  <2>2. QED
    BY <2>1, EndsFact DEF EndsAreSent
<1>2. QED
  BY <1>1, Invariance, PTL

(* Whatever a model claims, a claim without a peer names a cause and has   *)
(* links of the specialist itself (react_contracts.py).                    *)
THEOREM SoloClaims == Spec => []SoloClaimIsSpecific
<1>1. IInv => SoloClaimIsSpecific
  BY DEF IInv
<1>2. QED
  BY <1>1, Invariance, PTL

(* Review, fallback and the second write of the incident document all keep *)
(* the steps that the specialist recommended (evidence_coordinator.py).    *)
THEOREM GuidanceIsKept == Spec => []GuidanceReachesOperator
<1>1. IInv => GuidanceReachesOperator
  BY DEF IInv
<1>2. QED
  BY <1>1, Invariance, PTL

(* The merge with a peer's answer loses no status, confidence, cause, link *)
(* or guidance of the specialist (specialist_react.py 1165).               *)
THEOREM PeersNeverWeaken == Spec => PeerNeverWeakens
<1> DEFINE Kept == /\ Rank(result') >= Rank(result) /\ result'.confidence >= result.confidence
                   /\ result.cause = "own" => result'.cause = "own"
                   /\ result.chain = "own" => result'.chain = "own"
                   /\ result.steps => result'.steps
<1>1. IInv /\ [Next]_vars => [Asks /\ stage' = "collect" => Kept]_vars
  <2> SUFFICES ASSUME IInv, Next, Asks, stage' = "collect" PROVE Kept
    OBVIOUS
  <2>1. result \in Diagnoses /\ result # None /\ stage = "consult"
    BY NoneAssumption DEF Asks, IInv, StageSound
  <2>2. \/ \E status \in {"skipped", "unavailable"} : ConsultationEnds(status)
        \/ \E output \in Outputs("peer") : PeerAnswers(output)
    BY <2>1 DEF Next, BudgetError, AnswerRejected, AnswerCutOff, HardStop, AnswerAccepted, Asks,
                NoConsultation, Collect, ReviewAccepted, ReviewRejected, ReviewFails,
                PersistReview, RecordReview, PersistFallback, RecordFallback
  <2>3. ASSUME NEW status \in {"skipped", "unavailable"}, ConsultationEnds(status)
        PROVE  Kept
    <3>1. result' = [result EXCEPT !.domain = None, !.consultation = status]
      BY <2>3 DEF ConsultationEnds
    <3>2. /\ result'.status = result.status /\ result'.confidence = result.confidence
          /\ result'.cause = result.cause /\ result'.chain = result.chain
          /\ result'.steps = result.steps
      BY <2>1, <3>1 DEF Diagnoses
    <3>3. Rank(result') = Rank(result) /\ Rank(result) \in Int
      BY <2>1, <3>2 DEF Rank, Diagnoses, Statuses
    <3>4. result.confidence \in Int
      BY <2>1 DEF Diagnoses
    <3>5. QED
      BY <3>2, <3>3, <3>4
  <2>4. ASSUME NEW output \in Outputs("peer"), PeerAnswers(output)
        PROVE  Kept
    <3>1. SoundFor(Closed(output), "peer")
      BY ClosedFacts DEF Authors
    <3> DEFINE merged == Merged(result, Closed(output))
    <3>2. result' = merged
      BY <2>4 DEF PeerAnswers
    <3>3. result.cause # "none" /\ (Claims(result) => result.chain # "none")
      BY <2>1 DEF IInv, ResultSound
    <3>4. MergeSound(merged, result)
      BY <2>1, <3>1, <3>3, MergedFacts
    <3> HIDE DEF merged
    <3>5. QED
      BY <3>2, <3>4 DEF MergeSound
  <2>5. QED
    BY <2>2, <2>3, <2>4
<1>2. QED
  BY <1>1, Invariance, PTL DEF Spec, PeerNeverWeakens
=============================================================================
