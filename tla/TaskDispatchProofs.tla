------------------------- MODULE TaskDispatchProofs -------------------------
(***************************************************************************)
(* Proofs about TaskDispatch for any number of tasks, specialists,         *)
(* attempts and faults.                                                    *)
(***************************************************************************)
EXTENDS TaskDispatch, FiniteSetTheorems, TLAPS

(* The messages between the coordinator and the specialist of a task.      *)
Signals        == {"request", "agree", "refuse", "result", "failure"}
On(kind, t, a) == Msg(kind, t, a) \in net
Over           == {"sent", "done"}

(* The specialist of t deliberates on its request of attempt a, and has    *)
(* agreed to it.                                                           *)
Handled(t, a) ==
    LET h == handling[Owner[t]] IN h # None /\ h.task = t /\ h.try = a
AgreedTo(t, a) == Handled(t, a) /\ handling[Owner[t]].agreed

(* The coordinator waits for the delivery of t, or has its answer.         *)
Held(t) == At(t, "ack") \/ At(t, "agreed") \/ At(t, "refused")

(* Driven, in these terms.                                                 *)
Awaited(t) ==
    \/ inbox[t] # None
    \/ \E a \in Tries :
         \/ job[t][a] \in Active \ {"sent"}
         \/ On("result", t, a) \/ On("failure", t, a)
         \/ Handled(t, a)

-----------------------------------------------------------------------------
(* What always holds.                                                      *)

(* The document of a task under delivery.                                  *)
LeadSound(t) ==
    /\ Held(t) => state[t] = "DISPATCHED"
    /\ state[t] \in {"PENDING", "RETRYING"} => attempt[t] < MaxAttempts
    /\ state[t] = "ABSENT" => attempt[t] = 0

(* No attempt is known anywhere before it is dispatched.                   *)
TriesSound(t) ==
    \A a \in Tries :
      /\ \A k \in Signals : On(k, t, a) => a <= attempt[t]
      /\ Handled(t, a) => a <= attempt[t]
      /\ job[t][a] # "none" => a <= attempt[t]

(* A specialist deliberates on its own tasks.                              *)
HandlingSound == \A s \in Specialists : handling[s] # None => Owner[handling[s].task] = s

(* A request is delivered once, and starts one behaviour at most.          *)
OnceSound(t) ==
    \A a \in Tries :
      /\ On("request", t, a) => ~ Handled(t, a) /\ job[t][a] = "none"
      /\ Handled(t, a) => job[t][a] = "none"

(* A task is in flight exactly while one of its behaviours is active.      *)
FlightSound(t) ==
    /\ \A a \in Tries : job[t][a] \in Active => t \in inflight
    /\ \A a, b \in Tries : job[t][a] \in Active /\ job[t][b] \in Active => a = b
    /\ t \in inflight => \E a \in Tries : job[t][a] \in Active

(* An investigation runs only while there is no result.                    *)
RunSound(t) == \A a \in Tries : job[t][a] = "run" => cache[t] = "none"

BaseSound(t) == /\ LeadSound(t) /\ TriesSound(t) /\ OnceSound(t) /\ FlightSound(t)
                /\ RunSound(t)

-----------------------------------------------------------------------------
(* What holds while nothing has failed.                                    *)

(* The task is RUNNING or will be, without another answer.                 *)
Promised(t) ==
    \/ state[t] = "RUNNING"
    \/ At(t, "agreed")
    \/ At(t, "ack") /\ \E a \in Tries : a = attempt[t] /\ On("agree", t, a)

(* Whatever is promised is driven.                                         *)
PromiseSound(t) == t \notin skipped /\ Promised(t) => Awaited(t)

(* While the coordinator waits for the answer to an attempt, its agreement *)
(* is on its way from the moment it was given, hence before any refusal of *)
(* it.                                                                     *)
AckSound(t) ==
    /\ state[t] = "DISPATCHED" => Held(t)
    /\ \A a \in Tries :
         /\ On("refuse", t, a) => job[t][a] # "none"
         /\ At(t, "ack") /\ a = attempt[t] =>
              /\ job[t][a] # "none" => On("agree", t, a)
              /\ AgreedTo(t, a) => On("agree", t, a)

(* A behaviour reports once, and a failure only without a result.          *)
ReportSound(t) ==
    \A a \in Tries :
      /\ On("result", t, a) \/ On("failure", t, a) => job[t][a] \in Over
      /\ ~ (On("result", t, a) /\ On("failure", t, a))
      /\ job[t][a] = "fail" => cache[t] = "none"

(* Nothing is left of an attempt.                                          *)
Closed(t, a) ==
    /\ job[t][a] \in Over
    /\ ~ Handled(t, a) /\ ~ On("request", t, a)
    /\ ~ On("result", t, a) /\ ~ On("failure", t, a)

InWork(t) == state[t] \in {"DISPATCHED", "RUNNING"}

(* With no agreement late, every attempt but the present one is closed, and *)
(* what is in the inbox is the outcome of that one.                        *)
TimelySound(t) ==
    /\ ~ At(t, "refused")
    /\ \A a \in Tries : a < attempt[t] \/ (a = attempt[t] /\ ~ InWork(t)) => Closed(t, a)
    /\ inbox[t] # None =>
         /\ InWork(t)
         /\ \A a \in Tries :
              /\ a = attempt[t] => job[t][a] \in Over
              /\ ~ On("result", t, a) /\ ~ On("failure", t, a)
    /\ inbox[t] = "failure" \/ (\E a \in Tries : On("failure", t, a)) => cache[t] = "none"

CalmSound(t) == /\ PromiseSound(t) /\ AckSound(t) /\ ReportSound(t)
                /\ t \notin late => TimelySound(t)

IInv ==
    /\ TypeOK /\ HandlingSound /\ \A t \in Tasks : BaseSound(t)
    /\ faults = 0 => reach = Specialists /\ \A t \in Tasks : CalmSound(t)

-----------------------------------------------------------------------------
(* Messages: what sending and taking one changes.                          *)

LEMMA MsgTyped ==
    ASSUME NEW k \in Kinds, NEW t \in Tasks, NEW a \in Tries
    PROVE  Msg(k, t, a) \in Messages
BY DEF Msg, Messages

LEMMA MsgInjective ==
    ASSUME NEW k, NEW t, NEW a, NEW l, NEW u, NEW b
    PROVE  Msg(k, t, a) = Msg(l, u, b) <=> k = l /\ t = u /\ a = b
<1>1. ASSUME Msg(k, t, a) = Msg(l, u, b) PROVE k = l /\ t = u /\ a = b
  <2>1. Msg(k, t, a).kind = k /\ Msg(k, t, a).task = t /\ Msg(k, t, a).try = a
    BY DEF Msg
  <2>2. Msg(l, u, b).kind = l /\ Msg(l, u, b).task = u /\ Msg(l, u, b).try = b
    BY DEF Msg
  <2>3. QED
    BY <1>1, <2>1, <2>2
<1>2. QED
  BY <1>1

LEMMA MsgShape ==
    ASSUME NEW m \in Messages, m.kind # "help"
    PROVE  /\ m.kind \in Kinds /\ m.task \in Tasks /\ m.try \in Tries
           /\ m = Msg(m.kind, m.task, m.try)
<1>1. m \in [kind : Kinds, task : Tasks, try : Tries]
  BY DEF Messages
<1>2. QED
  BY <1>1 DEF Msg

LEMMA HelpShape ==
    ASSUME NEW m \in Messages, m.kind = "help"
    PROVE  /\ m.task \in Tasks /\ m.try \in Tries /\ m.to \in Specialists
           /\ \A k \in Kinds : \A t, a : m # Msg(k, t, a)
<1>1. m \in [kind : {"help"}, task : Tasks, try : Tries, to : Specialists]
  BY DEF Messages, Kinds
<1>2. ASSUME NEW k \in Kinds, NEW t, NEW a PROVE m # Msg(k, t, a)
  <2>1. Msg(k, t, a).kind = k /\ k # "help"
    BY DEF Msg, Kinds
  <2>2. QED
    BY <2>1
<1>3. QED
  BY <1>1, <1>2

LEMMA Sending ==
    ASSUME TypeOK, NEW k \in Kinds, NEW t \in Tasks, NEW a \in Tries, Send({Msg(k, t, a)})
    PROVE  /\ net' \in SUBSET Messages
           /\ \A l \in Kinds, u \in Tasks, b \in Tries :
                On(l, u, b)' <=> On(l, u, b) \/ (l = k /\ u = t /\ b = a)
<1>1. net' \in SUBSET Messages
  BY MsgTyped DEF TypeOK, Send
<1>2. QED
  BY <1>1, MsgInjective DEF Send, On

LEMMA Taking ==
    ASSUME TypeOK, NEW m \in net, m.kind # "help", net' = net \ {m}
    PROVE  /\ m.kind \in Kinds /\ m.task \in Tasks /\ m.try \in Tries
           /\ On(m.kind, m.task, m.try)
           /\ net' \in SUBSET Messages
           /\ \A l \in Kinds, u \in Tasks, b \in Tries :
                On(l, u, b)' <=> On(l, u, b) /\ ~ (l = m.kind /\ u = m.task /\ b = m.try)
<1>1. /\ m.kind \in Kinds /\ m.task \in Tasks /\ m.try \in Tries
      /\ m = Msg(m.kind, m.task, m.try)
  BY MsgShape DEF TypeOK
<1>2. net' \in SUBSET Messages
  BY DEF TypeOK
<1>3. On(m.kind, m.task, m.try)
  BY <1>1 DEF On
<1>4. ASSUME NEW l \in Kinds, NEW u \in Tasks, NEW b \in Tries
      PROVE  On(l, u, b)' <=> On(l, u, b) /\ ~ (l = m.kind /\ u = m.task /\ b = m.try)
  <2>1. Msg(l, u, b) = m <=> l = m.kind /\ u = m.task /\ b = m.try
    BY <1>1, MsgInjective
  <2>2. On(l, u, b)' <=> Msg(l, u, b) \in net \ {m}
    BY DEF On
  <2>3. QED
    BY <2>1, <2>2 DEF On
<1>5. QED
  BY <1>1, <1>2, <1>3, <1>4

(* Requests and answers of peer help are no signals.                       *)
LEMMA SignalKinds == Signals \subseteq Kinds /\ "help" \notin Kinds
BY DEF Signals, Kinds

LEMMA HelpTaken ==
    ASSUME TypeOK, NEW m \in net, m.kind \notin Signals, net' = net \ {m}
    PROVE  /\ net' \in SUBSET Messages
           /\ \A l \in Signals, u \in Tasks, b \in Tries : On(l, u, b)' <=> On(l, u, b)
<1>1. m \in Messages /\ net' \in SUBSET Messages
  BY DEF TypeOK
<1>2. \A l \in Signals, u \in Tasks, b \in Tries : Msg(l, u, b) # m
  BY <1>1, MsgInjective, MsgShape, HelpShape, SignalKinds
<1>3. QED
  BY <1>1, <1>2 DEF On

LEMMA HelpSent ==
    ASSUME TypeOK, NEW m \in Messages, m.kind \notin Signals, Send({m})
    PROVE  /\ net' \in SUBSET Messages
           /\ \A l \in Signals, u \in Tasks, b \in Tries : On(l, u, b)' <=> On(l, u, b)
<1>1. net' \in SUBSET Messages
  BY DEF TypeOK, Send
<1>2. \A l \in Signals, u \in Tasks, b \in Tries : Msg(l, u, b) # m
  BY MsgInjective, MsgShape, HelpShape, SignalKinds
<1>3. QED
  BY <1>1, <1>2 DEF On, Send

(* A send that raises has sent some of the messages, and is a fault.       *)
LEMMA SendingRaises ==
    ASSUME TypeOK, NEW t \in Tasks, NEW a \in Tries, NEW ks \in SUBSET Kinds,
           SendRaises({Msg(k, t, a) : k \in ks})
    PROVE  /\ faults' = faults + 1 /\ faults' \in 0 .. MaxFaults
           /\ net' \in SUBSET Messages
           /\ \A l \in Kinds, u \in Tasks, b \in Tries :
                On(l, u, b)' => On(l, u, b) \/ (l \in ks /\ u = t /\ b = a)
           /\ \A l \in Kinds, u \in Tasks, b \in Tries : On(l, u, b) => On(l, u, b)'
<1> DEFINE ms == {Msg(k, t, a) : k \in ks}
<1>1. PICK out \in SUBSET ms : net' = net \cup out
  BY DEF SendRaises, Send
<1>2. ms \subseteq Messages
  BY MsgTyped
<1>3. \A l \in Kinds, u \in Tasks, b \in Tries : Msg(l, u, b) \in ms => l \in ks /\ u = t /\ b = a
  BY MsgInjective
<1>4. faults' = faults + 1 /\ faults' \in 0 .. MaxFaults
  BY BoundsAssumption DEF SendRaises, Fault, TypeOK
<1>5. net' \in SUBSET Messages
  BY <1>1, <1>2 DEF TypeOK
<1> HIDE DEF ms
<1>6. QED
  BY <1>1, <1>3, <1>4, <1>5 DEF On

-----------------------------------------------------------------------------
(* Turns of the coordinator.                                               *)

LEMMA NobodyHolds == ASSUME lead = None, NEW t \in Tasks, NEW st \in Stages PROVE ~ At(t, st)
BY NoneAssumption DEF At

LEMMA TurnTaken ==
    ASSUME NEW t \in Tasks, NEW st \in Stages, Turn(t, st)
    PROVE  /\ lead' # None /\ lead' \in [task : Tasks, at : Stages]
           /\ \A u \in Tasks, ss \in Stages : At(u, ss)' <=> u = t /\ ss = st
<1>1. lead' \in [task : Tasks, at : Stages]
  BY DEF Turn
<1>2. lead' # None
  BY <1>1, NoneAssumption
<1>3. ASSUME NEW u \in Tasks, NEW ss \in Stages PROVE At(u, ss)' <=> u = t /\ ss = st
  <2>1. At(u, ss)' <=> [task |-> t, at |-> st] = [task |-> u, at |-> ss]
    BY DEF At, Turn
  <2>2. [task |-> t, at |-> st].task = t /\ [task |-> t, at |-> st].at = st
    OBVIOUS
  <2>3. [task |-> u, at |-> ss].task = u /\ [task |-> u, at |-> ss].at = ss
    OBVIOUS
  <2>4. QED
    BY <2>1, <2>2, <2>3
<1>4. QED
  BY <1>1, <1>2, <1>3

LEMMA TurnHeld ==
    ASSUME NEW t \in Tasks, NEW st \in Stages, At(t, st)
    PROVE  \A u \in Tasks, ss \in Stages : At(u, ss) <=> u = t /\ ss = st
<1>1. ASSUME NEW u \in Tasks, NEW ss \in Stages PROVE At(u, ss) <=> u = t /\ ss = st
  <2>1. At(u, ss) <=> [task |-> t, at |-> st] = [task |-> u, at |-> ss]
    BY DEF At
  <2>2. [task |-> t, at |-> st].task = t /\ [task |-> t, at |-> st].at = st
    OBVIOUS
  <2>3. [task |-> u, at |-> ss].task = u /\ [task |-> u, at |-> ss].at = ss
    OBVIOUS
  <2>4. QED
    BY <2>1, <2>2, <2>3
<1>2. QED
  BY <1>1

-----------------------------------------------------------------------------
(* What a step may leave as it is for a task.                              *)

SameDoc(t)      == state'[t] = state[t] /\ attempt'[t] = attempt[t]
SameLead(t)     == \A st \in Stages : At(t, st)' <=> At(t, st)
SameInbox(t)    == inbox'[t] = inbox[t]
SameSignals(t)  == \A k \in Signals, a \in Tries : On(k, t, a)' <=> On(k, t, a)
SameHandling(t) == \A a \in Tries : /\ Handled(t, a)' <=> Handled(t, a)
                                    /\ AgreedTo(t, a)' <=> AgreedTo(t, a)
SameJobs(t)     == /\ job'[t] = job[t] /\ cache'[t] = cache[t]
                   /\ t \in inflight' <=> t \in inflight
SameMarks(t)    == /\ t \in late' <=> t \in late
                   /\ t \in skipped' <=> t \in skipped
SameView(t) == /\ SameDoc(t) /\ SameLead(t) /\ SameInbox(t) /\ SameSignals(t)
               /\ SameHandling(t) /\ SameJobs(t) /\ SameMarks(t)

(* All of an invariant's parts depend on these only.                       *)
LEMMA BaseView ==
    ASSUME NEW t \in Tasks, BaseSound(t), SameDoc(t), SameLead(t), SameSignals(t),
           SameHandling(t), SameJobs(t)
    PROVE  BaseSound(t)'
<1> USE DEF SameDoc, SameLead, SameSignals, SameHandling, SameJobs, Signals, Stages
<1>1. LeadSound(t)'
  BY DEF BaseSound, LeadSound, Held
<1>2. TriesSound(t)'
  BY DEF BaseSound, TriesSound
<1>3. OnceSound(t)'
  BY DEF BaseSound, OnceSound
<1>4. FlightSound(t)'
  BY DEF BaseSound, FlightSound
<1>5. RunSound(t)'
  BY DEF BaseSound, RunSound
<1>6. QED
  BY <1>1, <1>2, <1>3, <1>4, <1>5 DEF BaseSound

LEMMA CalmView ==
    ASSUME NEW t \in Tasks, CalmSound(t), SameView(t)
    PROVE  CalmSound(t)'
<1> USE DEF SameView, SameDoc, SameLead, SameSignals, SameHandling, SameJobs, SameMarks, SameInbox,
            Signals, Stages
<1>1. Awaited(t)' <=> Awaited(t)
  BY DEF Awaited
<1>2. Promised(t)' <=> Promised(t)
  BY DEF Promised
<1>3. PromiseSound(t)'
  BY <1>1, <1>2 DEF CalmSound, PromiseSound
<1>4. AckSound(t)'
  BY DEF CalmSound, AckSound, Held
<1>5. ReportSound(t)'
  BY DEF CalmSound, ReportSound
<1>6. ASSUME t \notin late PROVE TimelySound(t)'
  <2>1. \A a \in Tries : Closed(t, a)' <=> Closed(t, a)
    BY DEF Closed
  <2>2. TimelySound(t)
    BY <1>6 DEF CalmSound
  <2>3. InWork(t)' <=> InWork(t)
    BY DEF InWork
  <2>4. ~ At(t, "refused")'
    BY <2>2 DEF TimelySound
  <2>5. \A a \in Tries :
           a < attempt'[t] \/ (a = attempt'[t] /\ ~ InWork(t)') => Closed(t, a)'
    BY <2>1, <2>2, <2>3 DEF TimelySound
  <2>6. inbox'[t] # None =>
            /\ InWork(t)'
            /\ \A a \in Tries :
                 /\ a = attempt'[t] => job'[t][a] \in Over
                 /\ ~ On("result", t, a)' /\ ~ On("failure", t, a)'
    BY <2>2, <2>3 DEF TimelySound
  <2>7. inbox'[t] = "failure" \/ (\E a \in Tries : On("failure", t, a)') => cache'[t] = "none"
    BY <2>2 DEF TimelySound
  <2>8. QED
    BY <2>4, <2>5, <2>6, <2>7 DEF TimelySound
<1>7. QED
  BY <1>3, <1>4, <1>5, <1>6 DEF CalmSound

(* Put together: the acting task, and all others as they were.             *)
LEMMA OneMoves ==
    ASSUME IInv, TypeOK', HandlingSound', NEW t \in Tasks, BaseSound(t)',
           faults' = 0 => faults = 0 /\ (reach = Specialists => reach' = Specialists),
           faults' = 0 => CalmSound(t)',
           \A u \in Tasks \ {t} : SameView(u)
    PROVE  IInv'
<1>1. ASSUME NEW u \in Tasks PROVE BaseSound(u)'
  <2>1. CASE u = t
    BY <2>1
  <2>2. CASE u # t
    <3>1. BaseSound(u) /\ SameView(u)
      BY <2>2 DEF IInv
    <3>2. QED
      BY <3>1, BaseView DEF SameView
  <2>3. QED
    BY <2>1, <2>2
<1>2. ASSUME faults' = 0, NEW u \in Tasks PROVE CalmSound(u)'
  <2>1. CASE u = t
    BY <1>2, <2>1
  <2>2. CASE u # t
    <3>1. CalmSound(u) /\ SameView(u)
      BY <1>2, <2>2 DEF IInv
    <3>2. QED
      BY <3>1, CalmView
  <2>3. QED
    BY <2>1, <2>2
<1>3. faults' = 0 => reach' = Specialists
  BY DEF IInv
<1>4. QED
  BY <1>1, <1>2, <1>3 DEF IInv

(* Nothing that the invariant speaks about moves.                          *)
LEMMA NobodyMoves ==
    ASSUME IInv, TypeOK', HandlingSound',
           faults' = 0 => faults = 0 /\ (reach = Specialists => reach' = Specialists),
           \A u \in Tasks : SameView(u)
    PROVE  IInv'
<1>1. ASSUME NEW u \in Tasks PROVE BaseSound(u)'
  <2>1. BaseSound(u) /\ SameView(u)
    BY DEF IInv
  <2>2. QED
    BY <2>1, BaseView DEF SameView
<1>2. ASSUME faults' = 0, NEW u \in Tasks PROVE CalmSound(u)'
  <2>1. CalmSound(u) /\ SameView(u)
    BY <1>2 DEF IInv
  <2>2. QED
    BY <2>1, CalmView
<1>3. faults' = 0 => reach' = Specialists
  BY DEF IInv
<1>4. QED
  BY <1>1, <1>2, <1>3 DEF IInv

-----------------------------------------------------------------------------
(* Steps of the coordinator that send nothing.                             *)

FaultsKept == faults' = 0 => faults = 0

LEMMA FaultCounts == ASSUME TypeOK, Fault PROVE faults' \in 0 .. MaxFaults /\ faults' # 0
BY BoundsAssumption DEF TypeOK, Fault

LEMMA FaultsSame == ASSUME TypeOK, UNCHANGED faults PROVE faults' \in 0 .. MaxFaults /\ FaultsKept
BY DEF TypeOK, FaultsKept

LEMMA Quiet ==
    ASSUME UNCHANGED <<net, handling, agent>>, NEW t \in Tasks
    PROVE  SameSignals(t) /\ SameHandling(t) /\ SameJobs(t)
BY DEF agent, SameSignals, SameHandling, SameJobs, On, Handled, AgreedTo

LEMMA LeadMoves ==
    ASSUME IInv, NEW t \in Tasks, UNCHANGED <<attempt, net, handling, agent, reach, skipped>>,
           TypeOK', LeadSound(t)', FaultsKept, faults' = 0 => CalmSound(t)',
           \A u \in Tasks \ {t} : /\ state'[u] = state[u] /\ SameLead(u) /\ SameInbox(u)
                                  /\ u \in late' <=> u \in late
    PROVE  IInv'
<1>1. \A u \in Tasks : SameSignals(u) /\ SameHandling(u) /\ SameJobs(u)
  BY Quiet
<1>2. BaseSound(t)'
  <2>1. BaseSound(t)
    BY DEF IInv
  <2>2. TriesSound(t)' /\ OnceSound(t)'
    BY <1>1, <2>1 DEF BaseSound, TriesSound, OnceSound, SameSignals, SameHandling, SameJobs, Signals
  <2>3. FlightSound(t)' /\ RunSound(t)'
    BY <1>1, <2>1 DEF BaseSound, FlightSound, RunSound, SameJobs
  <2>4. QED
    BY <2>2, <2>3 DEF BaseSound
<1>3. HandlingSound'
  BY DEF IInv, HandlingSound
<1>4. \A u \in Tasks \ {t} : SameView(u)
  BY <1>1 DEF SameView, SameDoc, SameMarks
<1>5. QED
  BY <1>2, <1>3, <1>4, OneMoves DEF FaultsKept

(* Turns between t and nobody concern no other task.                       *)
LEMMA TurnsOf ==
    ASSUME NEW t \in Tasks, NEW st \in Stages, Turn(t, st),
           lead = None \/ \E ss \in Stages : At(t, ss)
    PROVE  \A u \in Tasks \ {t} : SameLead(u)
<1>1. \A u \in Tasks \ {t}, ss \in Stages : ~ At(u, ss)
  BY NobodyHolds, TurnHeld
<1>2. \A u \in Tasks \ {t}, ss \in Stages : ~ At(u, ss)'
  BY TurnTaken
<1>3. QED
  BY <1>1, <1>2 DEF SameLead

LEMMA TimelyKept ==
    ASSUME NEW t \in Tasks, TimelySound(t), attempt'[t] = attempt[t], SameSignals(t),
           SameHandling(t), SameJobs(t), SameInbox(t),
           InWork(t)' <=> InWork(t), ~ At(t, "refused")'
    PROVE  TimelySound(t)'
<1> USE DEF SameSignals, SameHandling, SameJobs, SameInbox, Signals
<1>1. \A a \in Tries : Closed(t, a)' <=> Closed(t, a)
  BY DEF Closed
<1>2. \A a \in Tries : a < attempt'[t] \/ (a = attempt'[t] /\ ~ InWork(t)') => Closed(t, a)'
  BY <1>1 DEF TimelySound
<1>3. inbox'[t] # None =>
          /\ InWork(t)'
          /\ \A a \in Tries :
               /\ a = attempt'[t] => job'[t][a] \in Over
               /\ ~ On("result", t, a)' /\ ~ On("failure", t, a)'
  BY DEF TimelySound
<1>4. inbox'[t] = "failure" \/ (\E a \in Tries : On("failure", t, a)') => cache'[t] = "none"
  BY DEF TimelySound
<1>5. QED
  BY <1>2, <1>3, <1>4 DEF TimelySound

(* When the coordinator is not at the delivery of a task and its promise   *)
(* is an old one, only its turn and its document have to be looked at.     *)
LEMMA CalmLead ==
    ASSUME NEW t \in Tasks, CalmSound(t), SameSignals(t), SameHandling(t), SameJobs(t),
           SameInbox(t), t \in skipped' <=> t \in skipped, ~ At(t, "ack")',
           Promised(t)' => Promised(t), state'[t] = "DISPATCHED" => Held(t)',
           t \notin late' => TimelySound(t)'
    PROVE  CalmSound(t)'
<1> USE DEF SameSignals, SameHandling, SameJobs, SameInbox, Signals
<1>1. Awaited(t)' <=> Awaited(t)
  BY DEF Awaited
<1>2. PromiseSound(t)'
  BY <1>1 DEF CalmSound, PromiseSound
<1>3. AckSound(t)'
  BY DEF CalmSound, AckSound
<1>4. ReportSound(t)'
  BY DEF CalmSound, ReportSound
<1>5. QED
  BY <1>2, <1>3, <1>4 DEF CalmSound

LEMMA OpenStep == ASSUME IInv, NEW t \in Tasks, Open(t) PROVE IInv'
<1> USE DEF Stages
<1>1. /\ lead = None /\ state[t] \notin Terminal /\ TypeOK /\ BaseSound(t)
      /\ UNCHANGED <<attempt, inbox, net, handling, agent, serving, reach, skipped, late, faults>>
      /\ state' = [state EXCEPT ![t] = IF state[t] = "ABSENT" THEN "PENDING" ELSE state[t]]
      /\ Turn(t, "poll")
  BY DEF Open, Move, IInv
<1>2. /\ lead' \in [task : Tasks, at : Stages]
      /\ \A ss \in Stages : At(t, ss)' <=> ss = "poll"
      /\ \A ss \in Stages : ~ At(t, ss)
      /\ \A u \in Tasks \ {t} : SameLead(u)
  BY <1>1, TurnTaken, TurnsOf, NobodyHolds
<1>3. /\ state'[t] = IF state[t] = "ABSENT" THEN "PENDING" ELSE state[t]
      /\ \A u \in Tasks \ {t} : state'[u] = state[u]
  BY <1>1 DEF TypeOK
<1>4. TypeOK'
  BY <1>1, <1>2 DEF TypeOK, Terminal, agent
<1>5. LeadSound(t)'
  BY <1>1, <1>2, <1>3, BoundsAssumption DEF BaseSound, LeadSound, Held
<1>6. ASSUME faults' = 0 PROVE CalmSound(t)'
  <2>1. CalmSound(t)
    BY <1>1, <1>6 DEF IInv
  <2>2. SameSignals(t) /\ SameHandling(t) /\ SameJobs(t) /\ SameInbox(t)
    BY <1>1, Quiet DEF SameInbox
  <2>3. state[t] # "DISPATCHED"
    BY <1>2, <2>1 DEF CalmSound, AckSound, Held
  <2>4. Promised(t)' => Promised(t)
    BY <1>1, <1>2, <1>3 DEF Promised
  <2>5. ASSUME t \notin late' PROVE TimelySound(t)'
    <3>1. TimelySound(t)
      BY <1>1, <2>1, <2>5 DEF CalmSound
    <3>2. InWork(t)' <=> InWork(t)
      BY <1>3 DEF InWork
    <3>3. QED
      BY <1>1, <1>2, <2>2, <3>1, <3>2, TimelyKept
  <2>6. QED
    BY <1>1, <1>2, <1>3, <2>1, <2>2, <2>3, <2>4, <2>5, CalmLead
<1>7. QED
  BY <1>1, <1>2, <1>3, <1>4, <1>5, <1>6, FaultsSame, LeadMoves DEF SameInbox

LEMMA AckTimeoutStep == ASSUME IInv, NEW t \in Tasks, AckTimeout(t) PROVE IInv'
<1> USE DEF Stages
<1>1. /\ At(t, "ack") /\ TypeOK /\ BaseSound(t)
      /\ UNCHANGED <<task, inbox, net, handling, agent, serving, reach, skipped, faults>>
      /\ late' = late \cup {t} /\ Turn(t, "refused")
  BY DEF AckTimeout, IInv
<1>2. /\ lead' \in [task : Tasks, at : Stages]
      /\ \A ss \in Stages : At(t, ss)' <=> ss = "refused"
      /\ \A u \in Tasks \ {t} : SameLead(u)
  BY <1>1, TurnTaken, TurnsOf
<1>3. state[t] = "DISPATCHED" /\ UNCHANGED <<state, attempt>>
  BY <1>1 DEF BaseSound, LeadSound, Held, task
<1>4. TypeOK'
  BY <1>1, <1>2 DEF TypeOK, agent, task
<1>5. LeadSound(t)'
  BY <1>1, <1>2, <1>3 DEF LeadSound
<1>6. ASSUME faults' = 0 PROVE CalmSound(t)'
  <2>1. CalmSound(t)
    BY <1>1, <1>6 DEF IInv
  <2>2. SameSignals(t) /\ SameHandling(t) /\ SameJobs(t) /\ SameInbox(t)
    BY <1>1, Quiet DEF SameInbox
  <2>3. ~ Promised(t)' /\ Held(t)' /\ ~ At(t, "ack")'
    BY <1>1, <1>2, <1>3 DEF Promised, Held
  <2>4. QED
    BY <1>1, <2>1, <2>2, <2>3, CalmLead
<1>7. QED
  BY <1>1, <1>2, <1>3, <1>4, <1>5, <1>6, FaultsSame, LeadMoves DEF SameInbox

LEMMA MarkRunningStep == ASSUME IInv, NEW t \in Tasks, MarkRunning(t) PROVE IInv'
<1> USE DEF Stages
<1>1. /\ At(t, "agreed") /\ TypeOK /\ BaseSound(t)
      /\ UNCHANGED <<attempt, inbox, net, handling, agent, serving, reach, skipped, late, faults>>
      /\ state' = [state EXCEPT ![t] = "RUNNING"] /\ Turn(t, "poll")
  BY DEF MarkRunning, Move, IInv
<1>2. /\ lead' \in [task : Tasks, at : Stages]
      /\ \A ss \in Stages : At(t, ss)' <=> ss = "poll"
      /\ \A u \in Tasks \ {t} : SameLead(u)
  BY <1>1, TurnTaken, TurnsOf
<1>3. /\ state[t] = "DISPATCHED" /\ state'[t] = "RUNNING"
      /\ \A u \in Tasks \ {t} : state'[u] = state[u]
  BY <1>1 DEF BaseSound, LeadSound, Held, TypeOK
<1>4. TypeOK'
  BY <1>1, <1>2 DEF TypeOK, agent
<1>5. LeadSound(t)'
  BY <1>1, <1>2, <1>3 DEF LeadSound, Held
<1>6. ASSUME faults' = 0 PROVE CalmSound(t)'
  <2>1. CalmSound(t)
    BY <1>1, <1>6 DEF IInv
  <2>2. SameSignals(t) /\ SameHandling(t) /\ SameJobs(t) /\ SameInbox(t)
    BY <1>1, Quiet DEF SameInbox
  <2>3. Promised(t)
    BY <1>1 DEF Promised
  <2>5. ASSUME t \notin late' PROVE TimelySound(t)'
    <3>1. TimelySound(t)
      BY <1>1, <2>1, <2>5 DEF CalmSound
    <3>2. InWork(t)' <=> InWork(t)
      BY <1>3 DEF InWork
    <3>3. QED
      BY <1>1, <1>2, <2>2, <3>1, <3>2, TimelyKept
  <2>6. QED
    BY <1>1, <1>2, <1>3, <2>1, <2>2, <2>3, <2>5, CalmLead
<1>7. QED
  BY <1>1, <1>2, <1>3, <1>4, <1>5, <1>6, FaultsSame, LeadMoves DEF SameInbox

(* A failed attempt: the task is retried or given up.                      *)
LEMMA AttemptFails ==
    ASSUME TypeOK, NEW t \in Tasks, FailAttempt(t), NEW ss \in Stages, At(t, ss)
    PROVE  /\ lead' \in [task : Tasks, at : Stages]
           /\ \A st \in Stages : At(t, st)' <=> st = "poll"
           /\ \A u \in Tasks \ {t} : SameLead(u) /\ state'[u] = state[u]
           /\ state' = [state EXCEPT ![t] = state'[t]] /\ UNCHANGED attempt
           /\ state'[t] = IF attempt[t] < MaxAttempts THEN "RETRYING" ELSE "FAILED"
           /\ LeadSound(t)'
<1>1. /\ Turn(t, "poll") /\ "poll" \in Stages
      /\ state' = [state EXCEPT ![t] = IF attempt[t] < MaxAttempts THEN "RETRYING" ELSE "FAILED"]
      /\ UNCHANGED attempt
  BY DEF FailAttempt, Move, Stages
<1>2. /\ lead' \in [task : Tasks, at : Stages]
      /\ \A st \in Stages : At(t, st)' <=> st = "poll"
      /\ \A u \in Tasks \ {t} : SameLead(u)
  BY <1>1, TurnTaken, TurnsOf
<1>3. /\ state'[t] = IF attempt[t] < MaxAttempts THEN "RETRYING" ELSE "FAILED"
      /\ \A u \in Tasks \ {t} : state'[u] = state[u]
      /\ state' = [state EXCEPT ![t] = state'[t]]
  BY <1>1 DEF TypeOK
<1>4. LeadSound(t)'
  BY <1>1, <1>2, <1>3 DEF LeadSound, Held, Stages
<1>5. QED
  BY <1>1, <1>2, <1>3, <1>4

LEMMA MarkUndeliveredStep == ASSUME IInv, NEW t \in Tasks, MarkUndelivered(t) PROVE IInv'
<1>1. /\ At(t, "refused") /\ "refused" \in Stages /\ TypeOK /\ FailAttempt(t)
      /\ UNCHANGED <<inbox, net, handling, agent, serving, reach, skipped, late, faults>>
  BY DEF MarkUndelivered, IInv, Stages
<1>2. /\ lead' \in [task : Tasks, at : Stages]
      /\ \A ss \in Stages : At(t, ss)' <=> ss = "poll"
      /\ \A u \in Tasks \ {t} : SameLead(u) /\ state'[u] = state[u]
      /\ state' = [state EXCEPT ![t] = state'[t]] /\ UNCHANGED attempt
      /\ state'[t] \in {"RETRYING", "FAILED"} /\ LeadSound(t)'
  BY <1>1, AttemptFails
<1>4. TypeOK'
  BY <1>1, <1>2 DEF TypeOK, agent, Terminal
<1>6. ASSUME faults' = 0 PROVE CalmSound(t)'
  <2>1. CalmSound(t)
    BY <1>1, <1>6 DEF IInv
  <2>2. SameSignals(t) /\ SameHandling(t) /\ SameJobs(t) /\ SameInbox(t)
    BY <1>1, Quiet DEF SameInbox
  <2>3. t \in late
    BY <1>1, <2>1 DEF CalmSound, TimelySound
  <2>4. ~ Promised(t)' /\ ~ At(t, "ack")'
    BY <1>2 DEF Promised, Stages
  <2>5. QED
    BY <1>1, <1>2, <2>1, <2>2, <2>3, <2>4, CalmLead
<1>7. QED
  BY <1>1, <1>2, <1>4, <1>6, FaultsSame, LeadMoves DEF SameInbox

LEMMA MarkUncertainStep == ASSUME IInv, NEW t \in Tasks, MarkUncertain(t) PROVE IInv'
<1>1. /\ At(t, "poll") /\ "poll" \in Stages /\ TypeOK /\ FailAttempt(t) /\ state[t] = "DISPATCHED"
      /\ UNCHANGED <<inbox, net, handling, agent, serving, reach, skipped, late, faults>>
  BY DEF MarkUncertain, IInv, Stages
<1>2. /\ lead' \in [task : Tasks, at : Stages]
      /\ \A u \in Tasks \ {t} : SameLead(u) /\ state'[u] = state[u]
      /\ state' = [state EXCEPT ![t] = state'[t]] /\ UNCHANGED attempt
      /\ state'[t] \in {"RETRYING", "FAILED"} /\ LeadSound(t)'
  BY <1>1, AttemptFails
<1>4. TypeOK'
  BY <1>1, <1>2 DEF TypeOK, agent, Terminal
<1>6. ASSUME faults' = 0 PROVE CalmSound(t)'
  <2>1. CalmSound(t)
    BY <1>1, <1>6 DEF IInv
  <2>2. Held(t)
    BY <1>1, <2>1 DEF CalmSound, AckSound
  <2>3. \A ss \in Stages : At(t, ss) <=> ss = "poll"
    BY <1>1, TurnHeld
  <2>4. QED
    BY <2>2, <2>3 DEF Held, Stages
<1>7. QED
  BY <1>1, <1>2, <1>4, <1>6, FaultsSame, LeadMoves DEF SameInbox

(* After the outcome of the only attempt that is not closed, this one is.  *)
LEMMA CollectStep == ASSUME IInv, NEW t \in Tasks, Collect(t) PROVE IInv'
<1>1. /\ At(t, "poll") /\ "poll" \in Stages /\ TypeOK /\ BaseSound(t)
      /\ state[t] = "RUNNING" /\ inbox[t] # None
      /\ inbox' = [inbox EXCEPT ![t] = None] /\ Outcome(t)
      /\ UNCHANGED <<net, handling, agent, serving, reach, skipped, late>>
  BY DEF Collect, Pop, IInv, Stages
<1>2. /\ lead' \in [task : Tasks, at : Stages]
      /\ \A ss \in Stages : At(t, ss)' <=> ss = "poll"
      /\ \A u \in Tasks \ {t} : SameLead(u) /\ state'[u] = state[u]
      /\ state' = [state EXCEPT ![t] = state'[t]] /\ UNCHANGED attempt
      /\ state'[t] \in {"RETRYING", "FAILED", "COMPLETED"} /\ LeadSound(t)'
  <2>1. CASE FailAttempt(t)
    BY <1>1, <2>1, AttemptFails
  <2>2. CASE Move(t, "COMPLETED") /\ Turn(t, "poll") /\ UNCHANGED attempt
    <3>1. /\ lead' \in [task : Tasks, at : Stages]
          /\ \A ss \in Stages : At(t, ss)' <=> ss = "poll"
          /\ \A u \in Tasks \ {t} : SameLead(u)
      BY <1>1, <2>2, TurnTaken, TurnsOf
    <3>2. state'[t] = "COMPLETED" /\ \A u \in Tasks \ {t} : state'[u] = state[u]
      BY <1>1, <2>2 DEF Move, TypeOK
    <3>3. LeadSound(t)'
      BY <3>1, <3>2 DEF LeadSound, Held, Stages
    <3>4. QED
      BY <1>1, <2>2, <3>1, <3>2, <3>3 DEF Move
  <2>3. QED
    BY <1>1, <2>1, <2>2 DEF Outcome
<1>3. faults' \in 0 .. MaxFaults /\ FaultsKept
  BY <1>1, FaultCounts, FaultsSame DEF Outcome, FaultsKept
<1>4. TypeOK'
  BY <1>1, <1>2, <1>3 DEF TypeOK, agent, Terminal
<1>5. \A u \in Tasks \ {t} : SameInbox(u)
  BY <1>1 DEF SameInbox, TypeOK
<1>6. ASSUME faults' = 0 PROVE CalmSound(t)'
  <2>1. CalmSound(t)
    BY <1>3, <1>6 DEF IInv, FaultsKept
  <2>2. SameSignals(t) /\ SameHandling(t) /\ SameJobs(t)
    BY <1>1, Quiet
  <2>3. inbox'[t] = None
    BY <1>1 DEF TypeOK
  <2>4. PromiseSound(t)' /\ AckSound(t)'
    <3>1. ~ Promised(t)'
      BY <1>2 DEF Promised, Stages
    <3>2. AckSound(t)'
      BY <1>2, <2>1, <2>2 DEF CalmSound, AckSound, SameSignals, SameJobs, Signals, Stages
    <3>3. QED
      BY <3>1, <3>2 DEF PromiseSound
  <2>5. ReportSound(t)'
    BY <2>1, <2>2 DEF CalmSound, ReportSound, SameSignals, SameJobs, Signals
  <2>6. ASSUME t \notin late' PROVE TimelySound(t)'
    <3>1. TimelySound(t) /\ OnceSound(t)
      BY <1>1, <2>1, <2>6 DEF CalmSound, BaseSound
    <3>2. ASSUME NEW a \in Tries, a < attempt[t] \/ a = attempt[t] PROVE Closed(t, a)'
      <4>1. CASE a < attempt[t]
        BY <3>1, <2>2, <4>1 DEF TimelySound, Closed, SameSignals, SameHandling, SameJobs, Signals
      <4>2. CASE a = attempt[t]
        <5>1. job[t][a] \in Over /\ ~ On("result", t, a) /\ ~ On("failure", t, a)
          BY <1>1, <3>1, <4>2 DEF TimelySound
        <5>2. ~ Handled(t, a) /\ ~ On("request", t, a)
          BY <3>1, <5>1 DEF OnceSound, Over
        <5>3. QED
          BY <5>1, <5>2, <2>2 DEF Closed, SameSignals, SameHandling, SameJobs, Signals
      <4>3. QED
        BY <3>2, <4>1, <4>2
    <3>3. \A a \in Tries : ~ On("failure", t, a)'
      BY <1>1, <2>2, <3>1 DEF TimelySound, SameSignals, Signals
    <3>4. ~ At(t, "refused")'
      BY <1>2 DEF Stages
    <3>5. QED
      BY <1>2, <2>3, <3>2, <3>3, <3>4, NoneAssumption DEF TimelySound
  <2>7. QED
    BY <2>4, <2>5, <2>6 DEF CalmSound
<1>7. QED
  BY <1>1, <1>2, <1>3, <1>4, <1>5, <1>6, LeadMoves

LEMMA LeaveStep == ASSUME IInv, NEW t \in Tasks, Leave(t) PROVE IInv'
<1>1. /\ lead # None /\ lead.task = t /\ lead' = None /\ TypeOK /\ BaseSound(t)
      /\ UNCHANGED <<task, inbox, net, handling, agent, serving, reach, skipped, late>>
      /\ state[t] \in Terminal \/ Fault
      /\ UNCHANGED faults \/ Fault
  BY DEF Leave, IInv, task
<1>2. \A u \in Tasks, ss \in Stages : ~ At(u, ss)'
  BY <1>1, NoneAssumption DEF At
<1>3. \A u \in Tasks \ {t} : SameLead(u)
  BY <1>1, <1>2 DEF At, SameLead
<1>4. faults' \in 0 .. MaxFaults /\ FaultsKept
  BY <1>1, FaultCounts, FaultsSame DEF FaultsKept
<1>5. TypeOK'
  BY <1>1, <1>4 DEF TypeOK, agent, task
<1>6. LeadSound(t)'
  BY <1>1, <1>2 DEF BaseSound, LeadSound, Held, Stages, task
<1>7. ASSUME faults' = 0 PROVE CalmSound(t)'
  <2>1. CalmSound(t) /\ state[t] \in Terminal /\ UNCHANGED <<state, attempt>>
    BY <1>1, <1>4, <1>7, FaultCounts DEF IInv, FaultsKept, task
  <2>2. SameSignals(t) /\ SameHandling(t) /\ SameJobs(t) /\ SameInbox(t)
    BY <1>1, Quiet DEF SameInbox
  <2>3. ~ Promised(t)' /\ ~ At(t, "ack")' /\ ~ At(t, "refused")'
    BY <1>2, <2>1 DEF Promised, Terminal, Stages
  <2>4. ASSUME t \notin late' PROVE TimelySound(t)'
    <3>1. TimelySound(t)
      BY <1>1, <2>1, <2>4 DEF CalmSound
    <3>2. InWork(t)' <=> InWork(t)
      BY <2>1 DEF InWork
    <3>3. QED
      BY <2>1, <2>2, <2>3, <3>1, <3>2, TimelyKept
  <2>5. QED
    BY <1>1, <2>1, <2>2, <2>3, <2>4, CalmLead DEF Terminal
<1>8. QED
  BY <1>1, <1>3, <1>4, <1>5, <1>6, <1>7, LeadMoves DEF SameInbox, task

-----------------------------------------------------------------------------
(* The dispatch of an attempt and the answers to it.                       *)

LEMMA DispatchStep == ASSUME IInv, NEW t \in Tasks, Dispatch(t) PROVE IInv'
<1>0. PICK n \in Nat : n = attempt[t] + 1
  BY DEF IInv, TypeOK
<1>1. /\ At(t, "poll") /\ TypeOK /\ BaseSound(t) /\ HandlingSound
      /\ state[t] \in {"PENDING", "RETRYING"}
      /\ state' = [state EXCEPT ![t] = "DISPATCHED"] /\ attempt' = [attempt EXCEPT ![t] = n]
      /\ \/ Owner[t] \in reach /\ Turn(t, "ack") /\ Send({Msg("request", t, n)})
         \/ Owner[t] \notin reach /\ Turn(t, "refused") /\ UNCHANGED net
      /\ UNCHANGED <<inbox, handling, agent, serving, reach, skipped, late, faults>>
  BY <1>0 DEF Dispatch, Move, IInv
<1>2. /\ n \in Tries /\ attempt[t] \in Nat /\ attempt[t] < n /\ ~ (n <= attempt[t])
      /\ \A a \in Tries : a < n => a <= attempt[t]
  BY <1>0, <1>1, BoundsAssumption DEF BaseSound, LeadSound, TypeOK, Tries
<1>3. /\ state'[t] = "DISPATCHED" /\ attempt'[t] = n
      /\ \A u \in Tasks \ {t} : state'[u] = state[u] /\ attempt'[u] = attempt[u]
  BY <1>1 DEF TypeOK
<1>4. PICK st \in {"ack", "refused"} :
        /\ Turn(t, st) /\ lead' \in [task : Tasks, at : Stages]
        /\ \A ss \in Stages : At(t, ss)' <=> ss = st
        /\ \A u \in Tasks \ {t} : SameLead(u)
        /\ st = "refused" => Owner[t] \notin reach
  BY <1>1, TurnTaken, TurnsOf DEF Stages
<1>5. /\ net' \in SUBSET Messages
      /\ \A k \in Signals, u \in Tasks, b \in Tries :
           On(k, u, b)' => On(k, u, b) \/ (k = "request" /\ u = t /\ b = n)
      /\ \A k \in Signals, u \in Tasks, b \in Tries : On(k, u, b) => On(k, u, b)'
  <2>1. CASE Send({Msg("request", t, n)})
    <3>1. "request" \in Kinds
      BY DEF Kinds
    <3>2. QED
      BY <1>1, <1>2, <2>1, <3>1, Sending, SignalKinds
  <2>2. CASE UNCHANGED net
    BY <1>1, <2>2 DEF On, TypeOK
  <2>3. QED
    BY <1>1, <2>1, <2>2
<1>6. TypeOK'
  <2>1. attempt' \in [Tasks -> 0 .. MaxAttempts]
    BY <1>1, <1>2, BoundsAssumption DEF TypeOK, Tries
  <2>2. state' \in [Tasks -> {"ABSENT", "PENDING", "RETRYING", "DISPATCHED", "RUNNING"} \cup Terminal]
    BY <1>1 DEF TypeOK
  <2>3. QED
    BY <1>1, <1>4, <1>5, <2>1, <2>2 DEF TypeOK, agent
<1>7. SameHandling(t) /\ SameJobs(t) /\ \A u \in Tasks : SameHandling(u) /\ SameJobs(u)
  BY <1>1 DEF agent, SameHandling, SameJobs, Handled, AgreedTo
<1>8. \A u \in Tasks \ {t} : SameView(u)
  <2>1. \A u \in Tasks \ {t} : SameSignals(u)
    BY <1>5 DEF SameSignals
  <2>2. QED
    BY <1>1, <1>3, <1>4, <1>7, <2>1 DEF SameView, SameDoc, SameInbox, SameMarks
<1>9. HandlingSound'
  BY <1>1 DEF HandlingSound
<1>10. TriesSound(t) /\ \A a \in Tries : a <= attempt[t] => a < n /\ a # n
  BY <1>1, <1>2 DEF BaseSound, Tries
<1>11. BaseSound(t)'
  <2>1. LeadSound(t)'
    BY <1>3 DEF LeadSound
  <2>2. TriesSound(t)'
    <3>1. ASSUME NEW a \in Tries, a <= attempt[t] PROVE a <= n
      BY <1>2, <3>1 DEF Tries
    <3>2. n <= n
      BY <1>2 DEF Tries
    <3>3. QED
      BY <1>3, <1>5, <1>7, <1>10, <3>1, <3>2 DEF TriesSound, SameHandling, SameJobs
  <2>3. OnceSound(t)'
    <3>1. job[t][n] = "none" /\ ~ Handled(t, n)
      BY <1>2, <1>10 DEF TriesSound
    <3>2. OnceSound(t)
      BY <1>1 DEF BaseSound
    <3>3. QED
      BY <1>5, <1>7, <3>1, <3>2 DEF OnceSound, SameHandling, SameJobs, Signals
  <2>4. FlightSound(t)' /\ RunSound(t)'
    BY <1>1, <1>7 DEF BaseSound, FlightSound, RunSound, SameJobs
  <2>5. QED
    BY <2>1, <2>2, <2>3, <2>4 DEF BaseSound
<1>12. ASSUME faults' = 0 PROVE CalmSound(t)'
  <2>1. CalmSound(t) /\ reach = Specialists /\ Owner[t] \in Specialists
    BY <1>1, <1>12, OwnerAssumption DEF IInv
  <2>2. st = "ack"
    BY <1>4, <2>1
  <2>3. ~ Promised(t)'
    <3>1. ~ On("agree", t, n)'
      BY <1>2, <1>5, <1>10 DEF TriesSound, Signals
    <3>2. QED
      BY <1>3, <1>4, <2>2, <3>1 DEF Promised, Stages
  <2>4. AckSound(t)'
    <3>1. Held(t)'
      BY <1>4, <2>2 DEF Held, Stages
    <3>2. \A a \in Tries : On("refuse", t, a)' => job'[t][a] # "none"
      BY <1>5, <1>7, <2>1 DEF CalmSound, AckSound, SameJobs, Signals
    <3>3. job'[t][n] = "none" /\ ~ AgreedTo(t, n)'
      BY <1>2, <1>7, <1>10 DEF TriesSound, SameJobs, SameHandling, AgreedTo
    <3>4. QED
      BY <1>3, <3>1, <3>2, <3>3 DEF AckSound
  <2>5. ReportSound(t)'
    BY <1>5, <1>7, <2>1 DEF CalmSound, ReportSound, SameJobs, Signals
  <2>6. ASSUME t \notin late' PROVE TimelySound(t)'
    <3>1. TimelySound(t) /\ ~ InWork(t)
      BY <1>1, <2>1, <2>6 DEF CalmSound, InWork
    <3>2. ASSUME NEW a \in Tries, a < n PROVE Closed(t, a)'
      <4>1. a < attempt[t] \/ a = attempt[t]
        BY <1>2, <3>2 DEF Tries
      <4>2. Closed(t, a) /\ a # n
        BY <1>10, <1>2, <3>1, <3>2, <4>1 DEF TimelySound
      <4>3. QED
        BY <1>5, <1>7, <4>2 DEF Closed, SameHandling, SameJobs, Signals
    <3>3. inbox'[t] = None /\ InWork(t)'
      BY <1>1, <1>3, <3>1 DEF TimelySound, InWork
    <3>4. (\E a \in Tries : On("failure", t, a)') => cache'[t] = "none"
      BY <1>5, <1>7, <3>1 DEF TimelySound, SameJobs, Signals
    <3>5. ~ At(t, "refused")'
      BY <1>4, <2>2 DEF Stages
    <3>6. QED
      BY <1>3, <3>2, <3>3, <3>4, <3>5, NoneAssumption DEF TimelySound
  <2>7. QED
    BY <2>3, <2>4, <2>5, <2>6 DEF CalmSound, PromiseSound
<1>13. QED
  BY <1>1, <1>6, <1>8, <1>9, <1>11, <1>12, OneMoves

LEMMA AcknowledgeStep == ASSUME IInv, NEW m \in net, Acknowledge(m) PROVE IInv'
<1> DEFINE awaited == At(m.task, "ack") /\ m.try = attempt[m.task]
<1>1. /\ TypeOK /\ m.kind \in {"agree", "refuse"} /\ net' = net \ {m} /\ HandlingSound
      /\ \/ At(m.task, "ack") /\ m.try = attempt[m.task] /\ Answered(m)
         \/ ~ awaited /\ UNCHANGED <<lead, reach, late, faults>>
      /\ UNCHANGED <<task, inbox, handling, agent, serving, skipped>>
  BY DEF Acknowledge, IInv
<1>2. m.kind # "help" /\ m.kind \in Signals /\ Signals \subseteq Kinds
  BY <1>1, SignalKinds DEF Signals
<1>3. /\ m.task \in Tasks /\ m.try \in Tries /\ On(m.kind, m.task, m.try)
      /\ net' \in SUBSET Messages
      /\ \A l \in Signals, u \in Tasks, a \in Tries :
           On(l, u, a)' <=> On(l, u, a) /\ ~ (l = m.kind /\ u = m.task /\ a = m.try)
  BY <1>1, <1>2, Taking
<1>4. PICK tt \in Tasks : tt = m.task
  BY <1>3
<1>5. PICK bb \in Tries : bb = m.try
  BY <1>3
<1>6. \A u \in Tasks : SameHandling(u) /\ SameJobs(u) /\ SameDoc(u) /\ SameInbox(u)
  BY <1>1 DEF agent, task, SameHandling, SameJobs, SameDoc, SameInbox, Handled, AgreedTo
<1>7. \A u \in Tasks \ {tt} : SameSignals(u)
  BY <1>3, <1>4 DEF SameSignals
<1>8. /\ BaseSound(tt)
      /\ \A k \in Signals, a \in Tries : On(k, tt, a)' => On(k, tt, a)
      /\ \A k \in {"request", "result", "failure"}, a \in Tries : On(k, tt, a)' <=> On(k, tt, a)
  BY <1>1, <1>3, <1>4 DEF IInv, Signals
<1>9. /\ TriesSound(tt)' /\ OnceSound(tt)' /\ FlightSound(tt)' /\ RunSound(tt)'
  <2>1. TriesSound(tt)'
    BY <1>6, <1>8 DEF BaseSound, TriesSound, SameHandling, SameJobs, SameDoc
  <2>2. OnceSound(tt)'
    BY <1>6, <1>8 DEF BaseSound, OnceSound, SameHandling, SameJobs, Signals
  <2>3. FlightSound(tt)' /\ RunSound(tt)'
    BY <1>6, <1>8 DEF BaseSound, FlightSound, RunSound, SameJobs
  <2>4. QED
    BY <2>1, <2>2, <2>3
<1>10. HandlingSound'
  BY <1>1 DEF HandlingSound
<1>11. Awaited(tt)' <=> Awaited(tt)
  BY <1>6, <1>8 DEF Awaited, SameJobs, SameInbox, SameHandling
<1>12. CASE awaited /\ Answered(m)
  <2>1. PICK st \in {"agreed", "refused"} :
          /\ Turn(tt, st) /\ (st = "agreed" \/ Fault \/ m.kind = "refuse")
          /\ lead' \in [task : Tasks, at : Stages]
          /\ \A ss \in Stages : At(tt, ss)' <=> ss = st
          /\ \A u \in Tasks \ {tt} : SameLead(u)
    <3>1. PICK st \in {"agreed", "refused"} :
            Turn(tt, st) /\ (st = "agreed" \/ Fault \/ m.kind = "refuse")
      BY <1>4, <1>12 DEF Answered
    <3>2. At(tt, "ack") /\ st \in Stages /\ "ack" \in Stages
      BY <1>4, <1>12 DEF Stages
    <3>3. QED
      BY <3>1, <3>2, TurnTaken, TurnsOf
  <2>2. /\ faults' \in 0 .. MaxFaults /\ FaultsKept
        /\ faults' = 0 => UNCHANGED faults
        /\ late' = late \/ (late' = late \cup {tt} /\ m.kind = "refuse")
        /\ reach' \in SUBSET Specialists
    <3>1. faults' \in 0 .. MaxFaults /\ FaultsKept /\ (faults' = 0 => UNCHANGED faults)
      BY <1>1, <1>12, FaultCounts, FaultsSame DEF Answered, FaultsKept
    <3>2. late' = late \/ (late' = late \cup {tt} /\ m.kind = "refuse")
      BY <1>4, <1>12 DEF Answered
    <3>3. reach' \in SUBSET Specialists
      BY <1>1, <1>3, <1>12, OwnerAssumption DEF Answered, Reached, Unreached, TypeOK
    <3>4. QED
      BY <3>1, <3>2, <3>3
  <2>3. TypeOK'
    BY <1>1, <1>3, <2>1, <2>2 DEF TypeOK, agent, task
  <2>4. At(tt, "ack") /\ bb = attempt[tt] /\ state[tt] = "DISPATCHED"
    BY <1>4, <1>5, <1>8, <1>12 DEF BaseSound, LeadSound, Held
  <2>5. LeadSound(tt)'
    BY <1>6, <2>1, <2>4 DEF LeadSound, SameDoc
  <2>6. \A u \in Tasks \ {tt} : SameView(u)
    BY <1>1, <1>6, <1>7, <2>1, <2>2 DEF SameView, SameMarks
  <2>7. ASSUME faults' = 0 PROVE CalmSound(tt)' /\ (reach = Specialists => reach' = Specialists)
    <3>1. CalmSound(tt) /\ UNCHANGED faults /\ ~ Fault
      BY <1>1, <2>2, <2>7, FaultCounts DEF IInv, FaultsKept
    <3>2. reach = Specialists => reach' = Specialists
      BY <1>3, <1>12, <3>1, OwnerAssumption DEF Answered, Reached
    <3>3. CASE m.kind = "agree"
      <4>1. st = "agreed" /\ On("agree", tt, bb) /\ late' = late
        BY <1>3, <1>4, <1>5, <2>1, <2>2, <3>1, <3>3
      <4>2. PromiseSound(tt)'
        <5>1. Promised(tt)
          BY <2>4, <4>1 DEF Promised
        <5>2. QED
          BY <1>1, <1>11, <3>1, <5>1 DEF CalmSound, PromiseSound
      <4>3. AckSound(tt)'
        BY <1>6, <1>8, <2>1, <3>1, <4>1 DEF CalmSound, AckSound, Held, Stages, SameJobs, Signals
      <4>4. ReportSound(tt)'
        BY <1>6, <1>8, <3>1 DEF CalmSound, ReportSound, SameJobs
      <4>5. ASSUME tt \notin late' PROVE TimelySound(tt)'
        <5>1. TimelySound(tt) /\ ~ At(tt, "refused")'
          BY <2>1, <3>1, <4>1, <4>5 DEF CalmSound, Stages
        <5>2. \A a \in Tries : Closed(tt, a)' <=> Closed(tt, a)
          BY <1>6, <1>8 DEF Closed, SameHandling, SameJobs
        <5>3. InWork(tt)' <=> InWork(tt)
          BY <1>6 DEF InWork, SameDoc
        <5>4. QED
          BY <1>6, <1>8, <5>1, <5>2, <5>3 DEF TimelySound, SameDoc, SameInbox, SameJobs
      <4>6. QED
        BY <3>2, <4>2, <4>3, <4>4, <4>5 DEF CalmSound
    <3>4. CASE m.kind = "refuse"
      <4>1. On("refuse", tt, bb)
        BY <1>3, <1>4, <1>5, <3>4
      <4>2. job[tt][bb] # "none"
        BY <3>1, <4>1 DEF CalmSound, AckSound
      <4>3. On("agree", tt, bb)
        BY <2>4, <3>1, <4>2 DEF CalmSound, AckSound
      <4>4. tt \in late' /\ st = "refused"
        BY <1>4, <1>5, <1>12, <2>1, <3>4, <4>3, TurnTaken DEF Answered, On, Stages
      <4>5. ~ Promised(tt)'
        BY <1>6, <2>1, <2>4, <4>4 DEF Promised, SameDoc, Stages
      <4>6. AckSound(tt)'
        BY <1>6, <1>8, <2>1, <3>1, <4>4 DEF CalmSound, AckSound, Held, Stages, SameJobs, Signals
      <4>7. ReportSound(tt)'
        BY <1>6, <1>8, <3>1 DEF CalmSound, ReportSound, SameJobs
      <4>8. QED
        BY <3>2, <4>4, <4>5, <4>6, <4>7 DEF CalmSound, PromiseSound
    <3>5. QED
      BY <1>1, <3>3, <3>4
  <2>8. BaseSound(tt)'
    BY <1>9, <2>5 DEF BaseSound
  <2>9. QED
    BY <1>10, <2>2, <2>3, <2>6, <2>7, <2>8, OneMoves DEF FaultsKept
<1>13. CASE ~ awaited /\ UNCHANGED <<lead, reach, late, faults>>
  <2>1. TypeOK'
    BY <1>1, <1>3, <1>13 DEF TypeOK, agent, task
  <2>2. \A u \in Tasks : SameLead(u) /\ SameMarks(u)
    BY <1>1, <1>13 DEF SameLead, SameMarks, At
  <2>3. \A u \in Tasks \ {tt} : SameView(u)
    BY <1>6, <1>7, <2>2 DEF SameView
  <2>4. LeadSound(tt)'
    BY <1>6, <1>8, <2>2 DEF BaseSound, LeadSound, Held, SameDoc, SameLead, Stages
  <2>5. ASSUME faults' = 0 PROVE CalmSound(tt)'
    <3>1. CalmSound(tt)
      BY <1>13, <2>5 DEF IInv
    <3>2. PromiseSound(tt)'
      <4>1. Promised(tt)' => Promised(tt)
        BY <1>6, <1>8, <2>2 DEF Promised, SameDoc, SameLead, Stages, Signals
      <4>2. QED
        BY <1>1, <1>11, <3>1, <4>1 DEF CalmSound, PromiseSound
    <3>3. AckSound(tt)'
      <4>1. ASSUME NEW a \in Tries, At(tt, "ack"), a = attempt[tt], On("agree", tt, a)
            PROVE  On("agree", tt, a)'
        <5>1. ~ (m.kind = "agree" /\ a = m.try)
          BY <1>4, <1>13, <4>1
        <5>2. QED
          BY <1>3, <4>1, <5>1 DEF Signals
      <4>2. QED
        BY <1>6, <1>8, <2>2, <3>1, <4>1 DEF CalmSound, AckSound, Held, SameDoc, SameLead, SameJobs,
           SameHandling, Stages, Signals
    <3>4. ReportSound(tt)'
      BY <1>6, <1>8, <3>1 DEF CalmSound, ReportSound, SameJobs
    <3>5. ASSUME tt \notin late' PROVE TimelySound(tt)'
      <4>1. TimelySound(tt) /\ ~ At(tt, "refused")'
        BY <1>13, <2>2, <3>1, <3>5 DEF CalmSound, TimelySound, SameLead, Stages
      <4>2. \A a \in Tries : Closed(tt, a)' <=> Closed(tt, a)
        BY <1>6, <1>8 DEF Closed, SameHandling, SameJobs
      <4>3. InWork(tt)' <=> InWork(tt)
        BY <1>6 DEF InWork, SameDoc
      <4>4. QED
        BY <1>6, <1>8, <4>1, <4>2, <4>3 DEF TimelySound, SameDoc, SameInbox, SameJobs
    <3>6. QED
      BY <3>2, <3>3, <3>4, <3>5 DEF CalmSound
  <2>6. BaseSound(tt)'
    BY <1>9, <2>4 DEF BaseSound
  <2>7. QED
    BY <1>10, <1>13, <2>1, <2>3, <2>5, <2>6, OneMoves
<1>14. QED
  BY <1>1, <1>12, <1>13

-----------------------------------------------------------------------------
(* Outcomes that arrive and messages that are lost.                        *)

(* With no agreement late an outcome is that of the present attempt.       *)
LEMMA OutcomeIsPresent ==
    ASSUME TypeOK, NEW t \in Tasks, NEW a \in Tries, TriesSound(t), TimelySound(t),
           On("result", t, a) \/ On("failure", t, a)
    PROVE  a = attempt[t] /\ InWork(t) /\ inbox[t] = None
<1>1. a <= attempt[t] /\ ~ Closed(t, a) /\ a \in Nat /\ attempt[t] \in Nat
  BY BoundsAssumption DEF TriesSound, Signals, Closed, Tries, TypeOK
<1>2. ~ (a < attempt[t]) /\ ~ (a = attempt[t] /\ ~ InWork(t)) /\ inbox[t] = None
  BY <1>1 DEF TimelySound
<1>3. QED
  BY <1>1, <1>2

LEMMA ReceiveStep == ASSUME IInv, NEW m \in net, Receive(m) PROVE IInv'
<1>1. /\ TypeOK /\ m.kind \in {"result", "failure"} /\ net' = net \ {m} /\ HandlingSound
      /\ inbox' = [inbox EXCEPT ![m.task] = m.kind]
      /\ UNCHANGED <<task, lead, handling, agent, serving, reach, skipped, late, faults>>
  BY DEF Receive, IInv
<1>2. m.kind # "help" /\ m.kind \in Signals /\ Signals \subseteq Kinds
  BY <1>1, SignalKinds DEF Signals
<1>3. /\ m.task \in Tasks /\ m.try \in Tries /\ On(m.kind, m.task, m.try)
      /\ net' \in SUBSET Messages
      /\ \A l \in Signals, u \in Tasks, a \in Tries :
           On(l, u, a)' <=> On(l, u, a) /\ ~ (l = m.kind /\ u = m.task /\ a = m.try)
  BY <1>1, <1>2, Taking
<1>4. PICK t \in Tasks : t = m.task
  BY <1>3
<1>5. PICK b \in Tries : b = m.try
  BY <1>3
<1>6. \A u \in Tasks : SameHandling(u) /\ SameJobs(u) /\ SameDoc(u) /\ SameLead(u) /\ SameMarks(u)
  BY <1>1 DEF agent, task, SameHandling, SameJobs, SameDoc, SameLead, SameMarks, At, Handled, AgreedTo
<1>7. \A u \in Tasks \ {t} : SameView(u)
  <2>1. \A u \in Tasks \ {t} : SameSignals(u) /\ SameInbox(u)
    BY <1>1, <1>3, <1>4 DEF SameSignals, SameInbox, TypeOK
  <2>2. QED
    BY <1>6, <2>1 DEF SameView
<1>8. /\ BaseSound(t) /\ inbox'[t] = m.kind /\ inbox'[t] # None
      /\ \A k \in Signals, a \in Tries : On(k, t, a)' => On(k, t, a)
      /\ \A k \in {"request", "agree", "refuse"}, a \in Tries : On(k, t, a)' <=> On(k, t, a)
  BY <1>1, <1>3, <1>4, NoneAssumption DEF IInv, Signals, TypeOK
<1>9. TypeOK'
  BY <1>1, <1>3 DEF TypeOK, agent, task
<1>10. HandlingSound'
  BY <1>1 DEF HandlingSound
<1>11. BaseSound(t)'
  <2>1. LeadSound(t)'
    BY <1>6, <1>8 DEF BaseSound, LeadSound, Held, SameDoc, SameLead, Stages
  <2>2. TriesSound(t)'
    BY <1>6, <1>8 DEF BaseSound, TriesSound, SameHandling, SameJobs, SameDoc
  <2>3. OnceSound(t)'
    BY <1>6, <1>8 DEF BaseSound, OnceSound, SameHandling, SameJobs
  <2>4. FlightSound(t)' /\ RunSound(t)'
    BY <1>6, <1>8 DEF BaseSound, FlightSound, RunSound, SameJobs
  <2>5. QED
    BY <2>1, <2>2, <2>3, <2>4 DEF BaseSound
<1>12. ASSUME faults' = 0 PROVE CalmSound(t)'
  <2>1. CalmSound(t)
    BY <1>1, <1>12 DEF IInv
  <2>2. Awaited(t)'
    BY <1>8 DEF Awaited
  <2>3. AckSound(t)'
    BY <1>6, <1>8, <2>1 DEF CalmSound, AckSound, Held, SameDoc, SameLead, SameJobs, SameHandling, Stages
  <2>4. ReportSound(t)'
    BY <1>6, <1>8, <2>1 DEF CalmSound, ReportSound, SameJobs, Signals
  <2>5. ASSUME t \notin late' PROVE TimelySound(t)'
    <3>1. TimelySound(t) /\ TriesSound(t) /\ ReportSound(t)
      BY <1>6, <1>8, <2>1, <2>5 DEF CalmSound, BaseSound, SameMarks
    <3>2. On(m.kind, t, b)
      BY <1>3, <1>4, <1>5
    <3>3. b = attempt[t] /\ InWork(t)
      BY <1>1, <3>1, <3>2, OutcomeIsPresent
    <3>4. job[t][b] \in Over
      BY <1>1, <3>1, <3>2 DEF ReportSound
    <3>5. ASSUME NEW a \in Tries, NEW k \in {"result", "failure"} PROVE ~ On(k, t, a)'
      <4>1. SUFFICES ASSUME On(k, t, a)' PROVE FALSE
        OBVIOUS
      <4>2. On(k, t, a) /\ k \in Signals
        BY <1>8, <4>1 DEF Signals
      <4>3. a = b
        BY <1>1, <3>1, <3>3, <4>2, OutcomeIsPresent
      <4>4. k # m.kind
        BY <1>3, <1>4, <1>5, <4>1, <4>2, <4>3
      <4>5. QED
        BY <1>1, <3>1, <3>2, <4>2, <4>3, <4>4 DEF ReportSound
    <3>6. \A a \in Tries : a < attempt'[t] \/ (a = attempt'[t] /\ ~ InWork(t)') => Closed(t, a)'
      BY <1>6, <1>8, <3>1 DEF TimelySound, Closed, InWork, SameDoc, SameHandling, SameJobs, Signals
    <3>7. m.kind = "failure" => cache'[t] = "none"
      BY <1>6, <3>1, <3>2 DEF TimelySound, SameJobs
    <3>8. ~ At(t, "refused")'
      BY <1>6, <3>1 DEF TimelySound, SameLead, Stages
    <3>9. InWork(t)' /\ \A a \in Tries : a = attempt'[t] => job'[t][a] \in Over
      BY <1>6, <3>3, <3>4 DEF InWork, SameDoc, SameJobs
    <3>10. QED
      BY <1>8, <3>5, <3>6, <3>7, <3>8, <3>9 DEF TimelySound
  <2>6. QED
    BY <2>2, <2>3, <2>4, <2>5 DEF CalmSound, PromiseSound
<1>13. QED
  BY <1>1, <1>7, <1>9, <1>10, <1>11, <1>12, OneMoves

LEMMA LoseStep == ASSUME IInv, NEW m \in net, Lose(m) PROVE IInv'
<1>1. /\ TypeOK /\ net' = net \ {m} /\ HandlingSound /\ Fault /\ faults' \in 0 .. MaxFaults
      /\ faults' # 0
      /\ UNCHANGED <<task, lead, inbox, handling, agent, serving, reach, skipped, late>>
  BY FaultCounts DEF Lose, IInv
<1>2. /\ net' \in SUBSET Messages
      /\ \A k \in Signals, u \in Tasks, a \in Tries : On(k, u, a)' => On(k, u, a)
  BY <1>1 DEF On, TypeOK
<1>3. \A u \in Tasks : SameHandling(u) /\ SameJobs(u) /\ SameDoc(u) /\ SameLead(u)
  BY <1>1 DEF agent, task, SameHandling, SameJobs, SameDoc, SameLead, At, Handled, AgreedTo
<1>4. TypeOK'
  BY <1>1, <1>2 DEF TypeOK, agent, task
<1>5. HandlingSound'
  BY <1>1 DEF HandlingSound
<1>6. ASSUME NEW u \in Tasks PROVE BaseSound(u)'
  <2>1. BaseSound(u)
    BY DEF IInv
  <2>2. LeadSound(u)'
    BY <1>3, <2>1 DEF BaseSound, LeadSound, Held, SameDoc, SameLead, Stages
  <2>3. TriesSound(u)'
    BY <1>2, <1>3, <2>1 DEF BaseSound, TriesSound, SameHandling, SameJobs, SameDoc
  <2>4. OnceSound(u)'
    BY <1>2, <1>3, <2>1 DEF BaseSound, OnceSound, SameHandling, SameJobs, Signals
  <2>5. FlightSound(u)' /\ RunSound(u)'
    BY <1>3, <2>1 DEF BaseSound, FlightSound, RunSound, SameJobs
  <2>6. QED
    BY <2>2, <2>3, <2>4, <2>5 DEF BaseSound
<1>7. QED
  BY <1>1, <1>4, <1>5, <1>6 DEF IInv

-----------------------------------------------------------------------------
(* The deliberation of a specialist.                                       *)

Requests == [task : Tasks, try : Tries, agreed : BOOLEAN]

LEMMA HandlingMoves ==
    ASSUME TypeOK, HandlingSound, NEW s \in Specialists, NEW h \in Requests \cup {None},
           handling' = [handling EXCEPT ![s] = h]
    PROVE  /\ handling' \in [Specialists -> Requests \cup {None}]
           /\ h # None /\ Owner[h.task] = s => HandlingSound'
           /\ h = None => HandlingSound'
           /\ \A u \in Tasks : Owner[u] # s => SameHandling(u)
           /\ \A u \in Tasks, a \in Tries : Owner[u] = s =>
                /\ Handled(u, a)' <=> h # None /\ h.task = u /\ h.try = a
                /\ AgreedTo(u, a)' <=> h # None /\ h.task = u /\ h.try = a /\ h.agreed
<1>1. handling \in [Specialists -> Requests \cup {None}]
  BY DEF TypeOK, Requests
<1>2. handling'[s] = h /\ \A p \in Specialists \ {s} : handling'[p] = handling[p]
  BY <1>1
<1>3. handling' \in [Specialists -> Requests \cup {None}]
  BY <1>1
<1>4. (h # None => Owner[h.task] = s) => HandlingSound'
  BY <1>2 DEF HandlingSound
<1>5. \A u \in Tasks : Owner[u] # s => SameHandling(u)
  BY <1>2, OwnerAssumption DEF SameHandling, Handled, AgreedTo
<1>6. \A u \in Tasks, a \in Tries : Owner[u] = s =>
         /\ Handled(u, a)' <=> h # None /\ h.task = u /\ h.try = a
         /\ AgreedTo(u, a)' <=> h # None /\ h.task = u /\ h.try = a /\ h.agreed
  BY <1>2 DEF Handled, AgreedTo
<1>7. QED
  BY <1>3, <1>4, <1>5, <1>6

(* Whom a specialist deliberates on, if anybody.                           *)
LEMMA HandledBy ==
    ASSUME TypeOK, HandlingSound, NEW s \in Specialists, handling[s] # None
    PROVE  /\ handling[s] \in Requests /\ handling[s].task \in Tasks /\ handling[s].try \in Tries
           /\ Owner[handling[s].task] = s
           /\ \A u \in Tasks, a \in Tries : Owner[u] = s =>
                /\ Handled(u, a) <=> u = handling[s].task /\ a = handling[s].try
                /\ AgreedTo(u, a) <=> u = handling[s].task /\ a = handling[s].try /\ handling[s].agreed
<1>1. handling[s] \in Requests
  BY DEF TypeOK, Requests
<1>2. handling[s].task \in Tasks /\ handling[s].try \in Tries
  BY <1>1 DEF Requests
<1>3. Owner[handling[s].task] = s
  BY DEF HandlingSound
<1>4. QED
  BY <1>1, <1>2, <1>3 DEF Handled, AgreedTo

LEMMA DeliberateStep == ASSUME IInv, NEW m \in net, Deliberate(m) PROVE IInv'
<1>1. /\ TypeOK /\ m.kind = "request" /\ net' = net \ {m} /\ HandlingSound
      /\ handling[Owner[m.task]] = None
      /\ handling' = [handling EXCEPT ![Owner[m.task]] =
                          [task |-> m.task, try |-> m.try, agreed |-> FALSE]]
      /\ reach' = reach \cup {Owner[m.task]}
      /\ UNCHANGED <<task, lead, inbox, agent, serving, skipped, late, faults>>
  BY DEF Deliberate, Reached, IInv
<1>2. m.kind # "help" /\ m.kind \in Signals /\ Signals \subseteq Kinds
  BY <1>1, SignalKinds DEF Signals
<1>3. /\ m.task \in Tasks /\ m.try \in Tries /\ On("request", m.task, m.try)
      /\ net' \in SUBSET Messages
      /\ \A l \in Signals, u \in Tasks, a \in Tries :
           On(l, u, a)' <=> On(l, u, a) /\ ~ (l = "request" /\ u = m.task /\ a = m.try)
  BY <1>1, <1>2, Taking
<1>4. PICK t \in Tasks : t = m.task
  BY <1>3
<1>5. PICK b \in Tries : b = m.try
  BY <1>3
<1>6. PICK s \in Specialists : s = Owner[t]
  BY OwnerAssumption
<1>7. PICK h \in Requests : h = [task |-> t, try |-> b, agreed |-> FALSE]
  BY DEF Requests
<1>8. h # None /\ h.task = t /\ h.try = b /\ h.agreed = FALSE
  BY <1>7, NoneAssumption DEF Requests
<1>9. /\ handling' \in [Specialists -> Requests \cup {None}] /\ HandlingSound'
      /\ \A u \in Tasks : Owner[u] # s => SameHandling(u)
      /\ \A u \in Tasks, a \in Tries : Owner[u] = s =>
           /\ Handled(u, a)' <=> u = t /\ a = b
           /\ ~ AgreedTo(u, a)'
  <2>1. handling' = [handling EXCEPT ![s] = h]
    BY <1>1, <1>4, <1>5, <1>6, <1>7
  <2>2. /\ handling' \in [Specialists -> Requests \cup {None}] /\ HandlingSound'
        /\ \A u \in Tasks : Owner[u] # s => SameHandling(u)
        /\ \A u \in Tasks, a \in Tries : Owner[u] = s =>
             /\ Handled(u, a)' <=> h # None /\ h.task = u /\ h.try = a
             /\ AgreedTo(u, a)' <=> h # None /\ h.task = u /\ h.try = a /\ h.agreed
    BY <1>1, <1>6, <1>8, <2>1, HandlingMoves
  <2>3. QED
    BY <1>8, <2>2
<1>10. \A u \in Tasks, a \in Tries : Owner[u] = s => ~ Handled(u, a) /\ ~ AgreedTo(u, a)
  BY <1>1, <1>4, <1>6 DEF Handled, AgreedTo
<1>11. \A u \in Tasks : SameJobs(u) /\ SameDoc(u) /\ SameLead(u) /\ SameMarks(u) /\ SameInbox(u)
  BY <1>1 DEF agent, task, SameJobs, SameDoc, SameLead, SameMarks, SameInbox, At
<1>12. \A u \in Tasks \ {t} : SameView(u)
  <2>1. \A u \in Tasks \ {t} : SameSignals(u)
    BY <1>3, <1>4 DEF SameSignals
  <2>2. \A u \in Tasks \ {t} : SameHandling(u)
    BY <1>9, <1>10 DEF SameHandling
  <2>3. QED
    BY <1>11, <2>1, <2>2 DEF SameView
<1>13. TypeOK'
  <2>1. reach' \in SUBSET Specialists
    BY <1>1, <1>4, OwnerAssumption DEF TypeOK
  <2>2. QED
    BY <1>1, <1>3, <1>9, <2>1 DEF TypeOK, agent, task, Requests
<1>14. /\ BaseSound(t) /\ On("request", t, b)
       /\ \A a \in Tries : Handled(t, a)' <=> a = b
       /\ \A a \in Tries : ~ Handled(t, a) /\ ~ AgreedTo(t, a)'
       /\ \A a \in Tries : On("request", t, a)' <=> On("request", t, a) /\ a # b
       /\ \A k \in Signals \ {"request"}, a \in Tries : On(k, t, a)' <=> On(k, t, a)
  BY <1>3, <1>4, <1>5, <1>6, <1>9, <1>10 DEF IInv, Signals
<1>15. BaseSound(t)'
  <2>1. LeadSound(t)'
    BY <1>11, <1>14 DEF BaseSound, LeadSound, Held, SameDoc, SameLead, Stages
  <2>2. TriesSound(t)'
    BY <1>11, <1>14 DEF BaseSound, TriesSound, SameJobs, SameDoc, Signals
  <2>3. OnceSound(t)'
    BY <1>11, <1>14 DEF BaseSound, OnceSound, SameJobs
  <2>4. FlightSound(t)' /\ RunSound(t)'
    BY <1>11, <1>14 DEF BaseSound, FlightSound, RunSound, SameJobs
  <2>5. QED
    BY <2>1, <2>2, <2>3, <2>4 DEF BaseSound
<1>16. ASSUME faults' = 0 PROVE CalmSound(t)'
  <2>1. CalmSound(t)
    BY <1>1, <1>16 DEF IInv
  <2>2. Awaited(t)'
    BY <1>14 DEF Awaited
  <2>3. AckSound(t)'
    BY <1>11, <1>14, <2>1 DEF CalmSound, AckSound, Held, SameDoc, SameLead, SameJobs, Stages, Signals
  <2>4. ReportSound(t)'
    BY <1>11, <1>14, <2>1 DEF CalmSound, ReportSound, SameJobs, Signals
  <2>5. ASSUME t \notin late' PROVE TimelySound(t)'
    <3>1. TimelySound(t)
      BY <1>11, <2>1, <2>5 DEF CalmSound, SameMarks
    <3>2. ~ Closed(t, b)
      BY <1>14 DEF Closed
    <3>3. \A a \in Tries : Closed(t, a) => Closed(t, a)'
      BY <1>11, <1>14, <3>2 DEF Closed, SameJobs, Signals
    <3>4. InWork(t)' <=> InWork(t)
      BY <1>11 DEF InWork, SameDoc
    <3>5. QED
      BY <1>11, <1>14, <3>1, <3>3, <3>4 DEF TimelySound, SameDoc, SameLead, SameInbox, SameJobs,
         Signals, Stages
  <2>6. QED
    BY <2>2, <2>3, <2>4, <2>5 DEF CalmSound, PromiseSound
<1>17. QED
  BY <1>1, <1>12, <1>13, <1>9, <1>15, <1>16, OneMoves

LEMMA RequestShape ==
    ASSUME NEW r \in Requests
    PROVE  r = [task |-> r.task, try |-> r.try, agreed |-> r.agreed]
BY DEF Requests

LEMMA AgreedRequest ==
    ASSUME NEW r \in Requests
    PROVE  [r EXCEPT !.agreed = TRUE] = [task |-> r.task, try |-> r.try, agreed |-> TRUE]
<1> DEFINE g == [r EXCEPT !.agreed = TRUE]
<1>1. g \in Requests
  BY DEF Requests
<1>2. g.task = r.task /\ g.try = r.try /\ g.agreed = TRUE
  BY DEF Requests
<1> HIDE DEF g
<1>3. g = [task |-> g.task, try |-> g.try, agreed |-> g.agreed]
  BY <1>1, RequestShape
<1>4. g = [task |-> r.task, try |-> r.try, agreed |-> TRUE]
  BY <1>2, <1>3
<1>5. QED
  BY <1>4 DEF g

LEMMA AgreeStep == ASSUME IInv, NEW s \in Specialists, Agree(s) PROVE IInv'
<1>1. /\ TypeOK /\ HandlingSound /\ handling[s] # None /\ ~ handling[s].agreed
      /\ handling' = [handling EXCEPT ![s].agreed = TRUE]
      /\ Send({Msg("agree", handling[s].task, handling[s].try)})
      /\ UNCHANGED <<task, lead, inbox, agent, serving, reach, skipped, late, faults>>
  BY DEF Agree, IInv
<1>2. PICK t \in Tasks : t = handling[s].task
  BY <1>1, HandledBy
<1>3. PICK b \in Tries : b = handling[s].try
  BY <1>1, HandledBy
<1>4. PICK h \in Requests : h = [task |-> t, try |-> b, agreed |-> TRUE]
  BY DEF Requests
<1>5. /\ h # None /\ h.task = t /\ h.try = b /\ h.agreed
      /\ handling' = [handling EXCEPT ![s] = h] /\ Owner[t] = s
  <2>1. handling[s] \in Requests /\ Owner[t] = s
    BY <1>1, <1>2, HandledBy
  <2>2. [handling[s] EXCEPT !.agreed = TRUE] = h
    BY <1>2, <1>3, <1>4, <2>1, AgreedRequest
  <2>3. handling' = [handling EXCEPT ![s] = h]
    <3>1. handling' = [handling EXCEPT ![s] = [handling[s] EXCEPT !.agreed = TRUE]]
      BY <1>1
    <3>2. QED
      BY <2>2, <3>1
  <2>4. h # None /\ h.task = t /\ h.try = b /\ h.agreed = TRUE
    BY <1>4, NoneAssumption DEF Requests
  <2>5. QED
    BY <2>1, <2>3, <2>4
<1>6. /\ handling' \in [Specialists -> Requests \cup {None}] /\ HandlingSound'
      /\ \A u \in Tasks : Owner[u] # s => SameHandling(u)
      /\ \A u \in Tasks, a \in Tries : Owner[u] = s =>
           /\ Handled(u, a)' <=> u = t /\ a = b
           /\ AgreedTo(u, a)' <=> u = t /\ a = b
  <2> h \in Requests \cup {None}
    OBVIOUS
  <2>1. /\ handling' \in [Specialists -> Requests \cup {None}]
        /\ h # None /\ Owner[h.task] = s => HandlingSound'
        /\ \A u \in Tasks : Owner[u] # s => SameHandling(u)
        /\ \A u \in Tasks, a \in Tries : Owner[u] = s =>
             /\ Handled(u, a)' <=> h # None /\ h.task = u /\ h.try = a
             /\ AgreedTo(u, a)' <=> h # None /\ h.task = u /\ h.try = a /\ h.agreed
    <3>1. TypeOK /\ HandlingSound /\ handling' = [handling EXCEPT ![s] = h]
      BY <1>1, <1>5
    <3>2. QED
      BY <3>1, HandlingMoves
  <2>2. h # None /\ h.task = t /\ h.try = b /\ h.agreed /\ Owner[t] = s
    BY <1>5
  <2>3. QED
    BY <2>1, <2>2
<1>7. \A u \in Tasks, a \in Tries : Owner[u] = s =>
         /\ Handled(u, a) <=> u = t /\ a = b
         /\ ~ AgreedTo(u, a)
  BY <1>1, <1>2, <1>3, HandledBy
<1>8. /\ net' \in SUBSET Messages
      /\ \A l \in Signals, u \in Tasks, a \in Tries :
           On(l, u, a)' <=> On(l, u, a) \/ (l = "agree" /\ u = t /\ a = b)
  <2>1. "agree" \in Kinds
    BY DEF Kinds
  <2>2. QED
    BY <1>1, <1>2, <1>3, <2>1, Sending, SignalKinds
<1>11. \A u \in Tasks : SameJobs(u) /\ SameDoc(u) /\ SameLead(u) /\ SameMarks(u) /\ SameInbox(u)
  BY <1>1 DEF agent, task, SameJobs, SameDoc, SameLead, SameMarks, SameInbox, At
<1>12. \A u \in Tasks \ {t} : SameView(u)
  <2>1. \A u \in Tasks \ {t} : SameSignals(u)
    BY <1>8 DEF SameSignals
  <2>2. \A u \in Tasks \ {t} : SameHandling(u)
    BY <1>6, <1>7 DEF SameHandling
  <2>3. QED
    BY <1>11, <2>1, <2>2 DEF SameView
<1>13. TypeOK'
  BY <1>1, <1>6, <1>8 DEF TypeOK, agent, task, Requests
<1>14. /\ BaseSound(t)
       /\ \A a \in Tries : (Handled(t, a)' <=> a = b) /\ (Handled(t, a) <=> a = b)
       /\ \A a \in Tries : AgreedTo(t, a)' <=> a = b
       /\ \A a \in Tries : On("agree", t, a)' <=> On("agree", t, a) \/ a = b
       /\ \A k \in Signals \ {"agree"}, a \in Tries : On(k, t, a)' <=> On(k, t, a)
  BY <1>5, <1>6, <1>7, <1>8 DEF IInv, Signals
<1>15. BaseSound(t)'
  <2>1. LeadSound(t)'
    BY <1>11, <1>14 DEF BaseSound, LeadSound, Held, SameDoc, SameLead, Stages
  <2>2. TriesSound(t)'
    BY <1>11, <1>14 DEF BaseSound, TriesSound, SameJobs, SameDoc, Signals
  <2>3. OnceSound(t)'
    BY <1>11, <1>14 DEF BaseSound, OnceSound, SameJobs, Signals
  <2>4. FlightSound(t)' /\ RunSound(t)'
    BY <1>11, <1>14 DEF BaseSound, FlightSound, RunSound, SameJobs
  <2>5. QED
    BY <2>1, <2>2, <2>3, <2>4 DEF BaseSound
<1>16. ASSUME faults' = 0 PROVE CalmSound(t)'
  <2>1. CalmSound(t)
    BY <1>1, <1>16 DEF IInv
  <2>2. Awaited(t)'
    BY <1>14 DEF Awaited
  <2>3. AckSound(t)'
    BY <1>11, <1>14, <2>1 DEF CalmSound, AckSound, Held, SameDoc, SameLead, SameJobs, Stages, Signals
  <2>4. ReportSound(t)'
    BY <1>11, <1>14, <2>1 DEF CalmSound, ReportSound, SameJobs, Signals
  <2>5. ASSUME t \notin late' PROVE TimelySound(t)'
    <3>1. TimelySound(t)
      BY <1>11, <2>1, <2>5 DEF CalmSound, SameMarks
    <3>3. \A a \in Tries : Closed(t, a) => Closed(t, a)'
      BY <1>11, <1>14 DEF Closed, SameJobs, Signals
    <3>4. InWork(t)' <=> InWork(t)
      BY <1>11 DEF InWork, SameDoc
    <3>5. QED
      BY <1>11, <1>14, <3>1, <3>3, <3>4 DEF TimelySound, SameDoc, SameLead, SameInbox, SameJobs,
         Signals, Stages
  <2>6. QED
    BY <2>2, <2>3, <2>4, <2>5 DEF CalmSound, PromiseSound
<1>17. QED
  BY <1>1, <1>12, <1>13, <1>6, <1>15, <1>16, OneMoves

LEMMA RejectStep == ASSUME IInv, NEW s \in Specialists, Reject(s) PROVE IInv'
<1>1. /\ TypeOK /\ HandlingSound /\ handling[s] # None
      /\ handling' = [handling EXCEPT ![s] = None]
      /\ SendRaises({Msg(kind, handling[s].task, handling[s].try) : kind \in {"agree", "refuse"}})
      /\ UNCHANGED <<task, lead, inbox, agent, serving, reach, skipped, late>>
  BY DEF Reject, IInv
<1>2. PICK t \in Tasks : t = handling[s].task
  BY <1>1, HandledBy
<1>3. PICK b \in Tries : b = handling[s].try
  BY <1>1, HandledBy
<1>4. /\ handling' \in [Specialists -> Requests \cup {None}] /\ HandlingSound'
      /\ \A u \in Tasks : Owner[u] # s => SameHandling(u)
      /\ \A u \in Tasks, a \in Tries : Owner[u] = s => ~ Handled(u, a)'
  BY <1>1, HandlingMoves
<1>5. /\ Owner[t] = s
      /\ \A u \in Tasks, a \in Tries : Owner[u] = s => (Handled(u, a) <=> u = t /\ a = b)
  BY <1>1, <1>2, <1>3, HandledBy
<1>6. /\ faults' = faults + 1 /\ faults' \in 0 .. MaxFaults
      /\ net' \in SUBSET Messages
      /\ \A l \in Signals, u \in Tasks, a \in Tries :
           On(l, u, a)' => On(l, u, a) \/ (l \in {"agree", "refuse"} /\ u = t /\ a = b)
  <2>1. {"agree", "refuse"} \in SUBSET Kinds
    BY DEF Kinds
  <2>2. SendRaises({Msg(k, t, b) : k \in {"agree", "refuse"}})
    BY <1>1, <1>2, <1>3
  <2>3. /\ faults' = faults + 1 /\ faults' \in 0 .. MaxFaults
        /\ net' \in SUBSET Messages
        /\ \A l \in Kinds, u \in Tasks, a \in Tries :
             On(l, u, a)' => On(l, u, a) \/ (l \in {"agree", "refuse"} /\ u = t /\ a = b)
    BY <1>1, <2>1, <2>2, SendingRaises
  <2>4. QED
    BY <2>3, SignalKinds
<1>7. \A u \in Tasks : SameJobs(u) /\ SameDoc(u) /\ SameLead(u)
  BY <1>1 DEF agent, task, SameJobs, SameDoc, SameLead, At
<1>8. TypeOK'
  BY <1>1, <1>4, <1>6 DEF TypeOK, agent, task, Requests
<1>9. ASSUME NEW u \in Tasks PROVE BaseSound(u)'
  <2>1. /\ BaseSound(u)
        /\ \A a \in Tries : Handled(u, a)' => Handled(u, a)
        /\ \A l \in Signals, a \in Tries :
             On(l, u, a)' => On(l, u, a) \/ (l # "request" /\ Handled(u, a))
    BY <1>4, <1>5, <1>6 DEF IInv, SameHandling
  <2>2. LeadSound(u)'
    BY <1>7, <2>1 DEF BaseSound, LeadSound, Held, SameDoc, SameLead, Stages
  <2>3. TriesSound(u)'
    BY <1>7, <2>1 DEF BaseSound, TriesSound, SameJobs, SameDoc
  <2>4. OnceSound(u)'
    BY <1>7, <2>1 DEF BaseSound, OnceSound, SameJobs, Signals
  <2>5. FlightSound(u)' /\ RunSound(u)'
    BY <1>7, <2>1 DEF BaseSound, FlightSound, RunSound, SameJobs
  <2>6. QED
    BY <2>2, <2>3, <2>4, <2>5 DEF BaseSound
<1>10. faults' # 0
  BY <1>1, <1>6 DEF TypeOK
<1>11. QED
  BY <1>4, <1>8, <1>9, <1>10 DEF IInv

(* The attempt that is handled is the present one, if none is late.        *)
LEMMA StartStep == ASSUME IInv, NEW s \in Specialists, Start(s) PROVE IInv'
<1>1. /\ TypeOK /\ HandlingSound /\ handling[s] # None /\ handling[s].agreed
      /\ handling' = [handling EXCEPT ![s] = None]
      /\ UNCHANGED <<task, lead, inbox, net, cache, helped, serving, reach, late, faults>>
  BY DEF Start, IInv
<1>2. PICK t \in Tasks : t = handling[s].task
  BY <1>1, HandledBy
<1>3. PICK b \in Tries : b = handling[s].try
  BY <1>1, HandledBy
<1>4. /\ handling' \in [Specialists -> Requests \cup {None}] /\ HandlingSound'
      /\ \A u \in Tasks : Owner[u] # s => SameHandling(u)
      /\ \A u \in Tasks, a \in Tries : Owner[u] = s => ~ Handled(u, a)' /\ ~ AgreedTo(u, a)'
  BY <1>1, HandlingMoves
<1>5. /\ Owner[t] = s
      /\ \A u \in Tasks, a \in Tries : Owner[u] = s =>
           /\ Handled(u, a) <=> u = t /\ a = b
           /\ AgreedTo(u, a) <=> u = t /\ a = b
  BY <1>1, <1>2, <1>3, HandledBy
<1>6. /\ \A u \in Tasks : SameDoc(u) /\ SameLead(u) /\ SameInbox(u) /\ SameSignals(u)
      /\ \A u \in Tasks : cache'[u] = cache[u] /\ (u \in late' <=> u \in late)
  BY <1>1 DEF task, SameDoc, SameLead, SameInbox, SameSignals, At, On
<1>7. \A u \in Tasks \ {t} : SameHandling(u)
  BY <1>4, <1>5 DEF SameHandling
<1>8. /\ BaseSound(t) /\ Handled(t, b) /\ AgreedTo(t, b)
      /\ \A a \in Tries : ~ Handled(t, a)' /\ ~ AgreedTo(t, a)'
      /\ job[t][b] = "none" /\ ~ On("request", t, b) /\ b <= attempt[t]
  <2>1. BaseSound(t) /\ Handled(t, b) /\ AgreedTo(t, b)
    BY <1>5 DEF IInv
  <2>2. QED
    BY <1>4, <1>5, <2>1 DEF BaseSound, OnceSound, TriesSound
<1>9. CASE t \in inflight
  <2>1. /\ UNCHANGED <<inflight, job>>
        /\ skipped' = IF \E a \in Tries : job[t][a] = "sent" THEN skipped \cup {t} ELSE skipped
    BY <1>2, <1>9 DEF Start
  <2>2. \A u \in Tasks : SameJobs(u)
    BY <1>6, <2>1 DEF SameJobs
  <2>3. \A u \in Tasks \ {t} : SameView(u)
    BY <1>6, <1>7, <2>1, <2>2 DEF SameView, SameMarks
  <2>4. TypeOK'
    BY <1>1, <1>4, <2>1 DEF TypeOK, task, Requests
  <2>5. BaseSound(t)'
    <3>1. LeadSound(t)'
      BY <1>6, <1>8 DEF BaseSound, LeadSound, Held, SameDoc, SameLead, Stages
    <3>2. TriesSound(t)'
      BY <1>6, <1>8, <2>2 DEF BaseSound, TriesSound, SameJobs, SameDoc, SameSignals
    <3>3. OnceSound(t)'
      BY <1>6, <1>8, <2>2 DEF BaseSound, OnceSound, SameJobs, SameSignals, Signals
    <3>4. FlightSound(t)' /\ RunSound(t)'
      BY <1>8, <2>2 DEF BaseSound, FlightSound, RunSound, SameJobs
    <3>5. QED
      BY <3>1, <3>2, <3>3, <3>4 DEF BaseSound
  <2>6. ASSUME faults' = 0 PROVE CalmSound(t)'
    <3>1. CalmSound(t)
      BY <1>1, <2>6 DEF IInv
    <3>2. PromiseSound(t)'
      <4>1. CASE \E a \in Tries : job[t][a] = "sent"
        BY <2>1, <4>1 DEF PromiseSound
      <4>2. CASE ~ \E a \in Tries : job[t][a] = "sent"
        <5>1. \E a \in Tries : job[t][a] \in Active \ {"sent"}
          BY <1>8, <1>9, <4>2 DEF BaseSound, FlightSound
        <5>2. Awaited(t)'
          BY <2>2, <5>1 DEF Awaited, SameJobs
        <5>3. QED
          BY <5>2 DEF PromiseSound
      <4>3. QED
        BY <4>1, <4>2
    <3>3. AckSound(t)'
      BY <1>6, <1>8, <2>2, <3>1 DEF CalmSound, AckSound, Held, SameDoc, SameLead, SameJobs,
         SameSignals, Stages, Signals
    <3>4. ReportSound(t)'
      BY <1>6, <2>2, <3>1 DEF CalmSound, ReportSound, SameJobs, SameSignals, Signals
    <3>5. ASSUME t \notin late' PROVE TimelySound(t)'
      <4>1. TimelySound(t)
        BY <1>6, <3>1, <3>5 DEF CalmSound
      <4>2. \A a \in Tries : Closed(t, a) => Closed(t, a)'
        BY <1>6, <1>8, <2>2 DEF Closed, SameJobs, SameSignals, Signals
      <4>3. InWork(t)' <=> InWork(t)
        BY <1>6 DEF InWork, SameDoc
      <4>4. QED
        BY <1>6, <2>2, <4>1, <4>2, <4>3 DEF TimelySound, SameDoc, SameLead, SameInbox, SameJobs,
           SameSignals, Signals, Stages
    <3>6. QED
      BY <3>2, <3>3, <3>4, <3>5 DEF CalmSound
  <2>7. QED
    BY <1>1, <1>4, <2>3, <2>4, <2>5, <2>6, OneMoves
<1>10. CASE t \notin inflight
  <2>1. PICK y \in {"run", "consult"} :
          /\ job' = [job EXCEPT ![t][b] = y]
          /\ y = "run" <=> cache[t] = "none"
    BY <1>2, <1>3, <1>10 DEF Start
  <2>2. inflight' = inflight \cup {t} /\ UNCHANGED skipped
    BY <1>2, <1>10 DEF Start
  <2>3. /\ job' \in [Tasks -> [Tries -> Active \cup {"none", "done"}]]
        /\ job'[t][b] = y /\ \A a \in Tries \ {b} : job'[t][a] = job[t][a]
        /\ \A u \in Tasks \ {t} : job'[u] = job[u]
    <3>1. y \in Active
      BY DEF Active
    <3>2. job \in [Tasks -> [Tries -> Active \cup {"none", "done"}]]
      BY <1>1 DEF TypeOK
    <3> HIDE DEF Active, Tries
    <3>3. QED
      BY <2>1, <3>1, <3>2
  <2>4. \A a \in Tries : job[t][a] \notin Active
    BY <1>8, <1>10 DEF BaseSound, FlightSound
  <2>5. \A u \in Tasks \ {t} : SameView(u)
    <3>1. \A u \in Tasks \ {t} : SameJobs(u)
      BY <1>6, <2>2, <2>3 DEF SameJobs
    <3>2. QED
      BY <1>6, <1>7, <2>2, <3>1 DEF SameView, SameMarks
  <2>6. TypeOK'
    BY <1>1, <1>4, <2>2, <2>3 DEF TypeOK, task, Requests
  <2>7. BaseSound(t)'
    <3>1. LeadSound(t)'
      BY <1>6, <1>8 DEF BaseSound, LeadSound, Held, SameDoc, SameLead, Stages
    <3>2. TriesSound(t)'
      BY <1>6, <1>8, <2>3 DEF BaseSound, TriesSound, SameDoc, SameSignals
    <3>3. OnceSound(t)'
      BY <1>6, <1>8, <2>3 DEF BaseSound, OnceSound, SameSignals, Signals
    <3>4. FlightSound(t)'
      BY <2>2, <2>3, <2>4 DEF FlightSound, Active
    <3>5. RunSound(t)'
      BY <1>6, <2>1, <2>3, <2>4 DEF RunSound, Active
    <3>6. QED
      BY <3>1, <3>2, <3>3, <3>4, <3>5 DEF BaseSound
  <2>8. ASSUME faults' = 0 PROVE CalmSound(t)'
    <3>1. CalmSound(t)
      BY <1>1, <2>8 DEF IInv
    <3>2. Awaited(t)'
      BY <2>3 DEF Awaited, Active
    <3>3. AckSound(t)'
      <4>1. \A a \in Tries : On("refuse", t, a)' => job'[t][a] # "none"
        BY <1>6, <2>3, <3>1 DEF CalmSound, AckSound, SameSignals, Signals
      <4>2. \A a \in Tries : At(t, "ack")' /\ a = attempt'[t] /\ job'[t][a] # "none" => On("agree", t, a)'
        BY <1>6, <1>8, <2>3, <3>1 DEF CalmSound, AckSound, SameDoc, SameLead, SameSignals, Stages,
           Signals
      <4>3. state'[t] = "DISPATCHED" => Held(t)'
        BY <1>6, <3>1 DEF CalmSound, AckSound, Held, SameDoc, SameLead, Stages
      <4>4. QED
        BY <1>8, <4>1, <4>2, <4>3 DEF AckSound
    <3>4. ReportSound(t)'
      BY <1>6, <1>8, <2>3, <3>1 DEF CalmSound, ReportSound, SameSignals, Signals, Over
    <3>5. ASSUME t \notin late' PROVE TimelySound(t)'
      <4>1. TimelySound(t) /\ ReportSound(t)
        BY <1>6, <3>1, <3>5 DEF CalmSound
      <4>2. ~ Closed(t, b)
        BY <1>8 DEF Closed
      <4>3. \A a \in Tries : Closed(t, a) => Closed(t, a)'
        BY <1>6, <1>8, <2>3, <4>2 DEF Closed, SameSignals, Signals
      <4>4. InWork(t)' <=> InWork(t)
        BY <1>6 DEF InWork, SameDoc
      <4>5. inbox'[t] # None => \A a \in Tries : a = attempt'[t] => job'[t][a] \in Over
        <5>1. ASSUME inbox[t] # None, NEW a \in Tries, a = attempt[t] PROVE job'[t][a] \in Over
          <6>1. job[t][a] \in Over
            BY <4>1, <5>1 DEF TimelySound
          <6>2. a # b
            BY <1>8, <6>1 DEF Over
          <6>3. QED
            BY <2>3, <6>1, <6>2
        <5>2. QED
          BY <1>6, <5>1 DEF SameDoc, SameInbox
      <4>6. QED
        BY <1>6, <4>1, <4>3, <4>4, <4>5 DEF TimelySound, SameDoc, SameLead, SameInbox,
           SameSignals, Signals, Stages
    <3>6. QED
      BY <3>2, <3>3, <3>4, <3>5 DEF CalmSound, PromiseSound
  <2>9. QED
    BY <1>1, <1>4, <2>5, <2>6, <2>7, <2>8, OneMoves
<1>11. QED
  BY <1>9, <1>10

-----------------------------------------------------------------------------
(* The behaviours of a specialist.                                         *)

(* The only attempt that is not closed, if no agreement was late.          *)
LEMMA PresentAttempt ==
    ASSUME TypeOK, NEW t \in Tasks, NEW a \in Tries, TriesSound(t), TimelySound(t), ReportSound(t),
           job[t][a] \in Active \ {"sent"}
    PROVE  /\ a = attempt[t] /\ InWork(t) /\ inbox[t] = None
           /\ \A b \in Tries : ~ On("result", t, b) /\ ~ On("failure", t, b)
<1>1. job[t][a] # "none" /\ job[t][a] \notin Over
  BY DEF Active, Over
<1>2. a <= attempt[t] /\ ~ Closed(t, a) /\ a \in Nat /\ attempt[t] \in Nat
  BY <1>1, BoundsAssumption DEF TriesSound, Closed, Tries, TypeOK
<1>3. ~ (a < attempt[t]) /\ ~ (a = attempt[t] /\ ~ InWork(t))
  BY <1>2 DEF TimelySound
<1>4. a = attempt[t] /\ InWork(t)
  BY <1>2, <1>3
<1>5. inbox[t] = None
  BY <1>1, <1>4 DEF TimelySound
<1>6. ASSUME NEW b \in Tries, On("result", t, b) \/ On("failure", t, b) PROVE FALSE
  <2>1. b = a
    BY <1>4, <1>6, OutcomeIsPresent
  <2>2. QED
    BY <1>1, <1>6, <2>1 DEF ReportSound
<1>7. QED
  BY <1>4, <1>5, <1>6

LEMMA JobTyped ==
    ASSUME TypeOK, NEW t \in Tasks, NEW a \in Tries, NEW y \in Active \cup {"none", "done"},
           job' = [job EXCEPT ![t][a] = y]
    PROVE  /\ job' \in [Tasks -> [Tries -> Active \cup {"none", "done"}]]
           /\ job'[t][a] = y /\ \A b \in Tries \ {a} : job'[t][b] = job[t][b]
           /\ \A u \in Tasks \ {t} : job'[u] = job[u]
<1>1. job \in [Tasks -> [Tries -> Active \cup {"none", "done"}]]
  BY DEF TypeOK
<1> HIDE DEF Active, Tries
<1>2. QED
  BY <1>1

(* A behaviour goes on and has nothing to report yet.                      *)
LEMMA JobMoves ==
    ASSUME IInv, NEW t \in Tasks, NEW a \in Tries, NEW y \in Active \ {"sent", "run"},
           job[t][a] \in Active \ {"sent"}, job' = [job EXCEPT ![t][a] = y], TypeOK',
           UNCHANGED <<task, lead, inbox, handling, inflight, reach, skipped, late>>,
           FaultsKept, \A u \in Tasks \ {t} : SameSignals(u) /\ cache'[u] = cache[u],
           \A k \in Signals, b \in Tries : On(k, t, b)' => On(k, t, b) \/ (k = "result" /\ b = a),
           faults' = 0 => SameSignals(t) /\ (y = "fail" => cache'[t] = "none")
    PROVE  IInv'
<1>1. /\ TypeOK /\ HandlingSound /\ BaseSound(t)
      /\ job[t][a] # "none" /\ job[t][a] \notin Over /\ y # "none" /\ y \notin Over
      /\ y \in Active /\ y # "run"
  BY DEF IInv, Active, Over
<1>2. /\ job'[t][a] = y /\ \A b \in Tries \ {a} : job'[t][b] = job[t][b]
      /\ \A u \in Tasks \ {t} : job'[u] = job[u]
  BY <1>1, JobTyped
<1>3. \A u \in Tasks : SameDoc(u) /\ SameLead(u) /\ SameInbox(u) /\ SameHandling(u) /\ SameMarks(u)
  BY DEF task, SameDoc, SameLead, SameInbox, SameHandling, SameMarks, At, Handled, AgreedTo
<1>4. \A u \in Tasks \ {t} : SameView(u)
  BY <1>2, <1>3 DEF SameView, SameJobs
<1>5. HandlingSound'
  BY <1>1 DEF HandlingSound
<1>6. \A b \in Tries : job[t][b] \in Active => b = a
  BY <1>1 DEF BaseSound, FlightSound
<1>7. BaseSound(t)'
  <2>1. LeadSound(t)'
    BY <1>1, <1>3 DEF BaseSound, LeadSound, Held, SameDoc, SameLead, Stages
  <2>2. TriesSound(t)'
    BY <1>1, <1>2, <1>3 DEF BaseSound, TriesSound, SameDoc, SameHandling
  <2>3. OnceSound(t)'
    BY <1>1, <1>2, <1>3 DEF BaseSound, OnceSound, SameHandling, Signals
  <2>4. FlightSound(t)'
    <3>1. t \in inflight'
      BY <1>1 DEF BaseSound, FlightSound
    <3>2. \A b \in Tries : job'[t][b] \in Active => b = a
      BY <1>2, <1>6
    <3>3. QED
      BY <1>1, <1>2, <3>1, <3>2 DEF FlightSound
  <2>5. RunSound(t)'
    BY <1>1, <1>2, <1>6 DEF RunSound, Active
  <2>6. QED
    BY <2>1, <2>2, <2>3, <2>4, <2>5 DEF BaseSound
<1>8. ASSUME faults' = 0 PROVE CalmSound(t)'
  <2>1. CalmSound(t) /\ SameSignals(t)
    BY <1>8 DEF IInv, FaultsKept
  <2>2. Awaited(t)'
    BY <1>1, <1>2 DEF Awaited, Over
  <2>3. AckSound(t)'
    BY <1>1, <1>2, <1>3, <2>1 DEF CalmSound, AckSound, Held, SameDoc, SameLead, SameHandling,
       SameSignals, Stages, Signals
  <2>4. ReportSound(t)'
    <3>1. ASSUME NEW b \in Tries, On("result", t, b)' \/ On("failure", t, b)'
          PROVE  job'[t][b] \in Over
      <4>1. job[t][b] \in Over
        BY <2>1, <3>1 DEF CalmSound, ReportSound, SameSignals, Signals
      <4>2. b # a
        BY <1>1, <4>1
      <4>3. QED
        BY <1>2, <4>1, <4>2
    <3>2. \A b \in Tries : ~ (On("result", t, b)' /\ On("failure", t, b)')
      BY <2>1 DEF CalmSound, ReportSound, SameSignals, Signals
    <3>3. ASSUME NEW b \in Tries, job'[t][b] = "fail" PROVE cache'[t] = "none"
      <4>1. b = a
        BY <1>2, <1>6, <3>3 DEF Active
      <4>2. QED
        BY <1>2, <1>8, <3>3, <4>1
    <3>4. QED
      BY <3>1, <3>2, <3>3 DEF ReportSound
  <2>5. ASSUME t \notin late' PROVE TimelySound(t)'
    <3>1. TimelySound(t) /\ ReportSound(t) /\ TriesSound(t)
      BY <1>1, <1>3, <2>1, <2>5 DEF CalmSound, BaseSound, SameMarks
    <3>2. /\ inbox[t] = None
          /\ \A b \in Tries : ~ On("result", t, b) /\ ~ On("failure", t, b)
      BY <1>1, <3>1, PresentAttempt
    <3>3. ~ Closed(t, a)
      BY <1>1 DEF Closed
    <3>4. \A b \in Tries : Closed(t, b) => Closed(t, b)'
      BY <1>2, <1>3, <2>1, <3>3 DEF Closed, SameHandling, SameSignals, Signals
    <3>5. InWork(t)' <=> InWork(t)
      BY <1>3 DEF InWork, SameDoc
    <3>6. inbox'[t] = None /\ \A b \in Tries : ~ On("failure", t, b)'
      BY <1>3, <2>1, <3>2 DEF SameInbox, SameSignals, Signals
    <3>7. QED
      BY <1>3, <3>1, <3>4, <3>5, <3>6, NoneAssumption DEF TimelySound, SameDoc, SameLead, Stages
  <2>6. QED
    BY <2>2, <2>3, <2>4, <2>5 DEF CalmSound, PromiseSound
<1>9. QED
  BY <1>4, <1>5, <1>7, <1>8, OneMoves DEF FaultsKept

LEMMA SameNet ==
    ASSUME TypeOK, UNCHANGED net
    PROVE  net' \in SUBSET Messages /\ \A u \in Tasks : SameSignals(u)
BY DEF SameSignals, On, TypeOK

LEMMA InvestigateStep == ASSUME IInv, NEW t \in Tasks, NEW a \in Tries, Investigate(t, a) PROVE IInv'
<1>1. /\ TypeOK /\ BaseSound(t) /\ job[t][a] = "run"
      /\ UNCHANGED <<task, lead, inbox, net, handling, inflight, helped, serving, reach, skipped,
                     late, faults>>
  BY DEF Investigate, Step, IInv
<1>2. PICK y \in {"consult", "fail"}, r \in {"none", "open", "closed"} :
        /\ job' = [job EXCEPT ![t][a] = y]
        /\ cache' = [cache EXCEPT ![t] = r]
        /\ y = "fail" => r = "none"
  <2>1. CASE \E r \in {"open", "closed"} :
               Step(t, a, "run", "consult") /\ cache' = [cache EXCEPT ![t] = r]
    BY <2>1 DEF Step
  <2>2. CASE Step(t, a, "run", "fail") /\ UNCHANGED cache
    <3>1. cache[t] = "none"
      BY <1>1 DEF BaseSound, RunSound
    <3>2. cache' = [cache EXCEPT ![t] = "none"]
      BY <1>1, <2>2, <3>1 DEF TypeOK
    <3>3. QED
      BY <2>2, <3>2 DEF Step
  <2>3. QED
    BY <2>1, <2>2 DEF Investigate
<1>3. y \in Active \ {"sent", "run"} /\ job[t][a] \in Active \ {"sent"}
  BY <1>1 DEF Active
<1>4. cache'[t] = r /\ \A u \in Tasks \ {t} : cache'[u] = cache[u]
  BY <1>1, <1>2 DEF TypeOK
<1>5. job' \in [Tasks -> [Tries -> Active \cup {"none", "done"}]]
  BY <1>1, <1>2, <1>3, JobTyped
<1>6. TypeOK'
  BY <1>1, <1>2, <1>5 DEF TypeOK, task
<1>7. QED
  BY <1>1, <1>2, <1>3, <1>4, <1>6, SameNet, FaultsSame, JobMoves DEF SameSignals

LEMMA ConsultStep == ASSUME IInv, NEW t \in Tasks, NEW a \in Tries, Consult(t, a) PROVE IInv'
<1>1. /\ TypeOK /\ job[t][a] = "consult" /\ helped' \in SUBSET Tasks
      /\ UNCHANGED <<task, lead, inbox, net, handling, inflight, cache, serving, reach, skipped,
                     late, faults>>
  BY DEF Consult, Step, IInv, TypeOK
<1>2. PICK y \in {"assess", "report"} : job' = [job EXCEPT ![t][a] = y]
  BY DEF Consult, Step
<1>3. y \in Active \ {"sent", "run"} /\ job[t][a] \in Active \ {"sent"} /\ y # "fail"
  BY <1>1 DEF Active
<1>5. job' \in [Tasks -> [Tries -> Active \cup {"none", "done"}]]
  BY <1>1, <1>2, <1>3, JobTyped
<1>6. TypeOK'
  BY <1>1, <1>5 DEF TypeOK, task
<1>7. QED
  BY <1>1, <1>2, <1>3, <1>6, SameNet, FaultsSame, JobMoves DEF SameSignals

LEMMA AssessStep == ASSUME IInv, NEW t \in Tasks, NEW a \in Tries, Assess(t, a) PROVE IInv'
<1>1. /\ TypeOK /\ job[t][a] = "assess"
      /\ UNCHANGED <<task, lead, inbox, handling, inflight, cache, helped, serving, reach, skipped,
                     late, faults>>
  BY DEF Assess, Step, IInv
<1>2. PICK y \in {"help", "report"} :
        /\ job' = [job EXCEPT ![t][a] = y]
        /\ UNCHANGED net \/ \E p \in Peers(t) : AskPeer(t, a, p)
  BY DEF Assess, Step
<1>3. y \in Active \ {"sent", "run"} /\ job[t][a] \in Active \ {"sent"} /\ y # "fail"
  BY <1>1 DEF Active
<1>4. net' \in SUBSET Messages /\ \A u \in Tasks : SameSignals(u)
  <2>1. CASE UNCHANGED net
    BY <1>1, <2>1, SameNet
  <2>2. ASSUME NEW p \in Peers(t), AskPeer(t, a, p)
        PROVE  net' \in SUBSET Messages /\ \A u \in Tasks : SameSignals(u)
    <3>1. PICK m \in Messages : m = [kind |-> "help", task |-> t, try |-> a, to |-> p]
      BY DEF Messages, Peers
    <3>2. m.kind \notin Signals /\ Send({m})
      BY <2>2, <3>1 DEF Signals, AskPeer
    <3>3. QED
      BY <1>1, <3>2, HelpSent DEF SameSignals
  <2>3. QED
    BY <1>2, <2>1, <2>2
<1>5. job' \in [Tasks -> [Tries -> Active \cup {"none", "done"}]]
  BY <1>1, <1>2, <1>3, JobTyped
<1>6. TypeOK'
  BY <1>1, <1>4, <1>5 DEF TypeOK, task
<1>7. QED
  BY <1>1, <1>2, <1>3, <1>4, <1>6, FaultsSame, JobMoves DEF SameSignals

LEMMA HelpTimeoutStep == ASSUME IInv, NEW t \in Tasks, NEW a \in Tries, HelpTimeout(t, a) PROVE IInv'
<1>1. /\ TypeOK /\ job[t][a] = "help" /\ job' = [job EXCEPT ![t][a] = "report"]
      /\ UNCHANGED <<task, lead, inbox, net, handling, inflight, cache, helped, serving, reach,
                     skipped, late, faults>>
  BY DEF HelpTimeout, Step, IInv
<1>3. "report" \in Active \ {"sent", "run"} /\ job[t][a] \in Active \ {"sent"}
  BY <1>1 DEF Active
<1>5. job' \in [Tasks -> [Tries -> Active \cup {"none", "done"}]]
  BY <1>1, <1>3, JobTyped
<1>6. TypeOK'
  BY <1>1, <1>5 DEF TypeOK, task
<1>7. QED
  BY <1>1, <1>3, <1>6, SameNet, FaultsSame, JobMoves DEF SameSignals

(* A behaviour reports, a result or a failure.                             *)
LEMMA JobReports ==
    ASSUME IInv, NEW t \in Tasks, NEW a \in Tries, job[t][a] \in {"report", "fail"},
           job' = [job EXCEPT ![t][a] = "sent"], TypeOK',
           UNCHANGED <<task, lead, inbox, handling, inflight, cache, reach, skipped, late>>,
           FaultsKept, \A u \in Tasks \ {t} : SameSignals(u),
           NEW ks \in SUBSET {"result", "failure", "refuse"},
           \A k \in Signals, b \in Tries : On(k, t, b)' => On(k, t, b) \/ (k \in ks /\ b = a),
           \A k \in Signals, b \in Tries : On(k, t, b) => On(k, t, b)',
           faults' = 0 => \/ job[t][a] = "report" /\ ks = {"result"} /\ On("result", t, a)'
                          \/ job[t][a] = "fail" /\ ks = {"failure", "refuse"} /\ On("failure", t, a)'
    PROVE  IInv'
<1>1. /\ TypeOK /\ HandlingSound /\ BaseSound(t)
      /\ job[t][a] # "none" /\ job[t][a] \notin Over /\ job[t][a] \in Active \ {"sent"}
      /\ "sent" \in Active /\ "sent" \in Over /\ "sent" # "run"
  BY DEF IInv, Active, Over
<1>2. /\ job'[t][a] = "sent" /\ \A b \in Tries \ {a} : job'[t][b] = job[t][b]
      /\ \A u \in Tasks \ {t} : job'[u] = job[u]
  BY <1>1, JobTyped
<1>3. \A u \in Tasks : /\ SameDoc(u) /\ SameLead(u) /\ SameInbox(u) /\ SameHandling(u) /\ SameMarks(u)
                       /\ cache'[u] = cache[u]
  BY DEF task, SameDoc, SameLead, SameInbox, SameHandling, SameMarks, At, Handled, AgreedTo
<1>4. \A u \in Tasks \ {t} : SameView(u)
  BY <1>2, <1>3 DEF SameView, SameJobs
<1>5. HandlingSound'
  BY <1>1 DEF HandlingSound
<1>6. \A b \in Tries : job[t][b] \in Active => b = a
  BY <1>1 DEF BaseSound, FlightSound
<1>7. BaseSound(t)'
  <2>1. LeadSound(t)'
    BY <1>1, <1>3 DEF BaseSound, LeadSound, Held, SameDoc, SameLead, Stages
  <2>2. TriesSound(t)'
    BY <1>1, <1>2, <1>3 DEF BaseSound, TriesSound, SameDoc, SameHandling
  <2>3. OnceSound(t)'
    BY <1>1, <1>2, <1>3 DEF BaseSound, OnceSound, SameHandling, Signals
  <2>4. FlightSound(t)'
    <3>1. t \in inflight'
      BY <1>1 DEF BaseSound, FlightSound
    <3>2. \A b \in Tries : job'[t][b] \in Active => b = a
      BY <1>2, <1>6
    <3>3. QED
      BY <1>1, <1>2, <3>1, <3>2 DEF FlightSound
  <2>5. RunSound(t)'
    BY <1>1, <1>2, <1>6 DEF RunSound, Active
  <2>6. QED
    BY <2>1, <2>2, <2>3, <2>4, <2>5 DEF BaseSound
<1>8. ASSUME faults' = 0 PROVE CalmSound(t)'
  <2>1. CalmSound(t)
    BY <1>8 DEF IInv, FaultsKept
  <2>2. Awaited(t)'
    BY <1>8 DEF Awaited
  <2>3. AckSound(t)'
    <3>1. state'[t] = "DISPATCHED" => Held(t)'
      BY <1>3, <2>1 DEF CalmSound, AckSound, Held, SameDoc, SameLead, Stages
    <3>2. ASSUME NEW b \in Tries, On("refuse", t, b)' PROVE job'[t][b] # "none"
      <4>1. b = a \/ On("refuse", t, b)
        BY <3>2 DEF Signals
      <4>2. QED
        BY <1>2, <2>1, <4>1 DEF CalmSound, AckSound
    <3>3. ASSUME NEW b \in Tries, At(t, "ack")', b = attempt'[t]
          PROVE  /\ job'[t][b] # "none" => On("agree", t, b)'
                 /\ AgreedTo(t, b)' => On("agree", t, b)'
      BY <1>1, <1>2, <1>3, <2>1, <3>3 DEF CalmSound, AckSound, SameDoc, SameLead, SameHandling,
         Stages, Signals
    <3>4. QED
      BY <3>1, <3>2, <3>3 DEF AckSound
  <2>4. \A b \in Tries : ~ (On("result", t, b) /\ On("failure", t, b))
    BY <2>1 DEF CalmSound, ReportSound
  <2>5. ~ On("result", t, a) /\ ~ On("failure", t, a)
    BY <1>1, <2>1 DEF CalmSound, ReportSound
  <2>6. ReportSound(t)'
    <3>1. ASSUME NEW b \in Tries, On("result", t, b)' \/ On("failure", t, b)'
          PROVE  job'[t][b] \in Over
      <4>1. b = a \/ On("result", t, b) \/ On("failure", t, b)
        BY <3>1 DEF Signals
      <4>2. QED
        BY <1>1, <1>2, <2>1, <4>1 DEF CalmSound, ReportSound
    <3>2. ASSUME NEW b \in Tries PROVE ~ (On("result", t, b)' /\ On("failure", t, b)')
      <4>1. "result" \notin ks \/ "failure" \notin ks
        BY <1>8
      <4>2. QED
        BY <2>4, <2>5, <4>1 DEF Signals
    <3>3. \A b \in Tries : job'[t][b] # "fail"
      BY <1>2, <1>6 DEF Active
    <3>4. QED
      BY <3>1, <3>2, <3>3 DEF ReportSound
  <2>7. ASSUME t \notin late' PROVE TimelySound(t)'
    <3>1. TimelySound(t) /\ ReportSound(t) /\ TriesSound(t)
      BY <1>1, <1>3, <2>1, <2>7 DEF CalmSound, BaseSound, SameMarks
    <3>2. inbox[t] = None /\ \A b \in Tries : ~ On("failure", t, b)
      BY <1>1, <3>1, PresentAttempt
    <3>3. ~ Closed(t, a)
      BY <1>1 DEF Closed
    <3>4. \A b \in Tries : Closed(t, b) => Closed(t, b)'
      BY <1>2, <1>3, <3>3 DEF Closed, SameHandling, Signals
    <3>5. InWork(t)' <=> InWork(t)
      BY <1>3 DEF InWork, SameDoc
    <3>6. ASSUME NEW b \in Tries, On("failure", t, b)' PROVE cache'[t] = "none"
      <4>1. "failure" \in ks
        BY <3>2, <3>6 DEF Signals
      <4>2. job[t][a] = "fail"
        BY <1>8, <4>1
      <4>3. QED
        BY <1>3, <3>1, <4>2 DEF ReportSound
    <3>7. QED
      BY <1>3, <3>1, <3>2, <3>4, <3>5, <3>6, NoneAssumption DEF TimelySound, SameDoc, SameLead,
         SameInbox, Stages
  <2>8. QED
    BY <2>2, <2>3, <2>6, <2>7 DEF CalmSound, PromiseSound
<1>9. QED
  BY <1>4, <1>5, <1>7, <1>8, OneMoves DEF FaultsKept

LEMMA ReportStep == ASSUME IInv, NEW t \in Tasks, NEW a \in Tries, Report(t, a) PROVE IInv'
<1>1. /\ TypeOK /\ job[t][a] = "report" /\ "result" \in Kinds /\ Signals \subseteq Kinds
      /\ UNCHANGED <<task, lead, inbox, handling, inflight, cache, helped, serving, reach, skipped, late>>
  BY SignalKinds DEF Report, Step, IInv, Kinds
<1>2. CASE Step(t, a, "report", "sent") /\ Send({Msg("result", t, a)}) /\ UNCHANGED faults
  <2>1. /\ net' \in SUBSET Messages
        /\ \A l \in Kinds, u \in Tasks, b \in Tries :
             On(l, u, b)' <=> On(l, u, b) \/ (l = "result" /\ u = t /\ b = a)
    BY <1>1, <1>2, Sending
  <2>2. "sent" \in Active
    BY DEF Active
  <2>3. job' = [job EXCEPT ![t][a] = "sent"]
    BY <1>2 DEF Step
  <2>4. job' \in [Tasks -> [Tries -> Active \cup {"none", "done"}]]
    BY <1>1, <2>2, <2>3, JobTyped
  <2>5. TypeOK'
    BY <1>1, <1>2, <2>1, <2>4 DEF TypeOK, task
  <2>6. PICK ks \in SUBSET {"result", "failure", "refuse"} : ks = {"result"}
    OBVIOUS
  <2>7. \A u \in Tasks \ {t} : SameSignals(u)
    BY <1>1, <2>1 DEF SameSignals
  <2>8. /\ \A k \in Signals, b \in Tries : On(k, t, b)' => On(k, t, b) \/ (k \in ks /\ b = a)
        /\ \A k \in Signals, b \in Tries : On(k, t, b) => On(k, t, b)'
        /\ On("result", t, a)'
    BY <1>1, <2>1, <2>6
  <2>9. QED
    BY <1>1, <1>2, <2>3, <2>5, <2>6, <2>7, <2>8, FaultsSame, JobReports
<1>3. CASE Step(t, a, "report", "fail") /\ SendRaises({Msg("result", t, a)})
  <2>1. /\ faults' = faults + 1 /\ faults' \in 0 .. MaxFaults
        /\ net' \in SUBSET Messages
        /\ \A l \in Kinds, u \in Tasks, b \in Tries :
             On(l, u, b)' => On(l, u, b) \/ (l \in {"result"} /\ u = t /\ b = a)
        /\ \A l \in Kinds, u \in Tasks, b \in Tries : On(l, u, b) => On(l, u, b)'
    <3>1. {Msg("result", t, a)} = {Msg(k, t, a) : k \in {"result"}}
      OBVIOUS
    <3>2. SendRaises({Msg(k, t, a) : k \in {"result"}})
      BY <1>3, <3>1
    <3>3. {"result"} \in SUBSET Kinds
      BY <1>1
    <3>4. QED
      BY <1>1, <3>2, <3>3, SendingRaises
  <2>2. "fail" \in Active \ {"sent", "run"} /\ job[t][a] \in Active \ {"sent"}
    BY <1>1 DEF Active
  <2>3. job' = [job EXCEPT ![t][a] = "fail"]
    BY <1>3 DEF Step
  <2>4. job' \in [Tasks -> [Tries -> Active \cup {"none", "done"}]]
    BY <1>1, <2>2, <2>3, JobTyped
  <2>5. TypeOK' /\ faults' # 0
    BY <1>1, <2>1, <2>4 DEF TypeOK, task
  <2>7. \A u \in Tasks \ {t} : SameSignals(u) /\ cache'[u] = cache[u]
    BY <1>1, <2>1 DEF SameSignals
  <2>8. \A k \in Signals, b \in Tries : On(k, t, b)' => On(k, t, b) \/ (k = "result" /\ b = a)
    BY <1>1, <2>1
  <2>9. QED
    BY <1>1, <2>2, <2>3, <2>5, <2>7, <2>8, JobMoves DEF FaultsKept
<1>4. QED
  BY <1>2, <1>3 DEF Report

LEMMA ReportFailureStep ==
    ASSUME IInv, NEW t \in Tasks, NEW a \in Tries, ReportFailure(t, a) PROVE IInv'
<1> DEFINE ms == {Msg("failure", t, a), Msg("refuse", t, a)}
<1>1. /\ TypeOK /\ job[t][a] = "fail" /\ Signals \subseteq Kinds
      /\ job' = [job EXCEPT ![t][a] = "sent"] /\ "sent" \in Active
      /\ "failure" \in Signals /\ "refuse" \in Signals
      /\ UNCHANGED <<task, lead, inbox, handling, inflight, cache, helped, serving, reach, skipped, late>>
      /\ (Send(ms) /\ UNCHANGED faults) \/ SendRaises(ms)
  BY SignalKinds DEF ReportFailure, Step, IInv, Active, Signals
<1>2. PICK ks \in SUBSET {"result", "failure", "refuse"} : ks = {"failure", "refuse"}
  OBVIOUS
<1>3. /\ net' \in SUBSET Messages /\ faults' \in 0 .. MaxFaults /\ FaultsKept
      /\ \A l \in Kinds, u \in Tasks, b \in Tries :
           On(l, u, b)' => On(l, u, b) \/ (l \in ks /\ u = t /\ b = a)
      /\ \A l \in Kinds, u \in Tasks, b \in Tries : On(l, u, b) => On(l, u, b)'
      /\ faults' = 0 => On("failure", t, a)'
  <2>1. CASE Send(ms) /\ UNCHANGED faults
    <3>1. net' = net \cup {Msg("failure", t, a), Msg("refuse", t, a)}
      BY <2>1 DEF Send
    <3>2. Msg("failure", t, a) \in Messages /\ Msg("refuse", t, a) \in Messages
      BY <1>1, MsgTyped
    <3>3. net' \in SUBSET Messages
      BY <1>1, <3>1, <3>2 DEF TypeOK
    <3>4. ASSUME NEW l \in Kinds, NEW u \in Tasks, NEW b \in Tries
          PROVE  /\ On(l, u, b)' => On(l, u, b) \/ (l \in ks /\ u = t /\ b = a)
                 /\ On(l, u, b) => On(l, u, b)'
      <4>1. Msg(l, u, b) = Msg("failure", t, a) => l = "failure" /\ u = t /\ b = a
        BY MsgInjective
      <4>2. Msg(l, u, b) = Msg("refuse", t, a) => l = "refuse" /\ u = t /\ b = a
        BY MsgInjective
      <4>3. QED
        BY <1>2, <3>1, <4>1, <4>2 DEF On
    <3>5. On("failure", t, a)'
      BY <3>1 DEF On
    <3>6. QED
      BY <1>1, <2>1, <3>3, <3>4, <3>5, FaultsSame
  <2>2. CASE SendRaises(ms)
    <3>1. ms = {Msg(k, t, a) : k \in {"failure", "refuse"}}
      OBVIOUS
    <3>2. SendRaises({Msg(k, t, a) : k \in {"failure", "refuse"}})
      BY <2>2, <3>1
    <3>3. {"failure", "refuse"} \in SUBSET Kinds
      BY <1>1
    <3>4. /\ faults' = faults + 1 /\ faults' \in 0 .. MaxFaults
          /\ net' \in SUBSET Messages
          /\ \A l \in Kinds, u \in Tasks, b \in Tries :
               On(l, u, b)' => On(l, u, b) \/ (l \in {"failure", "refuse"} /\ u = t /\ b = a)
          /\ \A l \in Kinds, u \in Tasks, b \in Tries : On(l, u, b) => On(l, u, b)'
      BY <1>1, <3>2, <3>3, SendingRaises
    <3>5. faults' # 0
      BY <1>1, <3>4 DEF TypeOK
    <3>6. QED
      BY <1>2, <3>4, <3>5 DEF FaultsKept
  <2>3. QED
    BY <1>1, <2>1, <2>2
<1>4. job' \in [Tasks -> [Tries -> Active \cup {"none", "done"}]]
  BY <1>1, JobTyped
<1>5. TypeOK'
  BY <1>1, <1>3, <1>4 DEF TypeOK, task
<1>6. \A u \in Tasks \ {t} : SameSignals(u)
  BY <1>1, <1>3 DEF SameSignals
<1>7. /\ \A k \in Signals, b \in Tries : On(k, t, b)' => On(k, t, b) \/ (k \in ks /\ b = a)
      /\ \A k \in Signals, b \in Tries : On(k, t, b) => On(k, t, b)'
  BY <1>1, <1>3
<1>8. QED
  BY <1>1, <1>2, <1>3, <1>5, <1>6, <1>7, JobReports

LEMMA EndStep == ASSUME IInv, NEW t \in Tasks, NEW a \in Tries, End(t, a) PROVE IInv'
<1>1. /\ TypeOK /\ HandlingSound /\ BaseSound(t) /\ job[t][a] = "sent"
      /\ job' = [job EXCEPT ![t][a] = "done"] /\ inflight' = inflight \ {t}
      /\ "sent" \in Active /\ "done" \notin Active /\ "sent" \in Over /\ "done" \in Over
      /\ UNCHANGED <<task, lead, inbox, net, handling, cache, helped, serving, reach, skipped, late, faults>>
  BY DEF End, Step, IInv, Active, Over
<1>2. /\ job' \in [Tasks -> [Tries -> Active \cup {"none", "done"}]]
      /\ job'[t][a] = "done" /\ \A b \in Tries \ {a} : job'[t][b] = job[t][b]
      /\ \A u \in Tasks \ {t} : job'[u] = job[u]
  BY <1>1, JobTyped
<1>3. \A u \in Tasks : /\ SameDoc(u) /\ SameLead(u) /\ SameInbox(u) /\ SameHandling(u) /\ SameMarks(u)
                       /\ cache'[u] = cache[u] /\ SameSignals(u)
  BY <1>1 DEF task, SameDoc, SameLead, SameInbox, SameHandling, SameMarks, SameSignals, At, Handled,
     AgreedTo, On
<1>4. \A u \in Tasks \ {t} : SameView(u)
  BY <1>1, <1>2, <1>3 DEF SameView, SameJobs
<1>5. HandlingSound'
  BY <1>1 DEF HandlingSound
<1>6. TypeOK'
  BY <1>1, <1>2 DEF TypeOK, task
<1>7. \A b \in Tries : job'[t][b] \notin Active
  BY <1>1, <1>2 DEF BaseSound, FlightSound
<1>8. BaseSound(t)'
  <2>1. LeadSound(t)'
    BY <1>1, <1>3 DEF BaseSound, LeadSound, Held, SameDoc, SameLead, Stages
  <2>2. TriesSound(t)'
    BY <1>1, <1>2, <1>3 DEF BaseSound, TriesSound, SameDoc, SameHandling, SameSignals
  <2>3. OnceSound(t)'
    BY <1>1, <1>2, <1>3 DEF BaseSound, OnceSound, SameHandling, SameSignals, Signals
  <2>4. FlightSound(t)' /\ RunSound(t)'
    BY <1>1, <1>7 DEF FlightSound, RunSound, Active
  <2>5. QED
    BY <2>1, <2>2, <2>3, <2>4 DEF BaseSound
<1>9. ASSUME faults' = 0 PROVE CalmSound(t)'
  <2>1. CalmSound(t)
    BY <1>1, <1>9 DEF IInv
  <2>2. PromiseSound(t)'
    <3>1. Promised(t)' => Promised(t)
      BY <1>3 DEF Promised, SameDoc, SameLead, SameSignals, Signals, Stages
    <3>2. \A b \in Tries : job[t][b] \in Active \ {"sent"} => b # a
      BY <1>1
    <3>3. Awaited(t) => Awaited(t)'
      BY <1>1, <1>2, <1>3 DEF Awaited, SameInbox, SameSignals, SameHandling, Signals,
         BaseSound, FlightSound
    <3>4. QED
      BY <1>3, <2>1, <3>1, <3>3 DEF CalmSound, PromiseSound, SameMarks
  <2>3. AckSound(t)'
    BY <1>1, <1>2, <1>3, <2>1 DEF CalmSound, AckSound, Held, SameDoc, SameLead, SameHandling,
       SameSignals, Stages, Signals
  <2>4. ReportSound(t)'
    BY <1>1, <1>2, <1>3, <2>1 DEF CalmSound, ReportSound, SameSignals, Signals
  <2>5. ASSUME t \notin late' PROVE TimelySound(t)'
    <3>1. TimelySound(t)
      BY <1>3, <2>1, <2>5 DEF CalmSound, SameMarks
    <3>2. \A b \in Tries : job[t][b] \in Over => job'[t][b] \in Over
      BY <1>1, <1>2
    <3>3. \A b \in Tries : Closed(t, b) => Closed(t, b)'
      BY <1>3, <3>2 DEF Closed, SameHandling, SameSignals, Signals
    <3>4. InWork(t)' <=> InWork(t)
      BY <1>3 DEF InWork, SameDoc
    <3>5. QED
      BY <1>3, <3>1, <3>2, <3>3, <3>4 DEF TimelySound, SameDoc, SameLead, SameInbox,
         SameSignals, Signals, Stages
  <2>6. QED
    BY <2>2, <2>3, <2>4, <2>5 DEF CalmSound
<1>10. QED
  BY <1>1, <1>4, <1>5, <1>6, <1>8, <1>9, OneMoves

-----------------------------------------------------------------------------
(* Peer help and the health probe.                                         *)

LEMMA HelpedStep == ASSUME IInv, NEW m \in net, Helped(m) PROVE IInv'
<1>1. /\ TypeOK /\ HandlingSound /\ m.kind \in {"answer", "no answer"} /\ net' = net \ {m}
      /\ m.kind # "help" /\ m.kind \notin Signals
      /\ UNCHANGED <<task, lead, inbox, handling, inflight, helped, serving, reach, skipped, late, faults>>
  BY DEF Helped, IInv, Signals
<1>2. /\ net' \in SUBSET Messages /\ m.task \in Tasks /\ m.try \in Tries
      /\ \A l \in Signals, u \in Tasks, b \in Tries : On(l, u, b)' <=> On(l, u, b)
  BY <1>1, HelpTaken, Taking
<1>3. PICK t \in Tasks : t = m.task
  BY <1>2
<1>4. PICK a \in Tries : a = m.try
  BY <1>2
<1>5. \A u \in Tasks : SameSignals(u)
  BY <1>2 DEF SameSignals
<1>6. CASE Step(m.task, m.try, "help", "report") /\ Fold(m)
  <2>1. job[t][a] = "help" /\ job' = [job EXCEPT ![t][a] = "report"]
    BY <1>3, <1>4, <1>6 DEF Step
  <2>2. PICK r \in {"none", "open", "closed"} : cache' = [cache EXCEPT ![t] = r]
    <3>1. cache[t] \in {"none", "open", "closed"}
      BY <1>1 DEF TypeOK
    <3>2. QED
      BY <1>3, <1>6, <3>1 DEF Fold
  <2>3. "report" \in Active \ {"sent", "run"} /\ job[t][a] \in Active \ {"sent"}
    BY <2>1 DEF Active
  <2>4. job' \in [Tasks -> [Tries -> Active \cup {"none", "done"}]]
    BY <1>1, <2>1, <2>3, JobTyped
  <2>5. TypeOK' /\ \A u \in Tasks \ {t} : cache'[u] = cache[u]
    BY <1>1, <1>2, <2>2, <2>4 DEF TypeOK, task
  <2>6. QED
    BY <1>1, <1>5, <2>1, <2>3, <2>5, FaultsSame, JobMoves DEF SameSignals
<1>7. CASE UNCHANGED <<job, cache>>
  <2>1. TypeOK'
    BY <1>1, <1>2, <1>7 DEF TypeOK, task
  <2>2. \A u \in Tasks : SameView(u)
    BY <1>1, <1>5, <1>7 DEF SameView, SameDoc, SameLead, SameInbox, SameHandling, SameJobs, SameMarks,
       task, At, Handled, AgreedTo
  <2>3. HandlingSound'
    BY <1>1 DEF HandlingSound
  <2>4. QED
    BY <1>1, <2>1, <2>2, <2>3, NobodyMoves
<1>8. QED
  BY <1>6, <1>7 DEF Helped

LEMMA ServeStep == ASSUME IInv, NEW m \in net, Serve(m) PROVE IInv'
<1>1. /\ TypeOK /\ HandlingSound /\ m.kind = "help" /\ m.kind \notin Signals /\ net' = net \ {m}
      /\ reach' = reach \cup {m.to}
      /\ serving' = [serving EXCEPT ![m.to] = [task |-> m.task, try |-> m.try]]
      /\ UNCHANGED <<task, lead, inbox, handling, agent, skipped, late, faults>>
  BY DEF Serve, Reached, IInv, Signals
<1>2. /\ net' \in SUBSET Messages /\ m.task \in Tasks /\ m.try \in Tries /\ m.to \in Specialists
      /\ \A u \in Tasks : SameSignals(u)
  <2>1. m \in Messages
    BY <1>1 DEF TypeOK
  <2>2. QED
    BY <1>1, <2>1, HelpTaken, HelpShape DEF SameSignals
<1>3. serving' \in [Specialists -> [task : Tasks, try : Tries] \cup {None}]
  <2>1. [task |-> m.task, try |-> m.try] \in [task : Tasks, try : Tries]
    BY <1>2
  <2>2. QED
    BY <1>1, <2>1 DEF TypeOK
<1>4. TypeOK'
  BY <1>1, <1>2, <1>3 DEF TypeOK, task, agent
<1>5. \A u \in Tasks : SameView(u)
  BY <1>1, <1>2 DEF SameView, SameDoc, SameLead, SameInbox, SameHandling, SameJobs, SameMarks,
     task, agent, At, Handled, AgreedTo
<1>6. HandlingSound' /\ (reach = Specialists => reach' = Specialists)
  BY <1>1, <1>2 DEF HandlingSound
<1>7. QED
  BY <1>1, <1>4, <1>5, <1>6, NobodyMoves

LEMMA AnswerStep == ASSUME IInv, NEW p \in Specialists, Answer(p) PROVE IInv'
<1>1. /\ TypeOK /\ HandlingSound /\ serving[p] # None
      /\ serving' = [serving EXCEPT ![p] = None]
      /\ UNCHANGED <<task, lead, inbox, handling, agent, reach, skipped, late, faults>>
  BY DEF Answer, IInv
<1>2. PICK kind \in {"answer", "no answer"} :
        Send({Msg(kind, serving[p].task, serving[p].try)})
  BY DEF Answer
<1>3. serving[p].task \in Tasks /\ serving[p].try \in Tries
  BY <1>1 DEF TypeOK
<1>4. net' \in SUBSET Messages /\ \A u \in Tasks : SameSignals(u)
  <2>1. kind \in Kinds /\ kind \notin Signals
    BY DEF Kinds, Signals
  <2>2. PICK m \in Messages : m = Msg(kind, serving[p].task, serving[p].try)
    BY <1>3, <2>1, MsgTyped
  <2>3. Send({m}) /\ m.kind = kind
    BY <1>2, <2>2 DEF Msg
  <2>4. QED
    BY <1>1, <2>1, <2>3, HelpSent DEF SameSignals
<1>5. TypeOK'
  BY <1>1, <1>4 DEF TypeOK, task, agent
<1>6. \A u \in Tasks : SameView(u)
  BY <1>1, <1>4 DEF SameView, SameDoc, SameLead, SameInbox, SameHandling, SameJobs, SameMarks,
     task, agent, At, Handled, AgreedTo
<1>7. HandlingSound'
  BY <1>1 DEF HandlingSound
<1>8. QED
  BY <1>1, <1>5, <1>6, <1>7, NobodyMoves

LEMMA ProbeStep == ASSUME IInv, NEW s \in Specialists, Probe(s) PROVE IInv'
<1>1. /\ TypeOK /\ HandlingSound /\ reach' \in SUBSET Specialists
      /\ UNCHANGED <<task, lead, inbox, net, handling, agent, serving, skipped, late>>
      /\ \/ Fault
         \/ UNCHANGED faults /\ s \notin reach /\ reach' = reach \cup {s}
  BY DEF Probe, IInv, Reached, Unreached, TypeOK
<1>2. faults' \in 0 .. MaxFaults /\ FaultsKept
  BY <1>1, FaultCounts, FaultsSame DEF FaultsKept
<1>3. faults' = 0 => faults = 0 /\ (reach = Specialists => reach' = Specialists)
  BY <1>1, <1>2, FaultCounts DEF FaultsKept
<1>4. TypeOK'
  BY <1>1, <1>2 DEF TypeOK, task, agent
<1>5. \A u \in Tasks : SameView(u)
  BY <1>1 DEF SameView, SameDoc, SameLead, SameInbox, SameHandling, SameJobs, SameMarks, SameSignals,
     task, agent, At, Handled, AgreedTo, On
<1>6. HandlingSound'
  BY <1>1 DEF HandlingSound
<1>7. QED
  BY <1>1, <1>3, <1>4, <1>5, <1>6, NobodyMoves

-----------------------------------------------------------------------------
(* The invariant.                                                          *)

LEMMA InitIInv == Init => IInv
<1> SUFFICES ASSUME Init PROVE IInv
  OBVIOUS
<1>1. \A t \in Tasks : /\ state[t] = "ABSENT" /\ attempt[t] = 0 /\ inbox[t] = None
                       /\ cache[t] = "none" /\ \A a \in Tries : job[t][a] = "none"
  BY DEF Init
<1>2. \A s \in Specialists : handling[s] = None
  BY DEF Init
<1>3. TypeOK
  <2>1. job \in [Tasks -> [Tries -> Active \cup {"none", "done"}]]
    BY DEF Init
  <2>2. attempt \in [Tasks -> 0 .. MaxAttempts] /\ 0 \in 0 .. MaxFaults
    BY BoundsAssumption DEF Init
  <2>3. QED
    BY <2>1, <2>2 DEF Init, TypeOK
<1>4. HandlingSound
  BY <1>2 DEF HandlingSound
<1>5. ASSUME NEW t \in Tasks
      PROVE  /\ \A ss \in Stages : ~ At(t, ss)
             /\ \A k, a : ~ On(k, t, a)
             /\ \A a \in Tries : ~ Handled(t, a) /\ ~ AgreedTo(t, a)
  <2>1. lead = None /\ net = {}
    BY DEF Init
  <2>2. QED
    BY <1>2, <2>1, NobodyHolds, OwnerAssumption DEF On, Handled, AgreedTo
<1>6. ASSUME NEW t \in Tasks PROVE BaseSound(t)
  <2>1. LeadSound(t)
    BY <1>1, <1>5 DEF LeadSound, Held, Stages
  <2>2. TriesSound(t) /\ OnceSound(t) /\ RunSound(t)
    BY <1>1, <1>5 DEF TriesSound, OnceSound, RunSound
  <2>3. FlightSound(t)
    BY <1>1 DEF FlightSound, Active, Init
  <2>4. QED
    BY <2>1, <2>2, <2>3 DEF BaseSound
<1>7. ASSUME NEW t \in Tasks PROVE CalmSound(t)
  <2>1. PromiseSound(t) /\ AckSound(t) /\ ReportSound(t)
    BY <1>1, <1>5 DEF PromiseSound, Promised, AckSound, ReportSound, Stages
  <2>2. TimelySound(t)
    <3>1. \A a \in Tries : ~ (a < attempt[t] \/ a = attempt[t])
      BY <1>1, BoundsAssumption DEF Tries
    <3>2. QED
      BY <1>1, <1>5, <3>1, NoneAssumption DEF TimelySound, Stages
  <2>3. QED
    BY <2>1, <2>2 DEF CalmSound
<1>8. reach = Specialists
  BY DEF Init
<1>9. QED
  BY <1>3, <1>4, <1>6, <1>7, <1>8 DEF IInv

LEMMA StutterStep == ASSUME IInv, UNCHANGED vars PROVE IInv'
<1>1. TypeOK' /\ HandlingSound' /\ reach' = reach /\ faults' = faults
  BY DEF IInv, TypeOK, HandlingSound, vars
<1>2. \A u \in Tasks : SameView(u)
  BY DEF vars, SameView, SameDoc, SameLead, SameInbox, SameHandling, SameJobs, SameMarks,
     SameSignals, At, Handled, AgreedTo, On
<1>3. QED
  BY <1>1, <1>2, NobodyMoves

LEMMA Inductive == IInv /\ [Next]_vars => IInv'
<1> SUFFICES ASSUME IInv, [Next]_vars PROVE IInv'
  OBVIOUS
<1>1. CASE LeadStep
  <2>1. PICK t \in Tasks : \/ Open(t) \/ Dispatch(t) \/ AckTimeout(t) \/ MarkUndelivered(t)
                           \/ MarkRunning(t) \/ MarkUncertain(t) \/ Collect(t) \/ Leave(t)
    BY <1>1 DEF LeadStep
  <2>2. QED
    BY <2>1, OpenStep, DispatchStep, AckTimeoutStep, MarkUndeliveredStep, MarkRunningStep,
       MarkUncertainStep, CollectStep, LeaveStep
<1>2. CASE \E m \in net : Deliver(m) \/ Lose(m)
  <2>1. PICK m \in net : \/ Acknowledge(m) \/ Receive(m) \/ Deliberate(m) \/ Helped(m) \/ Serve(m)
                         \/ Lose(m)
    BY <1>2 DEF Deliver
  <2>2. QED
    BY <2>1, AcknowledgeStep, ReceiveStep, DeliberateStep, HelpedStep, ServeStep, LoseStep
<1>3. CASE \E s \in Specialists : Agree(s) \/ Reject(s) \/ Start(s) \/ Answer(s) \/ Probe(s)
  BY <1>3, AgreeStep, RejectStep, StartStep, AnswerStep, ProbeStep
<1>4. CASE \E t \in Tasks, a \in Tries : JobStep(t, a)
  <2>1. PICK t \in Tasks, a \in Tries : JobStep(t, a)
    BY <1>4
  <2>2. QED
    BY <2>1, InvestigateStep, ConsultStep, AssessStep, HelpTimeoutStep, ReportStep,
       ReportFailureStep, EndStep DEF JobStep
<1>5. CASE UNCHANGED vars
  BY <1>5, StutterStep
<1>6. QED
  BY <1>1, <1>2, <1>3, <1>4, <1>5 DEF Next

LEMMA Invariance == Spec => []IInv
BY InitIInv, Inductive, PTL DEF Spec

-----------------------------------------------------------------------------
(* The theorems.                                                           *)

(* No specialist ever works on a task twice at a time, with any number of  *)
(* redeliveries, timeouts and faults.                                      *)
THEOREM NobodyWorksTwice == Spec => []NoDoubleInvestigation
<1>1. IInv => NoDoubleInvestigation
  <2> SUFFICES ASSUME IInv, NEW t \in Tasks
               PROVE  Cardinality({a \in Tries : job[t][a] \in Active}) <= 1
    BY DEF NoDoubleInvestigation
  <2> DEFINE busy == {a \in Tries : job[t][a] \in Active}
  <2>1. \A a, b \in busy : a = b
    BY DEF IInv, BaseSound, FlightSound
  <2> HIDE DEF busy
  <2>2. CASE busy = {}
    BY <2>2, FS_EmptySet DEF busy
  <2>3. CASE busy # {}
    <3>1. PICK a : a \in busy
      BY <2>3
    <3>2. busy = {a}
      BY <2>1, <3>1
    <3>3. Cardinality(busy) = 1
      BY <3>2, FS_Singleton
    <3>4. QED
      BY <3>3 DEF busy
  <2>4. QED
    BY <2>2, <2>3
<1>2. QED
  BY <1>1, Invariance, PTL

(* While nothing has failed, a RUNNING task has its outcome on its way,    *)
(* unless its start was skipped.                                           *)
THEOREM NothingIsAwaitedInVain == Spec => []OutcomesArrive
<1>1. ASSUME IInv PROVE OutcomesArrive
  <2>1. TypeOK
    BY <1>1 DEF IInv
  <2>2. ASSUME NEW t \in Tasks, state[t] = "RUNNING", faults = 0, t \notin skipped
        PROVE  Driven(t)
    <3>1. Awaited(t)
      BY <1>1, <2>2 DEF IInv, CalmSound, PromiseSound, Promised
    <3>2. ASSUME NEW a \in Tries, NEW k \in {"result", "failure"}, On(k, t, a)
          PROVE  \E m \in net : m.kind \in {"result", "failure"} /\ m.task = t
      <4>1. Msg(k, t, a).kind = k /\ Msg(k, t, a).task = t
        BY DEF Msg
      <4>2. QED
        BY <3>2, <4>1 DEF On
    <3>3. ASSUME NEW a \in Tries, Handled(t, a)
          PROVE  handling[Owner[t]] # None /\ handling[Owner[t]].task = t
      BY <3>3 DEF Handled
    <3>4. QED
      BY <3>1, <3>2, <3>3 DEF Awaited, Driven
  <2>3. QED
    BY <2>1, <2>2 DEF OutcomesArrive, RunningIsDriven
<1>2. QED
  BY <1>1, Invariance, PTL

(* The steps that may change the document of a task are those of its turn. *)
LEMMA DocumentSteps ==
    ASSUME IInv, [Next]_vars, ~ UNCHANGED task
    PROVE  \E t \in Tasks : \/ Open(t) \/ Dispatch(t) \/ MarkUndelivered(t) \/ MarkRunning(t)
                            \/ MarkUncertain(t) \/ Collect(t)
<1>1. \A m \in net : ~ Deliver(m) /\ ~ Lose(m)
  BY DEF Deliver, Lose, Acknowledge, Receive, Deliberate, Helped, Serve
<1>2. \A s \in Specialists : ~ (Agree(s) \/ Reject(s) \/ Start(s) \/ Answer(s) \/ Probe(s))
  BY DEF Agree, Reject, Start, Answer, Probe
<1>3. \A t \in Tasks, a \in Tries : ~ JobStep(t, a)
  BY DEF JobStep, Investigate, Consult, Assess, HelpTimeout, Report, ReportFailure, End
<1>4. ~ UNCHANGED vars
  BY DEF vars, task
<1>5. \A t \in Tasks : ~ AckTimeout(t) /\ ~ Leave(t)
  BY DEF AckTimeout, Leave
<1>6. QED
  BY <1>1, <1>2, <1>3, <1>4, <1>5 DEF Next, LeadStep

(* Delivery over lost, late and repeated messages implements the task      *)
(* that consumes an attempt per dispatch and ends for good.                *)
THEOREM Refinement == Spec => ImplementsLifecycle
<1> USE DEF Lifecycle!Move, Lifecycle!Waiting, Lifecycle!InFlight
<1>1. Init => Lifecycle!Init
  BY DEF Init, Lifecycle!Init
<1>2. IInv /\ [Next]_vars => [Lifecycle!Next]_(Lifecycle!vars)
  <2> SUFFICES ASSUME IInv, [Next]_vars, ~ UNCHANGED task
               PROVE  Lifecycle!Next \/ UNCHANGED task
    BY DEF task, Lifecycle!vars
  <2>1. PICK t \in Tasks : \/ Open(t) \/ Dispatch(t) \/ MarkUndelivered(t) \/ MarkRunning(t)
                           \/ MarkUncertain(t) \/ Collect(t)
    BY DocumentSteps
  <2>2. LeadSound(t) /\ TypeOK
    BY DEF IInv, BaseSound
  <2>3. ASSUME state[t] \in {"DISPATCHED", "RUNNING"}, FailAttempt(t) PROVE Lifecycle!Next
    <3>1. Lifecycle!Retry(t) \/ Lifecycle!Fail(t)
      BY <2>2, <2>3 DEF FailAttempt, Move, Lifecycle!Retry, Lifecycle!Fail
    <3>2. QED
      BY <3>1 DEF Lifecycle!Next
  <2>4. CASE Open(t)
    <3>1. CASE state[t] = "ABSENT"
      <4>1. attempt[t] = 0 /\ attempt' = attempt /\ attempt \in [Tasks -> 0 .. MaxAttempts]
        BY <2>2, <2>4, <3>1 DEF LeadSound, Open, TypeOK
      <4>2. attempt' = [attempt EXCEPT ![t] = 0]
        BY <4>1
      <4>3. Lifecycle!Create(t)
        BY <2>4, <3>1, <4>2 DEF Open, Move, Lifecycle!Create
      <4>4. QED
        BY <4>3 DEF Lifecycle!Next
    <3>2. CASE state[t] # "ABSENT"
      BY <2>2, <2>4, <3>2 DEF Open, Move, TypeOK, task
    <3>3. QED
      BY <3>1, <3>2
  <2>5. CASE Dispatch(t)
    <3>1. Lifecycle!Dispatch(t)
      BY <2>2, <2>5 DEF Dispatch, Move, LeadSound, Lifecycle!Dispatch
    <3>2. QED
      BY <3>1 DEF Lifecycle!Next
  <2>6. CASE MarkUndelivered(t)
    BY <2>2, <2>3, <2>6 DEF MarkUndelivered, LeadSound, Held
  <2>7. CASE MarkRunning(t)
    <3>1. Lifecycle!Accept(t)
      BY <2>2, <2>7 DEF MarkRunning, Move, LeadSound, Held, Lifecycle!Accept
    <3>2. QED
      BY <3>1 DEF Lifecycle!Next
  <2>8. CASE MarkUncertain(t)
    BY <2>3, <2>8 DEF MarkUncertain
  <2>9. CASE Collect(t)
    <3>1. CASE FailAttempt(t)
      BY <2>3, <2>9, <3>1 DEF Collect
    <3>2. CASE Move(t, "COMPLETED") /\ UNCHANGED attempt
      <4>1. Lifecycle!Complete(t)
        BY <2>9, <3>2 DEF Collect, Move, Lifecycle!Complete
      <4>2. QED
        BY <4>1 DEF Lifecycle!Next
    <3>3. QED
      BY <2>9, <3>1, <3>2 DEF Collect, Outcome
  <2>10. QED
    BY <2>1, <2>4, <2>5, <2>6, <2>7, <2>8, <2>9
<1>3. QED
  BY <1>1, <1>2, Invariance, PTL DEF Spec, ImplementsLifecycle, Lifecycle!Spec

(* Without a fault and with no agreement late, a task that is given up     *)
(* never had a result.                                                     *)
THEOREM EvidenceIsKept == Spec => EvidenceNotLost
<1> DEFINE Kept == \A t \in Tasks : state[t] # "FAILED" /\ state'[t] = "FAILED" /\ faults' = 0
                                    /\ t \notin late => cache[t] = "none"
<1>1. IInv /\ [Next]_vars => Kept
  <2> SUFFICES ASSUME IInv, [Next]_vars, NEW t \in Tasks, state[t] # "FAILED", state'[t] = "FAILED",
                      faults' = 0, t \notin late
               PROVE  cache[t] = "none"
    OBVIOUS
  <2>1. PICK u \in Tasks : \/ Open(u) \/ Dispatch(u) \/ MarkUndelivered(u) \/ MarkRunning(u)
                           \/ MarkUncertain(u) \/ Collect(u)
    BY DocumentSteps DEF task
  <2>2. TypeOK /\ (faults = 0 => CalmSound(t)) /\ state = [v \in Tasks |-> state[v]]
    BY DEF IInv, TypeOK, Terminal
  <2>3. CASE Open(u) \/ Dispatch(u) \/ MarkRunning(u)
    BY <2>2, <2>3 DEF Open, Dispatch, MarkRunning, Move, Terminal
  <2>4. CASE MarkUndelivered(u)
    <3>1. u = t /\ faults = 0 /\ At(t, "refused")
      BY <2>2, <2>4 DEF MarkUndelivered, FailAttempt, Move
    <3>2. QED
      BY <2>2, <3>1 DEF CalmSound, TimelySound
  <2>5. CASE MarkUncertain(u)
    <3>1. u = t /\ faults = 0 /\ At(t, "poll") /\ state[t] = "DISPATCHED"
      BY <2>2, <2>5 DEF MarkUncertain, FailAttempt, Move
    <3>2. Held(t)
      BY <2>2, <3>1 DEF CalmSound, AckSound
    <3>3. QED
      BY <3>1, <3>2, TurnHeld DEF Held, Stages
  <2>6. CASE Collect(u)
    <3>1. u = t
      BY <2>2, <2>6 DEF Collect, Outcome, FailAttempt, Move
    <3>2. inbox[t] = "failure" /\ faults = 0
      BY <2>2, <2>6, <3>1, FaultCounts DEF Collect, Outcome, Move
    <3>3. QED
      BY <2>2, <3>2 DEF CalmSound, TimelySound
  <2>7. QED
    BY <2>1, <2>3, <2>4, <2>5, <2>6
<1>2. QED
  BY <1>1, Invariance, PTL DEF Spec, EvidenceNotLost

(* No behaviour is set to investigate a task that has a result.            *)
THEOREM NothingIsRedone == Spec => NoRework
<1> DEFINE Fresh == \A t \in Tasks, a \in Tries :
                      cache[t] # "none" /\ job'[t][a] = "run" => job[t][a] = "run"
<1>1. IInv /\ [Next]_vars => Fresh
  <2> SUFFICES ASSUME IInv, [Next]_vars, NEW t \in Tasks, NEW a \in Tries, cache[t] # "none",
                      job'[t][a] = "run", job[t][a] # "run"
               PROVE  FALSE
    OBVIOUS
  <2>1. TypeOK /\ job \in [Tasks -> [Tries -> Active \cup {"none", "done"}]]
    BY DEF IInv, TypeOK
  <2>2. ASSUME NEW u \in Tasks, NEW b \in Tries, NEW y \in Active \cup {"none", "done"}, y # "run",
               job' = [job EXCEPT ![u][b] = y]
        PROVE  FALSE
    <3>1. /\ job'[u][b] = y /\ \A c \in Tries \ {b} : job'[u][c] = job[u][c]
          /\ \A v \in Tasks \ {u} : job'[v] = job[v]
      BY <2>1, <2>2, JobTyped
    <3>2. QED
      BY <2>2, <3>1
  <2>3. ~ LeadStep
    BY DEF LeadStep, Open, Dispatch, AckTimeout, MarkUndelivered, MarkRunning, MarkUncertain, Collect,
       Leave, agent
  <2>4. ASSUME NEW m \in net PROVE ~ Deliver(m) /\ ~ Lose(m)
    <3>1. ~ Acknowledge(m) /\ ~ Receive(m) /\ ~ Deliberate(m) /\ ~ Serve(m) /\ ~ Lose(m)
      BY DEF Acknowledge, Receive, Deliberate, Serve, Lose, agent
    <3>2. ~ Helped(m)
      <4>1. SUFFICES ASSUME Helped(m) PROVE FALSE
        OBVIOUS
      <4>2. m.kind # "help"
        BY <4>1 DEF Helped
      <4>3. m.task \in Tasks /\ m.try \in Tries
        BY <2>1, <4>2, MsgShape DEF TypeOK
      <4>4. job' = [job EXCEPT ![m.task][m.try] = "report"]
        BY <4>1 DEF Helped, Step
      <4>5. QED
        BY <2>2, <4>3, <4>4 DEF Active
    <3>3. QED
      BY <3>1, <3>2 DEF Deliver
  <2>5. ASSUME NEW s \in Specialists PROVE ~ (Agree(s) \/ Reject(s) \/ Answer(s) \/ Probe(s) \/ Start(s))
    <3>1. ~ (Agree(s) \/ Reject(s) \/ Answer(s) \/ Probe(s))
      BY DEF Agree, Reject, Answer, Probe, agent
    <3>2. ~ Start(s)
      <4>1. SUFFICES ASSUME Start(s) PROVE FALSE
        OBVIOUS
      <4>2. handling[s] # None /\ HandlingSound
        BY <4>1 DEF Start, IInv
      <4>3. handling[s].task \in Tasks /\ handling[s].try \in Tries
        BY <2>1, <4>2, HandledBy
      <4>4. job' = [job EXCEPT ![handling[s].task][handling[s].try] =
                        IF cache[handling[s].task] = "none" THEN "run" ELSE "consult"]
        BY <4>1 DEF Start
      <4>5. handling[s].task = t
        BY <2>1, <4>3, <4>4
      <4>6. job' = [job EXCEPT ![t][handling[s].try] = "consult"]
        BY <4>4, <4>5
      <4>7. QED
        BY <2>2, <4>3, <4>6 DEF Active
    <3>3. QED
      BY <3>1, <3>2
  <2>6. ASSUME NEW u \in Tasks, NEW b \in Tries PROVE ~ JobStep(u, b)
    <3>1. SUFFICES ASSUME JobStep(u, b) PROVE FALSE
      OBVIOUS
    <3>2. \E y \in {"consult", "fail", "assess", "report", "help", "sent", "done"} :
             job' = [job EXCEPT ![u][b] = y]
      BY <3>1 DEF JobStep, Investigate, Consult, Assess, HelpTimeout, Report, ReportFailure, End, Step
    <3>3. QED
      BY <2>2, <3>2 DEF Active
  <2>7. ~ UNCHANGED vars
    BY DEF vars
  <2>8. QED
    BY <2>3, <2>4, <2>5, <2>6, <2>7 DEF Next
<1>2. QED
  BY <1>1, Invariance, PTL DEF Spec, NoRework

=============================================================================
