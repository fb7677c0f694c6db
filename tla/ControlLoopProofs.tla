------------------------- MODULE ControlLoopProofs -------------------------
(***************************************************************************)
(* Proofs about ControlLoop for all times that satisfy MarginAssumption,   *)
(* any number of cycles and attempts and any size of the inbox.            *)
(***************************************************************************)
EXTENDS ControlLoop, TLAPS

(* What later cycles of a review may still take.                           *)
Span(k) == (Cycles - k) * (ActionTimeout + RetryDelay)

(* The longest that the command under execution can still take.            *)
Rest(w) == IF w.kind # "review" THEN w.left
           ELSE IF w.acting THEN w.left + Span(w.cycle)
           ELSE w.left + Span(w.cycle) - RetryDelay

(* Only a review pauses, and another cycle follows; taking charge is done  *)
(* at once.                                                                *)
WorkSound ==
    work # None => /\ ~ work.acting => work.kind = "review" /\ work.cycle < Cycles
                   /\ work.kind = "assign" => work.left = 0

Dead == work # None => ~ work.live

(* An abandoned command is over before the next assignment times out, and  *)
(* none is left when an investigation begins.                              *)
DeadEndsSoon ==
    work # None /\ ~ work.live =>
      Rest(work) < AssignTimeout /\ stage \notin {"investigate", "review"}

Putting ==
    /\ sub.at = "put" /\ sub.left = TimeoutOf(stage) /\ queue = <<>> /\ Dead

(* Its command waits behind an abandoned one, which has cost and will cost *)
(* less than an assignment waits.                                          *)
Waiting ==
    /\ sub.at = "wait" /\ queue = <<[kind |-> stage, live |-> TRUE]>> /\ Dead
    /\ sub.left - (IF work = None THEN 0 ELSE Rest(work)) > TimeoutOf(stage) - AssignTimeout
    /\ stage = "review" => sub.left = ReviewTimeout

Served ==
    /\ sub.at = "wait" /\ queue = <<>>
    /\ work # None /\ work.live /\ work.kind = stage
    /\ Rest(work) - sub.left < AssignTimeout
    /\ stage = "assign" => sub.left > 0

(* Without exceptions and restarts.                                        *)
Timely ==
    /\ left \subseteq {"triage"}
    /\ DeadEndsSoon
    /\ sub = None => queue = <<>> /\ Dead
    /\ sub # None => Putting \/ Waiting \/ Served

IInv == /\ TypeOK
        /\ sub # None <=> stage \in Kinds
        /\ WorkSound
        /\ faults = 0 => Timely

USE BoundsAssumption

-----------------------------------------------------------------------------
(* Arithmetic of the remaining time.                                       *)

LEMMA SpanFacts ==
    ASSUME NEW k \in 1 .. Cycles
    PROVE  /\ Span(k) \in Nat
           /\ k = Cycles => Span(k) = 0
           /\ k < Cycles => Span(k) = Span(k + 1) + ActionTimeout + RetryDelay
<1>1. (Cycles - k) \in Nat /\ ActionTimeout + RetryDelay \in Nat
  OBVIOUS
<1>2. Span(k) \in Nat
  BY <1>1 DEF Span
<1>3. k = Cycles => Span(k) = 0
  BY DEF Span
<1>4. Cycles - k = (Cycles - (k + 1)) + 1
  OBVIOUS
<1>5. Span(k) = Span(k + 1) + ActionTimeout + RetryDelay
  BY <1>1, <1>4 DEF Span
<1>6. QED
  BY <1>2, <1>3, <1>5

LEMMA LongestIsFirst == ActionTimeout + Span(1) = Longest
  BY DEF Span, Longest

LEMMA TimeoutFacts ==
    ASSUME NEW k \in Kinds
    PROVE  TimeoutOf(k) \in Nat /\ TimeoutOf(k) > 0
  BY DEF TimeoutOf, Kinds

LEMMA RestFacts ==
    ASSUME NEW w \in Works, ~ w.acting => w.kind = "review" /\ w.cycle < Cycles
    PROVE  /\ Rest(w) \in Nat
           /\ w.kind # "review" => Rest(w) = w.left
           /\ w.kind = "review" /\ w.cycle < Cycles => Rest(w) >= ActionTimeout
<1>1. w.cycle \in 1 .. Cycles /\ w.left \in Nat
  BY DEF Works
<1>2. Span(w.cycle) \in Nat
  BY <1>1, SpanFacts
<1>3. ASSUME w.cycle < Cycles
      PROVE  Span(w.cycle) >= ActionTimeout + RetryDelay
  <2>1. w.cycle + 1 \in 1 .. Cycles
    BY <1>1, <1>3
  <2>2. Span(w.cycle + 1) \in Nat
    BY <2>1, SpanFacts
  <2>3. QED
    BY <1>1, <1>3, <2>2, SpanFacts
<1>4. QED
  BY <1>1, <1>2, <1>3 DEF Rest

(* A second less to go.                                                    *)
LEMMA RestTicks ==
    ASSUME NEW w \in Works, w.left > 0
    PROVE  /\ [w EXCEPT !.left = @ - 1] \in Works
           /\ Rest([w EXCEPT !.left = @ - 1]) = Rest(w) - 1
<1>1. w.cycle \in 1 .. Cycles /\ w.left \in Nat
  BY DEF Works
<1>2. Span(w.cycle) \in Nat
  BY <1>1, SpanFacts
<1> DEFINE v == [w EXCEPT !.left = @ - 1]
<1>3. /\ v \in Works
      /\ v.kind = w.kind /\ v.cycle = w.cycle /\ v.acting = w.acting /\ v.left = w.left - 1
  BY <1>1 DEF Works
<1> HIDE DEF v
<1>4. Rest(v) = Rest(w) - 1
  BY <1>1, <1>2, <1>3 DEF Rest
<1>5. QED
  BY <1>3, <1>4 DEF v

-----------------------------------------------------------------------------
LEMMA InitIInv == Init => IInv
<1> SUFFICES ASSUME Init PROVE IInv
  OBVIOUS
<1>1. TypeOK
  BY DEF Init, TypeOK
<1>2. QED
  BY <1>1 DEF Init, IInv, Kinds, WorkSound, Timely, DeadEndsSoon, Dead

-----------------------------------------------------------------------------
(* The coordinator's steps.                                                *)

LEMMA NoneIsNoWait ==
    ASSUME NEW x \in Waits PROVE x # None
  BY NoneAssumption

LEMMA NoneIsNoWork ==
    ASSUME NEW x \in Works PROVE x # None
  BY NoneAssumption

(* Entering a stage: a submission of its own, or none.                     *)
LEMMA EnterFacts ==
    ASSUME NEW s \in Kinds \cup {"idle", "investigate"}, Enter(s)
    PROVE  /\ stage' = s
           /\ s \in Kinds => sub' \in Waits /\ sub' # None
                             /\ sub'.at = "put" /\ sub'.left = TimeoutOf(s)
           /\ s \notin Kinds => sub' = None
<1>1. s \in Kinds => [at |-> "put", left |-> TimeoutOf(s)] \in Waits
  BY TimeoutFacts DEF Waits
<1>2. QED
  BY <1>1, NoneIsNoWait DEF Enter, Submit

(* The next stage begins while the Technical Lead is free of live work.    *)
LEMMA EnterStep ==
    ASSUME IInv, NEW s \in Kinds \cup {"idle", "investigate"}, Enter(s),
           left' \in SUBSET {"triage", "investigate"},
           queue' \in Seq(Commands), Len(queue') <= InboxMax,
           work' \in Works \cup {None}, WorkSound', faults' \in 0 .. MaxFaults,
           faults' = 0 =>
             /\ left' \subseteq {"triage"}
             /\ queue' = <<>> /\ Dead'
             /\ work' # None => Rest(work') < AssignTimeout
                                /\ s \notin {"investigate", "review"}
    PROVE  IInv'
<1>1. /\ stage' = s
      /\ s \in Kinds => sub' \in Waits /\ sub' # None
                        /\ sub'.at = "put" /\ sub'.left = TimeoutOf(s)
      /\ s \notin Kinds => sub' = None
  BY EnterFacts
<1>2. TypeOK'
  BY <1>1 DEF TypeOK
<1>3. sub' # None <=> stage' \in Kinds
  BY <1>1
<1>4. ASSUME faults' = 0 PROVE Timely'
  <2>1. sub' # None => Putting'
    BY <1>1, <1>3, <1>4 DEF Putting, TimeoutOf
  <2>2. DeadEndsSoon'
    BY <1>1, <1>4 DEF DeadEndsSoon
  <2>3. QED
    BY <1>4, <2>1, <2>2 DEF Timely
<1>5. QED
  BY <1>2, <1>3, <1>4 DEF IInv

LEMMA BeginStep ==
    ASSUME IInv, NEW s \in {"assign", "triage", "investigate"}, Begin(s)
    PROVE  IInv'
<1>1. /\ stage = "idle" /\ s \in left \cup {"assign"} /\ Enter(s) /\ left' = left \ {s}
      /\ UNCHANGED <<queue, work, faults>>
  BY DEF Begin
<1>2. sub = None
  BY <1>1 DEF IInv, Kinds
<1>3. ASSUME faults = 0
      PROVE  /\ left' \subseteq {"triage"} /\ queue = <<>> /\ Dead
             /\ work # None => Rest(work) < AssignTimeout
             /\ s \notin {"investigate", "review"}
  BY <1>1, <1>2, <1>3 DEF IInv, Timely, DeadEndsSoon, Dead
<1>4. WorkSound' /\ (Dead => Dead')
  BY <1>1 DEF IInv, WorkSound, Dead
<1>5. left' \in SUBSET {"triage", "investigate"} /\ queue' \in Seq(Commands)
      /\ Len(queue') <= InboxMax /\ work' \in Works \cup {None} /\ faults' \in 0 .. MaxFaults
  BY <1>1 DEF IInv, TypeOK
<1>6. QED
  BY <1>1, <1>3, <1>4, <1>5, EnterStep DEF Kinds

LEMMA PutStep ==
    ASSUME IInv, Put
    PROVE  IInv'
<1> DEFINE c == [kind |-> stage, live |-> TRUE]
           w == [at |-> "wait", left |-> TimeoutOf(stage)]
<1>1. /\ sub # None /\ sub.at = "put" /\ Len(queue) < InboxMax
      /\ sub' = w /\ queue' = Append(queue, c) /\ UNCHANGED <<stage, left, work, faults>>
  BY DEF Put, HasRoom
<1>2. stage \in Kinds /\ c \in Commands /\ w \in Waits /\ w # None
  BY <1>1, TimeoutFacts, NoneIsNoWait DEF IInv, Commands, Waits
<1>3. TypeOK'
  BY <1>1, <1>2 DEF IInv, TypeOK
<1>4. ASSUME faults = 0 PROVE Timely'
  <2>1. queue = <<>> /\ Dead
    BY <1>1, <1>4 DEF IInv, Timely, Putting, Waiting, Served
  <2>2. queue' = <<c>>
    BY <1>1, <2>1
  <2>3. work # None => Rest(work) \in Nat /\ Rest(work) < AssignTimeout /\ stage # "review"
    BY <1>4, <2>1, RestFacts DEF IInv, TypeOK, WorkSound, Timely, DeadEndsSoon, Dead
  <2>4. TimeoutOf(stage) \in Nat
    BY <1>2, TimeoutFacts
  <2>5. Waiting'
    <3>1. sub'.at = "wait" /\ sub'.left = TimeoutOf(stage) /\ stage' = stage /\ work' = work
      BY <1>1
    <3>2. queue' = <<[kind |-> stage', live |-> TRUE]>> /\ Dead'
      BY <2>1, <2>2, <3>1 DEF Dead
    <3>3. sub'.left - (IF work' = None THEN 0 ELSE Rest(work')) > TimeoutOf(stage') - AssignTimeout
      BY <2>3, <2>4, <3>1
    <3>4. stage' = "review" => sub'.left = ReviewTimeout
      BY <3>1 DEF TimeoutOf
    <3>5. QED
      BY <3>1, <3>2, <3>3, <3>4 DEF Waiting
  <2>6. DeadEndsSoon'
    BY <1>1, <1>4 DEF IInv, Timely, DeadEndsSoon
  <2>7. QED
    BY <1>1, <1>2, <1>4, <2>5, <2>6 DEF IInv, Timely
<1>5. WorkSound' /\ (sub' # None <=> stage' \in Kinds)
  BY <1>1, <1>2 DEF IInv, WorkSound
<1>6. QED
  BY <1>1, <1>3, <1>4, <1>5 DEF IInv

(* A submission runs out only while its command is executed.               *)
LEMMA OutOfTime ==
    ASSUME IInv, faults = 0, sub # None, sub.left = 0
    PROVE  Served /\ stage # "assign" /\ work \in Works /\ sub \in Waits
<1>1. sub \in Waits /\ sub.left \in Nat /\ stage \in Kinds /\ (Putting \/ Waiting \/ Served)
  BY DEF IInv, TypeOK, Waits, Timely
<1>2. ~ Putting
  BY <1>1, TimeoutFacts DEF Putting
<1>3. ~ Waiting
  <2> SUFFICES ASSUME Waiting PROVE FALSE
    OBVIOUS
  <2>1. TimeoutOf(stage) >= AssignTimeout \/ stage = "review"
    BY <1>1, MarginAssumption DEF TimeoutOf, Kinds
  <2>2. stage # "review"
    BY DEF Waiting
  <2>3. work # None => Rest(work) \in Nat
    BY RestFacts DEF IInv, TypeOK, WorkSound
  <2>4. TimeoutOf(stage) \in Nat
    BY <1>1, TimeoutFacts
  <2>5. QED
    BY <2>1, <2>2, <2>3, <2>4 DEF Waiting
<1>4. QED
  BY <1>1, <1>2, <1>3 DEF Served, IInv, TypeOK

LEMMA AbandonedFacts ==
    ASSUME NEW q \in Seq(Commands)
    PROVE  /\ Abandoned(q) \in Seq(Commands) /\ Len(Abandoned(q)) = Len(q)
           /\ q = <<>> => Abandoned(q) = <<>>
<1> DEFINE f == [n \in 1 .. Len(q) |-> [q[n] EXCEPT !.live = FALSE]]
<1>1. Len(q) \in Nat /\ \A n \in 1 .. Len(q) : q[n] \in Commands
  OBVIOUS
<1>2. \A n \in 1 .. Len(q) : [q[n] EXCEPT !.live = FALSE] \in Commands
  BY <1>1 DEF Commands
<1>3. f \in [1 .. Len(q) -> Commands]
  BY <1>2
<1>4. f \in Seq(Commands) /\ Len(f) = Len(q)
  BY <1>1, <1>3
<1>5. Abandoned(q) = f
  BY DEF Abandoned
<1> HIDE DEF f
<1>6. QED
  BY <1>4, <1>5

(* The work goes on, and nobody waits for it.                              *)
LEMMA LeaveWork ==
    ASSUME NEW w \in Works, ~ w.acting => w.kind = "review" /\ w.cycle < Cycles
    PROVE  LET v == [w EXCEPT !.live = FALSE] IN
           /\ v \in Works /\ v # None /\ Rest(v) = Rest(w) /\ ~ v.live
           /\ v.kind = w.kind /\ v.cycle = w.cycle /\ v.acting = w.acting /\ v.left = w.left
<1> DEFINE v == [w EXCEPT !.live = FALSE]
<1>1. v \in Works /\ ~ v.live
      /\ v.kind = w.kind /\ v.cycle = w.cycle /\ v.acting = w.acting /\ v.left = w.left
  BY DEF Works
<1> HIDE DEF v
<1>2. Rest(v) = Rest(w) /\ v # None
  BY <1>1, NoneIsNoWork DEF Rest
<1>3. QED
  BY <1>1, <1>2 DEF v

LEMMA GiveUpStep ==
    ASSUME IInv, GiveUp
    PROVE  IInv'
<1>1. /\ sub # None /\ sub.left = 0 /\ After(FALSE) /\ faults' = faults
      /\ queue' = Abandoned(queue)
      /\ work' = IF work = None THEN None ELSE [work EXCEPT !.live = FALSE]
  BY DEF GiveUp
<1>2. Enter("idle") /\ (left' = left \/ left' = left \cup {"triage"})
  BY <1>1 DEF After
<1>3. left' \in SUBSET {"triage", "investigate"} /\ (left \subseteq {"triage"} => left' \subseteq {"triage"})
  BY <1>2 DEF IInv, TypeOK
<1>4. queue' \in Seq(Commands) /\ Len(queue') <= InboxMax /\ (queue = <<>> => queue' = <<>>)
  BY <1>1, AbandonedFacts DEF IInv, TypeOK
<1>5. work' \in Works \cup {None} /\ WorkSound' /\ Dead'
      /\ (work # None => Rest(work') = Rest(work))
  <2>1. CASE work = None
    BY <1>1, <2>1 DEF WorkSound, Dead
  <2>2. CASE work # None
    <3>1. work \in Works /\ (~ work.acting => work.kind = "review" /\ work.cycle < Cycles)
      BY <2>2 DEF IInv, TypeOK, WorkSound
    <3>2. /\ work' \in Works /\ Rest(work') = Rest(work) /\ ~ work'.live
          /\ work'.kind = work.kind /\ work'.cycle = work.cycle
          /\ work'.acting = work.acting /\ work'.left = work.left
      BY <1>1, <2>2, <3>1, LeaveWork
    <3>3. QED
      BY <2>2, <3>2 DEF IInv, WorkSound, Dead
  <2>3. QED
    BY <2>1, <2>2
<1>6. ASSUME faults = 0
      PROVE  queue = <<>> /\ left \subseteq {"triage"} /\ work # None /\ Rest(work) < AssignTimeout
  <2>1. Served /\ work \in Works
    BY <1>1, <1>6, OutOfTime
  <2>2. Rest(work) \in Nat
    BY <2>1, RestFacts, NoneIsNoWork DEF IInv, WorkSound
  <2>3. QED
    BY <1>1, <1>6, <2>1, <2>2 DEF Served, IInv, Timely
<1>7. QED
  BY <1>1, <1>2, <1>3, <1>4, <1>5, <1>6, EnterStep DEF IInv, TypeOK

LEMMA InvestigatedStep ==
    ASSUME IInv, Investigated
    PROVE  IInv'
<1>1. PICK s \in {"review", "idle"} : Enter(s)
  BY DEF Investigated
<1>2. stage = "investigate" /\ UNCHANGED <<left, queue, work, faults>> /\ sub = None
  BY DEF Investigated, IInv, Kinds
<1>3. faults = 0 => left \subseteq {"triage"} /\ queue = <<>> /\ Dead /\ work = None
  BY <1>2 DEF IInv, Timely, DeadEndsSoon, Dead
<1>4. WorkSound' /\ (Dead => Dead')
  BY <1>2 DEF IInv, WorkSound, Dead
<1>5. /\ left' \in SUBSET {"triage", "investigate"} /\ queue' \in Seq(Commands)
      /\ Len(queue') <= InboxMax /\ work' \in Works \cup {None} /\ faults' \in 0 .. MaxFaults
  BY <1>2 DEF IInv, TypeOK
<1>6. QED
  BY <1>1, <1>2, <1>3, <1>4, <1>5, EnterStep DEF Kinds

(* An exception or a restart: nothing more is promised than types.         *)
LEMMA FaultStep ==
    ASSUME IInv, Release \/ Restart
    PROVE  IInv'
<1>1. Fault /\ Enter("idle")
  BY DEF Release, Restart
<1>2. faults' \in 0 .. MaxFaults /\ faults' # 0
  BY <1>1 DEF Fault, IInv, TypeOK
<1>3. /\ left \in SUBSET {"triage", "investigate"} /\ queue \in Seq(Commands)
      /\ Len(queue) <= InboxMax /\ work \in Works \cup {None} /\ WorkSound
  BY DEF IInv, TypeOK
<1>4. CASE Release
  <2>1. left' = left \cup {"investigate"} /\ queue' = queue /\ work' = work
    BY <1>4 DEF Release
  <2>2. left' \in SUBSET {"triage", "investigate"} /\ WorkSound'
    BY <1>3, <2>1 DEF WorkSound
  <2>3. QED
    BY <1>1, <1>2, <1>3, <2>1, <2>2, EnterStep DEF Kinds
<1>5. CASE Restart
  <2>1. left' \in SUBSET {"triage", "investigate"} /\ queue' = <<>> /\ work' = None
    BY <1>5 DEF Restart
  <2>2. queue' \in Seq(Commands) /\ Len(queue') <= InboxMax /\ WorkSound'
    BY <2>1 DEF WorkSound
  <2>3. QED
    BY <1>1, <1>2, <2>1, <2>2, EnterStep DEF Kinds
<1>6. QED
  BY <1>4, <1>5

-----------------------------------------------------------------------------
(* The steps of the Technical Lead.                                        *)

LEMMA TakeStep ==
    ASSUME IInv, Take
    PROVE  IInv'
<1> DEFINE kind == Head(queue).kind
           w == [kind |-> kind, live |-> Head(queue).live, cycle |-> 1, try |-> 1,
                 acting |-> TRUE, left |-> ActionTime(kind)]
<1>1. /\ work = None /\ queue # <<>> /\ queue' = Tail(queue) /\ work' = w
      /\ UNCHANGED <<stage, left, sub, faults>>
  BY DEF Take
<1>2. Head(queue) \in Commands /\ Tail(queue) \in Seq(Commands) /\ Len(Tail(queue)) <= InboxMax
  BY <1>1 DEF IInv, TypeOK
<1>3. /\ kind \in Kinds /\ Head(queue).live \in BOOLEAN /\ ActionTime(kind) \in Nat
      /\ kind = "assign" => ActionTime(kind) = 0
      /\ kind # "assign" => ActionTime(kind) = ActionTimeout
  BY <1>2 DEF Commands, ActionTime
<1>4. w \in Works /\ w # None
  <2>1. 1 \in 1 .. Cycles /\ 1 \in 1 .. Attempts /\ TRUE \in BOOLEAN
    OBVIOUS
  <2> HIDE DEF kind
  <2>2. w \in Works
    BY <1>3, <2>1 DEF Works
  <2>3. QED
    BY <2>2, NoneIsNoWork
<1>5. TypeOK' /\ WorkSound'
  BY <1>1, <1>2, <1>3, <1>4 DEF IInv, TypeOK, WorkSound
<1>6. ASSUME faults = 0 PROVE Timely'
  <2>1. sub # None /\ Waiting /\ sub \in Waits /\ stage \in Kinds
    BY <1>1, <1>6 DEF IInv, Timely, Putting, Waiting, Served, TypeOK
  <2>2. queue' = <<>> /\ kind = stage /\ w.live /\ w.kind = stage
    BY <1>1, <2>1 DEF Waiting
  <2>3. /\ sub.left \in Nat /\ sub.left > TimeoutOf(stage) - AssignTimeout
        /\ stage = "review" => sub.left = ReviewTimeout
    BY <1>1, <2>1 DEF Waiting, Waits
  <2>4. Rest(w) = IF stage = "review" THEN Longest ELSE ActionTime(stage)
    BY <2>2, LongestIsFirst, <1>3 DEF Rest
  <2>5. Rest(w) - sub.left < AssignTimeout
    <3>1. CASE stage = "assign"
      BY <1>3, <2>2, <2>3, <2>4, <3>1
    <3>2. CASE stage = "triage"
      <4>1. Rest(w) = ActionTimeout /\ sub.left > TriageTimeout - AssignTimeout
        BY <1>3, <2>2, <2>3, <2>4, <3>2 DEF TimeoutOf
      <4>2. QED
        BY <2>3, <4>1, MarginAssumption
    <3>3. CASE stage = "review"
      <4>1. Longest \in Int
        BY DEF Longest
      <4>2. QED
        BY <2>3, <2>4, <3>3, <4>1, MarginAssumption
    <3>4. QED
      BY <2>1, <3>1, <3>2, <3>3 DEF Kinds
  <2>6. stage = "assign" => sub.left > 0
    BY <2>3 DEF TimeoutOf
  <2>7. Served'
    BY <1>1, <1>4, <2>1, <2>2, <2>5, <2>6 DEF Served, Waiting
  <2>8. DeadEndsSoon'
    BY <1>1, <2>2 DEF DeadEndsSoon
  <2>9. QED
    BY <1>1, <1>6, <2>1, <2>7, <2>8 DEF IInv, Timely
<1>7. QED
  BY <1>1, <1>5, <1>6 DEF IInv

(* A command that nobody waits for ends without a trace; a live one lets   *)
(* the coordinator go on.                                                  *)
LEMMA FinishStep ==
    ASSUME IInv, NEW ok \in BOOLEAN, work # None, Finish(ok)
    PROVE  IInv'
<1>1. work' = None /\ UNCHANGED <<queue, faults>>
  BY DEF Finish
<1>2. WorkSound' /\ Dead'
  BY <1>1 DEF WorkSound, Dead
<1>3. CASE work.live
  <2>1. After(ok)
    BY <1>3 DEF Finish
  <2>2. PICK s \in {"idle", "triage", "investigate"} : Enter(s)
    BY <2>1 DEF After
  <2>3. left' = left \/ left' = left \cup {"triage"}
    BY <2>1 DEF After
  <2>4. ASSUME faults = 0 PROVE queue = <<>> /\ left \subseteq {"triage"}
    BY <1>3, <2>4 DEF IInv, Timely, Putting, Waiting, Served, Dead
  <2>5. /\ left' \in SUBSET {"triage", "investigate"} /\ queue' \in Seq(Commands)
        /\ Len(queue') <= InboxMax /\ work' \in Works \cup {None} /\ faults' \in 0 .. MaxFaults
    BY <1>1, <2>3 DEF IInv, TypeOK
  <2>6. QED
    BY <1>1, <1>2, <2>2, <2>3, <2>4, <2>5, EnterStep DEF Kinds
<1>4. CASE ~ work.live
  <2>1. UNCHANGED <<stage, left, sub>>
    BY <1>4 DEF Finish
  <2>2. TypeOK'
    BY <1>1, <2>1 DEF IInv, TypeOK
  <2>3. Rest(work) \in Nat
    BY RestFacts DEF IInv, TypeOK, WorkSound
  <2>4. ASSUME faults = 0 PROVE Timely'
    <3>1. DeadEndsSoon' /\ left' \subseteq {"triage"}
      BY <1>1, <2>1, <2>4 DEF DeadEndsSoon, IInv, Timely
    <3>2. CASE sub = None
      BY <1>1, <1>2, <2>1, <2>4, <3>1, <3>2 DEF IInv, Timely
    <3>3. CASE sub # None /\ Putting
      BY <1>1, <1>2, <2>1, <3>1, <3>3 DEF Timely, Putting, TimeoutOf
    <3>4. CASE sub # None /\ Waiting
      <4>1. TimeoutOf(stage) \in Nat /\ sub.left \in Nat
        BY <3>4, TimeoutFacts DEF IInv, TypeOK, Waits
      <4>2. sub.left > TimeoutOf(stage) - AssignTimeout
        BY <2>3, <3>4, <4>1 DEF Waiting
      <4>3. TimeoutOf(stage') = TimeoutOf(stage)
        BY <2>1
      <4>4. Waiting'
        <5>1. sub' = sub /\ stage' = stage /\ queue' = queue /\ work' = None
          BY <1>1, <2>1
        <5>2. sub'.left - (IF work' = None THEN 0 ELSE Rest(work'))
                > TimeoutOf(stage') - AssignTimeout
          BY <4>1, <4>2, <4>3, <5>1
        <5>3. QED
          BY <1>2, <3>4, <5>1, <5>2 DEF Waiting
      <4>5. QED
        BY <2>1, <3>1, <3>4, <4>4 DEF Timely
    <3>5. QED
      BY <1>4, <2>4, <3>2, <3>3, <3>4 DEF IInv, Timely, Served
  <2>5. QED
    BY <1>1, <1>2, <2>1, <2>2, <2>4 DEF IInv
<1>5. QED
  BY <1>3, <1>4

(* A command goes on, and its rest is what it was.                         *)
LEMMA WorkStep ==
    ASSUME IInv, work # None, UNCHANGED <<stage, left, sub, queue, faults>>,
           work' \in Works, WorkSound',
           work'.kind = work.kind, work'.live = work.live, Rest(work') = Rest(work)
    PROVE  IInv'
<1>1. TypeOK' /\ (sub' # None <=> stage' \in Kinds)
  BY DEF IInv, TypeOK
<1>2. work' # None /\ (Dead => Dead')
  BY NoneIsNoWork DEF Dead
<1>3. ASSUME faults = 0 PROVE Timely'
  <2>1. DeadEndsSoon' /\ left' \subseteq {"triage"} /\ (sub' = None => queue' = <<>> /\ Dead')
    BY <1>2, <1>3 DEF IInv, Timely, DeadEndsSoon
  <2>2. CASE sub # None /\ Putting
    <3>1. Putting'
      BY <1>2, <2>2 DEF Putting, TimeoutOf
    <3>2. QED
      BY <1>3, <2>1, <3>1 DEF Timely
  <2>3. CASE sub # None /\ Waiting
    <3>1. TimeoutOf(stage') = TimeoutOf(stage)
      OBVIOUS
    <3>2. sub'.left - (IF work' = None THEN 0 ELSE Rest(work')) > TimeoutOf(stage') - AssignTimeout
      BY <1>2, <2>3, <3>1 DEF Waiting
    <3>3. Waiting'
      BY <1>2, <2>3, <3>2 DEF Waiting
    <3>4. QED
      BY <1>3, <2>1, <3>3 DEF Timely
  <2>4. CASE sub # None /\ Served
    <3>1. Rest(work') - sub'.left < AssignTimeout
      BY <2>4 DEF Served
    <3>2. Served'
      BY <1>2, <2>4, <3>1 DEF Served
    <3>3. QED
      BY <1>3, <2>1, <3>2 DEF Timely
  <2>5. CASE sub = None
    BY <1>3, <2>1, <2>5 DEF Timely
  <2>6. QED
    BY <1>3, <2>2, <2>3, <2>4, <2>5 DEF IInv, Timely
<1>4. QED
  BY <1>1, <1>3 DEF IInv

LEMMA LeadStep ==
    ASSUME IInv, \/ TakeInCharge \/ TriageCommits \/ TriageFails \/ ReviewCommits
                 \/ ReviewRejected \/ CycleFails \/ NextCycle
    PROVE  IInv'
<1>1. work # None /\ work \in Works
  BY DEF TakeInCharge, TriageCommits, TriageFails, ReviewCommits, Committed, ReviewRejected,
         CycleFails, NextCycle, Doing, IInv, TypeOK
<1>2. work.cycle \in 1 .. Cycles /\ work.try \in 1 .. Attempts /\ work.left \in Nat
  BY <1>1 DEF Works
<1>3. CASE \E ok \in BOOLEAN : Finish(ok)
  BY <1>1, <1>3, FinishStep
<1>4. CASE /\ Doing("review") /\ work.try < Attempts /\ work' = [work EXCEPT !.try = @ + 1]
           /\ UNCHANGED <<stage, left, sub, queue, faults>>
  <2>1. work.try + 1 \in 1 .. Attempts
    BY <1>2, <1>4
  <2>2. /\ work' \in Works
        /\ work'.kind = work.kind /\ work'.live = work.live /\ work'.cycle = work.cycle
        /\ work'.acting = work.acting /\ work'.left = work.left
    BY <1>1, <1>4, <2>1 DEF Works
  <2>3. Rest(work') = Rest(work)
    BY <2>2 DEF Rest
  <2>4. WorkSound'
    BY <1>1, <2>2 DEF IInv, WorkSound
  <2>5. QED
    BY <1>1, <1>4, <2>2, <2>3, <2>4, WorkStep
<1>5. CASE /\ Doing("review") /\ work.left = 0 /\ work.cycle < Cycles
           /\ work' = [work EXCEPT !.acting = FALSE, !.left = RetryDelay]
           /\ UNCHANGED <<stage, left, sub, queue, faults>>
  <2>1. /\ work' \in Works
        /\ work'.kind = "review" /\ work.kind = "review" /\ work'.live = work.live
        /\ work'.cycle = work.cycle
        /\ work.acting /\ ~ work'.acting /\ work'.left = RetryDelay
    BY <1>1, <1>5 DEF Works, Doing
  <2>2. Span(work.cycle) \in Nat
    BY <1>2, SpanFacts
  <2>3. Rest(work') = Rest(work)
    BY <1>5, <2>1, <2>2 DEF Rest
  <2>4. WorkSound'
    BY <1>5, <2>1 DEF WorkSound
  <2>5. QED
    BY <1>1, <1>5, <2>1, <2>3, <2>4, WorkStep
<1>6. CASE NextCycle
  <2>1. work.kind = "review" /\ work.cycle < Cycles /\ ~ work.acting /\ work.left = 0
    BY <1>1, <1>6 DEF NextCycle, IInv, WorkSound
  <2>2. work.cycle + 1 \in 1 .. Cycles /\ 1 \in 1 .. Attempts
    BY <1>2, <2>1
  <2>3. work' = [work EXCEPT !.acting = TRUE, !.cycle = work.cycle + 1, !.try = 1,
                             !.left = ActionTimeout]
    BY <1>6 DEF NextCycle
  <2>4. /\ work' \in Works /\ work'.kind = "review" /\ work'.live = work.live
        /\ work'.cycle = work.cycle + 1 /\ work'.acting /\ work'.left = ActionTimeout
    BY <1>1, <2>1, <2>2, <2>3 DEF Works
  <2>5. Span(work.cycle) = Span(work.cycle + 1) + ActionTimeout + RetryDelay
        /\ Span(work.cycle + 1) \in Nat
    BY <1>2, <2>1, <2>2, SpanFacts
  <2>6. Rest(work') = Rest(work)
    BY <2>1, <2>4, <2>5 DEF Rest
  <2>7. WorkSound'
    BY <2>4 DEF WorkSound
  <2>8. QED
    BY <1>1, <1>6, <2>1, <2>4, <2>6, <2>7, WorkStep DEF NextCycle
<1>7. QED
  BY <1>3, <1>4, <1>5, <1>6 DEF TakeInCharge, TriageCommits, TriageFails, ReviewCommits,
                                 Committed, ReviewRejected, CycleFails

LEMMA TickStep ==
    ASSUME IInv, Tick
    PROVE  IInv'
<1>1. /\ sub # None => sub.left > 0 /\ ~ (sub.at = "put" /\ HasRoom)
      /\ IF work = None THEN queue = <<>> ELSE work.left > 0
      /\ sub' = IF sub = None THEN None ELSE [sub EXCEPT !.left = @ - 1]
      /\ work' = IF work = None THEN None ELSE [work EXCEPT !.left = @ - 1]
      /\ UNCHANGED <<stage, left, queue, faults>>
  BY DEF Tick
<1>2. sub # None => /\ sub \in Waits /\ sub.left \in Nat
                    /\ sub' \in Waits /\ sub' # None
                    /\ sub'.at = sub.at /\ sub'.left = sub.left - 1
  <2> SUFFICES ASSUME sub # None
               PROVE  /\ sub \in Waits /\ sub.left \in Nat
                      /\ sub' \in Waits /\ sub' # None
                      /\ sub'.at = sub.at /\ sub'.left = sub.left - 1
    OBVIOUS
  <2>1. sub \in Waits /\ sub.left \in Nat
    BY DEF IInv, TypeOK, Waits
  <2>2. sub.left - 1 \in Nat /\ sub' = [sub EXCEPT !.left = @ - 1]
    BY <1>1, <2>1
  <2>3. sub' \in Waits /\ sub'.at = sub.at /\ sub'.left = sub.left - 1
    BY <2>1, <2>2 DEF Waits
  <2>4. QED
    BY <2>1, <2>3, NoneIsNoWait
<1>3. work # None => /\ work \in Works /\ Rest(work) \in Nat
                     /\ work' \in Works /\ work' # None /\ Rest(work') = Rest(work) - 1
                     /\ work'.kind = work.kind /\ work'.live = work.live
                     /\ work'.cycle = work.cycle /\ work'.acting = work.acting
                     /\ work.kind # "assign"
  <2> SUFFICES ASSUME work # None
               PROVE  /\ work \in Works /\ Rest(work) \in Nat
                      /\ work' \in Works /\ work' # None /\ Rest(work') = Rest(work) - 1
                      /\ work'.kind = work.kind /\ work'.live = work.live
                      /\ work'.cycle = work.cycle /\ work'.acting = work.acting
                      /\ work.kind # "assign"
    OBVIOUS
  <2>1. work \in Works /\ Rest(work) \in Nat /\ work.left > 0
    BY <1>1, RestFacts DEF IInv, TypeOK, WorkSound
  <2>2. work' = [work EXCEPT !.left = @ - 1]
    BY <1>1
  <2>3. work' \in Works /\ Rest(work') = Rest(work) - 1
    BY <2>1, <2>2, RestTicks
  <2>4. /\ work'.kind = work.kind /\ work'.live = work.live
        /\ work'.cycle = work.cycle /\ work'.acting = work.acting
    BY <2>1, <2>2 DEF Works
  <2>5. work.kind # "assign"
    BY <2>1 DEF IInv, WorkSound
  <2>6. QED
    BY <2>1, <2>3, <2>4, <2>5, NoneIsNoWork
<1>4. TypeOK' /\ (sub' # None <=> stage' \in Kinds)
  BY <1>1, <1>2, <1>3 DEF IInv, TypeOK
<1>5. WorkSound' /\ (Dead => Dead')
  BY <1>1, <1>3 DEF IInv, WorkSound, Dead
<1>6. ASSUME faults = 0 PROVE Timely'
  <2>1. DeadEndsSoon' /\ left' \subseteq {"triage"} /\ (sub' = None => queue' = <<>> /\ Dead')
    BY <1>1, <1>2, <1>3, <1>5, <1>6 DEF IInv, Timely, DeadEndsSoon
  <2>2. sub # None => ~ Putting
    BY <1>1 DEF Putting, HasRoom
  <2>3. CASE sub # None /\ Waiting
    <3>1. work # None
      BY <1>1, <2>3 DEF Waiting
    <3>2. TimeoutOf(stage) \in Nat /\ TimeoutOf(stage') = TimeoutOf(stage)
      BY <1>1, <2>3, TimeoutFacts DEF IInv
    <3>3. sub'.left - (IF work' = None THEN 0 ELSE Rest(work')) > TimeoutOf(stage') - AssignTimeout
      BY <1>2, <1>3, <2>3, <3>1, <3>2 DEF Waiting
    <3>4. stage # "review"
      BY <1>6, <2>3, <3>1 DEF Waiting, IInv, Timely, DeadEndsSoon, Dead
    <3>5. Waiting'
      BY <1>1, <1>2, <1>5, <2>3, <3>3, <3>4 DEF Waiting
    <3>6. QED
      BY <1>6, <2>1, <3>5 DEF Timely
  <2>4. CASE sub # None /\ Served
    <3>1. Rest(work') - sub'.left < AssignTimeout /\ stage # "assign"
      BY <1>2, <1>3, <2>4 DEF Served
    <3>2. Served'
      BY <1>1, <1>2, <1>3, <2>4, <3>1 DEF Served
    <3>3. QED
      BY <1>6, <2>1, <3>2 DEF Timely
  <2>5. CASE sub = None
    BY <1>1, <1>6, <2>1, <2>5 DEF Timely
  <2>6. QED
    BY <1>6, <2>2, <2>3, <2>4, <2>5 DEF IInv, Timely
<1>7. QED
  BY <1>1, <1>4, <1>5, <1>6 DEF IInv

LEMMA StepKeeps == IInv /\ [Next]_vars => IInv'
<1> SUFFICES ASSUME IInv, [Next]_vars PROVE IInv'
  OBVIOUS
<1>1. CASE \E s \in {"assign", "triage", "investigate"} : Begin(s)
  BY <1>1, BeginStep
<1>2. CASE Put
  BY <1>2, PutStep
<1>3. CASE GiveUp
  BY <1>3, GiveUpStep
<1>4. CASE Investigated
  BY <1>4, InvestigatedStep
<1>5. CASE Release \/ Restart
  BY <1>5, FaultStep
<1>6. CASE Take
  BY <1>6, TakeStep
<1>7. CASE \/ TakeInCharge \/ TriageCommits \/ TriageFails \/ ReviewCommits
           \/ ReviewRejected \/ CycleFails \/ NextCycle
  BY <1>7, LeadStep
<1>8. CASE Tick
  BY <1>8, TickStep
<1>9. CASE UNCHANGED vars
  <2>1. UNCHANGED <<stage, left, sub, queue, work, faults>>
    BY <1>9 DEF vars
  <2>2. TypeOK' /\ WorkSound' /\ (sub' # None <=> stage' \in Kinds)
    BY <2>1 DEF IInv, TypeOK, WorkSound
  <2>3. faults' = 0 => Timely'
    BY <2>1 DEF IInv, Timely, DeadEndsSoon, Dead, Putting, Waiting, Served, TimeoutOf
  <2>4. QED
    BY <2>2, <2>3 DEF IInv
<1>10. QED
  BY <1>1, <1>2, <1>3, <1>4, <1>5, <1>6, <1>7, <1>8, <1>9 DEF Next, Coordinator, TechnicalLead

THEOREM Invariance == Spec => []IInv
  BY InitIInv, StepKeeps, PTL DEF Spec

-----------------------------------------------------------------------------
(* For all times that satisfy the margin, however long the model takes and *)
(* whatever a review leaves behind, the assignment of an incident never    *)
(* times out without an exception or a restart (technical_lead.py 430).    *)
THEOREM AssignmentsAreServed == Spec => []AssignIsServed
<1>1. IInv => AssignIsServed
  <2> SUFFICES ASSUME IInv, sub # None, stage = "assign", sub.left = 0, faults = 0
               PROVE  FALSE
    BY DEF AssignIsServed, IInv, TypeOK
  <2>1. QED
    BY OutOfTime
<1>2. QED
  BY <1>1, Invariance, PTL

(* Under the same conditions the inbox has at most one command, for which  *)
(* somebody waits, and a review is given up in its last cycle only.        *)
THEOREM InboxIsSound == Spec => []InboxSound
<1>1. IInv => InboxSound
  <2> SUFFICES ASSUME IInv, faults = 0
               PROVE  /\ Len(queue) <= 1 /\ \A i \in 1 .. Len(queue) : queue[i].live
                      /\ sub # None /\ stage = "review" /\ sub.left = 0
                         => work # None /\ work.live /\ work.cycle = Cycles
    BY DEF InboxSound, IInv
  <2>1. queue = <<>> \/ queue = <<[kind |-> stage, live |-> TRUE]>>
    BY DEF IInv, Timely, Putting, Waiting, Served
  <2>2. Len(queue) <= 1 /\ \A i \in 1 .. Len(queue) : queue[i].live
    <3>1. CASE queue = <<>>
      <4>1. Len(queue) = 0
        BY <3>1
      <4>2. QED
        BY <4>1
    <3>2. CASE queue = <<[kind |-> stage, live |-> TRUE]>>
      <4> DEFINE c == [kind |-> stage, live |-> TRUE]
      <4>1. c.live
        OBVIOUS
      <4> HIDE DEF c
      <4>2. queue = <<c>>
        BY <3>2 DEF c
      <4>3. Len(queue) = 1 /\ queue[1] = c
        BY <4>2
      <4>4. QED
        BY <4>1, <4>3
    <3>3. QED
      BY <2>1, <3>1, <3>2
  <2>3. ASSUME sub # None, stage = "review", sub.left = 0
        PROVE  work # None /\ work.live /\ work.cycle = Cycles
    <3>1. Served /\ work \in Works
      BY <2>3, OutOfTime
    <3>2. work # None /\ work.live /\ work.kind = "review" /\ Rest(work) < AssignTimeout
      <4>1. work # None /\ work.live /\ work.kind = "review"
        BY <2>3, <3>1 DEF Served
      <4>2. Rest(work) \in Nat
        BY <3>1, <4>1, RestFacts DEF IInv, WorkSound
      <4>3. QED
        BY <2>3, <3>1, <4>1, <4>2 DEF Served
    <3>3. work.cycle \in 1 .. Cycles
      BY <3>1 DEF Works
    <3>4. ASSUME work.cycle < Cycles PROVE FALSE
      <4>1. Rest(work) >= ActionTimeout /\ Rest(work) \in Nat
        BY <3>1, <3>2, <3>4, RestFacts DEF IInv, WorkSound
      <4>2. QED
        BY <3>2, <4>1, MarginAssumption
    <3>5. QED
      BY <3>2, <3>3, <3>4
  <2>4. QED
    BY <2>2, <2>3
<1>2. QED
  BY <1>1, Invariance, PTL
=============================================================================
