------------------------ MODULE ReActExecutorProofs ------------------------
(***************************************************************************)
(* Proofs about ReActExecutor for any number of investigations, any        *)
(* families and tools, any number of steps, attempts and inference slots.  *)
(***************************************************************************)
EXTENDS ReActExecutor, FiniteSetTheorems, TLAPS

Distinct(s) == \A m, n \in 1 .. Len(s) : s[m] = s[n] => m = n
In(i, s)    == \E n \in 1 .. Len(s) : s[n] = i

(* The gate: whoever waits for a model is in the line, once.               *)
LineSound == Distinct(line) /\ \A j \in Jobs : In(j, line) <=> at[j] \in Thinking

(* The steps of what an investigation observed are behind its own, and     *)
(* before an observation the present step has none.                        *)
StepsBehind(j) ==
    /\ at[j] \in {"idle", "ground"} => evidence[j] = {} /\ step[j] = 0
    /\ at[j] \notin {"idle", "ground"} => step[j] >= 1
    /\ \A item \in evidence[j] : item.step <= step[j]
    /\ at[j] \in {"reason", "select", "observe"} =>
         \A item \in evidence[j] : item.step < step[j]

(* A call that succeeded is not executed again.                            *)
CallsFresh(j) ==
    /\ \A x, y \in evidence[j] : y.step > x.step => y.call # x.call \/ x.call = None
    /\ at[j] = "observe" => \A item \in evidence[j] : item.call # call[j]

(* What is selected and executed is what was asked for.                    *)
Asked(j) ==
    /\ at[j] \in {"select", "observe"} => asked[j] \in Requests
    /\ at[j] = "observe" =>
         /\ call[j] \in Calls
         /\ ToolsOf[asked[j].kind] # {} =>
              call[j].tool \in ToolsOf[asked[j].kind] /\ call[j].focus = asked[j].focus

(* Where a result comes from.                                              *)
Closure(j) ==
    /\ at[j] = "conclude" => step[j] = MaxSteps
    /\ result[j] # None =>
         /\ at[j] = "done"
         /\ result[j].open => step[j] = MaxSteps \/ result[j].saturated

JobSound(j) == StepsBehind(j) /\ CallsFresh(j) /\ Asked(j) /\ Closure(j)

(* The shared fields while an investigation runs alone: they are its own.  *)
Own(j) ==
    /\ at[j] = "reason" => activeAnchor = j
    /\ at[j] = "select" => snapshot = evidence[j] /\ asked[j].focus = j
    /\ at[j] = "observe" => call[j].focus = j
    /\ at[j] = "saturate" => retained[j] = evidence[j]
    /\ \A item \in evidence[j] : item.by = j /\ (item.call # None => item.call.focus = j)

Alone(j) == \A i \in Jobs \ {j} : at[i] \notin Running

AloneSound == \A j \in Jobs \ overlapped : at[j] \in Running => Alone(j) /\ Own(j)

IInv == TypeOK /\ LineSound /\ (\A j \in Jobs : JobSound(j)) /\ AloneSound

-----------------------------------------------------------------------------
(* Leaving the line: the place is taken out, the others keep their order.  *)

LEMMA LineLeft ==
    ASSUME NEW j \in Jobs, line \in Seq(Jobs), Distinct(line)
    PROVE  /\ Left(j) \in Seq(Jobs) /\ Distinct(Left(j))
           /\ \A i \in Jobs : In(i, Left(j)) <=> i # j /\ In(i, line)
<1>1. CASE Places(j) = {}
  BY <1>1 DEF Left, Places, In
<1>2. CASE Places(j) # {}
  <2> DEFINE n == CHOOSE m \in Places(j) : TRUE
             rest == RemoveAt(line, n)
  <2>1. n \in 1 .. Len(line) /\ line[n] = j
    BY <1>2 DEF Places
  <2>2. Left(j) = rest
    BY <1>2 DEF Left
  <2> HIDE DEF n
  <2>3. /\ rest \in Seq(Jobs) /\ Len(rest) = Len(line) - 1
        /\ \A m \in 1 .. Len(rest) : rest[m] = IF m < n THEN line[m] ELSE line[m + 1]
    <3> DEFINE a == SubSeq(line, 1, n - 1)
               b == SubSeq(line, n + 1, Len(line))
    <3>1. n \in Nat /\ n >= 1 /\ n <= Len(line) /\ Len(line) \in Nat
      BY <2>1
    <3>2. a \in Seq(Jobs) /\ Len(a) = n - 1 /\ \A m \in 1 .. n - 1 : a[m] = line[m]
      BY <3>1
    <3>3. /\ b \in Seq(Jobs) /\ Len(b) = Len(line) - n
          /\ \A m \in 1 .. Len(line) - n : b[m] = line[m + n]
      <4>1. b \in Seq(Jobs)
        BY <3>1
      <4>2. Len(b) = IF n + 1 <= Len(line) THEN Len(line) - (n + 1) + 1 ELSE 0
        BY <3>1
      <4>3. \A m \in 1 .. Len(line) - n : b[m] = line[(n + 1) + m - 1]
        BY <3>1
      <4>4. \A m \in 1 .. Len(line) - n : (n + 1) + m - 1 = m + n
        BY <3>1
      <4> HIDE DEF b
      <4>5. Len(b) = Len(line) - n
        BY <3>1, <4>2
      <4>6. QED
        BY <4>1, <4>3, <4>4, <4>5
    <3>4. rest = a \o b
      BY DEF RemoveAt
    <3> HIDE DEF a, b, rest
    <3>5. rest \in Seq(Jobs) /\ Len(rest) = Len(line) - 1
      <4>1. a \in Seq(Jobs) /\ b \in Seq(Jobs)
        BY <3>2, <3>3
      <4>2. a \o b \in Seq(Jobs) /\ Len(a \o b) = Len(a) + Len(b)
        BY <4>1
      <4>3. Len(a) + Len(b) = Len(line) - 1
        BY <3>1, <3>2, <3>3
      <4>4. QED
        BY <3>4, <4>2, <4>3
    <3>6. ASSUME NEW m \in 1 .. Len(rest)
          PROVE  rest[m] = IF m < n THEN line[m] ELSE line[m + 1]
      <4>1. CASE m < n
        BY <3>1, <3>2, <3>3, <3>4, <3>5, <4>1
      <4>2. CASE m >= n
        <5>1. m - (n - 1) \in 1 .. Len(line) - n /\ (m - (n - 1)) + n = m + 1
          BY <3>1, <3>5, <4>2
        <5>2. rest[m] = b[m - (n - 1)]
          BY <3>1, <3>2, <3>3, <3>4, <3>5, <4>2
        <5>4. b[m - (n - 1)] = line[m + 1]
          BY <3>3, <5>1
        <5>3. QED
          BY <3>1, <4>2, <5>2, <5>4
      <4>3. QED
        BY <3>1, <4>1, <4>2
    <3>7. QED
      BY <3>5, <3>6
  <2> HIDE DEF rest
  <2>4. Distinct(rest)
    BY <2>1, <2>3 DEF Distinct
  <2>5. ASSUME NEW i \in Jobs PROVE In(i, rest) <=> i # j /\ In(i, line)
    <3>1. ASSUME In(i, rest) PROVE i # j /\ In(i, line)
      BY <2>1, <2>3, <3>1 DEF In, Distinct
    <3>2. ASSUME i # j, NEW m \in 1 .. Len(line), line[m] = i PROVE In(i, rest)
      <4>1. CASE m < n
        BY <2>1, <2>3, <3>2, <4>1 DEF In
      <4>2. CASE m > n
        <5>1. m - 1 \in 1 .. Len(rest) /\ ~ (m - 1 < n) /\ (m - 1) + 1 = m
          BY <2>1, <2>3, <3>2, <4>2
        <5>2. QED
          BY <2>3, <3>2, <5>1 DEF In
      <4>3. QED
        BY <2>1, <3>2, <4>1, <4>2
    <3>3. QED
      BY <3>1, <3>2 DEF In
  <2>6. QED
    BY <2>2, <2>3, <2>4, <2>5
<1>3. QED
  BY <1>1, <1>2

LEMMA LineJoined ==
    ASSUME NEW j \in Jobs, line \in Seq(Jobs), Distinct(line)
    PROVE  /\ Append(Left(j), j) \in Seq(Jobs) /\ Distinct(Append(Left(j), j))
           /\ \A i \in Jobs : In(i, Append(Left(j), j)) <=> i = j \/ In(i, line)
<1> DEFINE s == Left(j)
<1>1. s \in Seq(Jobs) /\ Distinct(s) /\ \A i \in Jobs : In(i, s) <=> i # j /\ In(i, line)
  BY LineLeft
<1> HIDE DEF s
<1>2. /\ Append(s, j) \in Seq(Jobs) /\ Len(Append(s, j)) = Len(s) + 1 /\ Len(s) \in Nat
      /\ Append(s, j)[Len(s) + 1] = j
      /\ \A m \in 1 .. Len(s) : Append(s, j)[m] = s[m]
  BY <1>1
<1>3. Distinct(Append(s, j))
  BY <1>1, <1>2 DEF Distinct, In
<1>4. \A i \in Jobs : In(i, Append(s, j)) <=> i = j \/ In(i, s)
  BY <1>2 DEF In
<1>5. QED
  BY <1>1, <1>2, <1>3, <1>4 DEF s

-----------------------------------------------------------------------------
(* What the three ways through the gate do.  Steady(j) is what an          *)
(* investigation does to the position of the others: nothing.              *)

Gated   == at \in [Jobs -> {"idle"} \cup Running \cup Ended] /\ tries \in [Jobs -> 0 .. Tries - 1]
           /\ line \in Seq(Jobs) /\ LineSound
MovedTo(j, stage) == at' = [at EXCEPT ![j] = stage]

LEMMA GatedByIInv == IInv => Gated
  BY DEF IInv, TypeOK, Gated

LEMMA Asking ==
    ASSUME Gated, NEW j \in Jobs, NEW stage \in Thinking, Ask(j, stage)
    PROVE  Gated' /\ MovedTo(j, stage)
<1>1. /\ at' = [at EXCEPT ![j] = stage] /\ tries' = [tries EXCEPT ![j] = 0]
      /\ line' = Append(Left(j), j)
  BY DEF Ask
<1>2. at' \in [Jobs -> {"idle"} \cup Running \cup Ended]
  BY <1>1 DEF Gated, Running
<1>3. tries' \in [Jobs -> 0 .. Tries - 1]
  <2>1. 0 \in 0 .. Tries - 1
    BY BoundsAssumption
  <2>2. QED
    BY <1>1, <2>1 DEF Gated
<1>4. /\ line' \in Seq(Jobs) /\ Distinct(line')
      /\ \A i \in Jobs : In(i, line') <=> i = j \/ In(i, line)
  BY <1>1, LineJoined DEF Gated, LineSound
<1>5. LineSound'
  BY <1>1, <1>4 DEF Gated, LineSound
<1>6. QED
  BY <1>1, <1>2, <1>3, <1>4, <1>5 DEF Gated, MovedTo

LEMMA AskingAgain ==
    ASSUME Gated, NEW j \in Jobs, at[j] \in Thinking, AskAgain(j), ~ LastTry(j)
    PROVE  Gated' /\ at' = at
<1>1. at' = at /\ tries' = [tries EXCEPT ![j] = @ + 1] /\ line' = Append(Left(j), j)
  BY DEF AskAgain
<1>2. tries' \in [Jobs -> 0 .. Tries - 1]
  <2>1. tries[j] + 1 \in 0 .. Tries - 1
    <3>1. tries[j] \in 0 .. Tries - 1 /\ tries[j] # Tries - 1 /\ Tries \in Nat
      BY BoundsAssumption DEF LastTry, Gated
    <3> DEFINE n == tries[j]
    <3> HIDE DEF n
    <3>2. n \in 0 .. Tries - 1 /\ n # Tries - 1 => n + 1 \in 0 .. Tries - 1
      BY <3>1
    <3>3. QED
      BY <3>1, <3>2 DEF n
  <2>2. QED
    BY <1>1, <2>1 DEF Gated
<1>3. /\ line' \in Seq(Jobs) /\ Distinct(line')
      /\ \A i \in Jobs : In(i, line') <=> i = j \/ In(i, line)
  BY <1>1, LineJoined DEF Gated, LineSound
<1>4. LineSound'
  BY <1>1, <1>3 DEF Gated, LineSound
<1>5. QED
  BY <1>1, <1>2, <1>3, <1>4 DEF Gated

LEMMA Going ==
    ASSUME Gated, NEW j \in Jobs, NEW stage \in {"observe"} \cup Ended, Go(j, stage)
    PROVE  Gated' /\ MovedTo(j, stage)
<1>1. /\ at' = [at EXCEPT ![j] = stage] /\ tries' = [tries EXCEPT ![j] = 0]
      /\ line' = Left(j)
  BY DEF Go
<1>2. at' \in [Jobs -> {"idle"} \cup Running \cup Ended]
  BY <1>1 DEF Gated, Running
<1>3. tries' \in [Jobs -> 0 .. Tries - 1]
  <2>1. 0 \in 0 .. Tries - 1
    BY BoundsAssumption
  <2>2. QED
    BY <1>1, <2>1 DEF Gated
<1>4. /\ line' \in Seq(Jobs) /\ Distinct(line')
      /\ \A i \in Jobs : In(i, line') <=> i # j /\ In(i, line)
  BY <1>1, LineLeft DEF Gated, LineSound
<1>5. LineSound'
  <2>1. stage \notin Thinking
    BY DEF Ended, Thinking
  <2>2. QED
    BY <1>1, <1>4, <2>1 DEF Gated, LineSound
<1>6. QED
  BY <1>1, <1>2, <1>3, <1>4, <1>5 DEF Gated, MovedTo

-----------------------------------------------------------------------------
(* A step of one running investigation keeps the invariant when it keeps   *)
(* the gate sound, leaves the locals of the others alone, and keeps the    *)
(* part of the invariant that is about itself.                             *)

Others(j) ==
    \A i \in Jobs \ {j} :
      /\ at'[i] = at[i] /\ step'[i] = step[i]
      /\ asked'[i] = asked[i] /\ call'[i] = call[i]
      /\ evidence'[i] = evidence[i] /\ retained'[i] = retained[i] /\ result'[i] = result[i]

(* The rest of the type invariant.                                         *)
Typed ==
    /\ step \in [Jobs -> 0 .. MaxSteps]
    /\ asked \in [Jobs -> Requests \cup {None}] /\ call \in [Jobs -> Calls \cup {None}]
    /\ evidence \in [Jobs -> SUBSET Items] /\ retained \in [Jobs -> SUBSET Items]
    /\ result \in [Jobs -> Results \cup {None}]
    /\ snapshot \in SUBSET Items
    /\ activeRequest \in Requests \cup {None} /\ activeAnchor \in Focus
    /\ overlapped \in SUBSET Jobs

LEMMA TypeSplit == TypeOK /\ LineSound => Gated /\ Typed
  BY DEF TypeOK, Gated, Typed

LEMMA StepOfOne ==
    ASSUME IInv, NEW j \in Jobs, at[j] \in Running,
           Gated', Typed', Others(j), overlapped' = overlapped,
           JobSound(j)',
           j \notin overlapped /\ at'[j] \in Running /\ Own(j) => Own(j)'
    PROVE  IInv'
<1>1. TypeOK' /\ LineSound'
  BY DEF TypeOK, Gated, Typed
<1>2. ASSUME NEW i \in Jobs PROVE JobSound(i)'
  <2>1. CASE i = j
    BY <2>1
  <2>2. CASE i # j
    <3>1. JobSound(i)
      BY DEF IInv
    <3>2. QED
      BY <2>2, <3>1 DEF Others, JobSound, StepsBehind, CallsFresh, Asked, Closure
  <2>3. QED
    BY <2>1, <2>2
<1>3. ASSUME NEW i \in Jobs \ overlapped', at'[i] \in Running PROVE Alone(i)' /\ Own(i)'
  <2>1. i = j
    BY <1>3 DEF IInv, AloneSound, Alone, Others
  <2>2. Alone(j) /\ Own(j)
    BY <1>3, <2>1 DEF IInv, AloneSound
  <2>3. Alone(j)'
    BY <2>2 DEF Alone, Others
  <2>4. QED
    BY <1>3, <2>1, <2>2, <2>3
<1>4. QED
  BY <1>1, <1>2, <1>3 DEF IInv, AloneSound

-----------------------------------------------------------------------------
(* The next step of the loop.                                              *)

ItemsFresh(items) == \A x, y \in items : y.step > x.step => y.call # x.call \/ x.call = None
ItemsOwn(j, items) == \A item \in items : item.by = j /\ (item.call # None => item.call.focus = j)

LEMMA ToReason ==
    ASSUME IInv, NEW j \in Jobs, at[j] \in Running, step[j] < MaxSteps, NextStep(j),
           asked' \in [Jobs -> Requests \cup {None}], call' \in [Jobs -> Calls \cup {None}],
           evidence' \in [Jobs -> SUBSET Items],
           snapshot' \in SUBSET Items, activeRequest' \in Requests \cup {None},
           UNCHANGED <<retained, result, overlapped>>,
           \A i \in Jobs \ {j} : /\ asked'[i] = asked[i] /\ call'[i] = call[i]
                                 /\ evidence'[i] = evidence[i],
           \A item \in evidence'[j] : item.step <= step[j],
           ItemsFresh(evidence'[j]),
           j \notin overlapped /\ Own(j) => ItemsOwn(j, evidence'[j])
    PROVE  IInv'
<1>1. Gated /\ Typed /\ JobSound(j)
  BY TypeSplit DEF IInv
<1>2. /\ step' = [step EXCEPT ![j] = @ + 1] /\ activeAnchor' = j
      /\ Ask(j, "reason")
  BY DEF NextStep
<1>3. Gated' /\ at' = [at EXCEPT ![j] = "reason"]
  BY <1>1, <1>2, Asking DEF MovedTo, Thinking
<1>4. step[j] \in Nat /\ step'[j] = step[j] + 1 /\ step' \in [Jobs -> 0 .. MaxSteps]
  BY <1>1, <1>2, BoundsAssumption DEF Typed
<1>5. Typed'
  BY <1>1, <1>2, <1>4 DEF Typed, Focus
<1>6. at'[j] = "reason"
  BY <1>1, <1>3 DEF Gated
<1>7. Others(j)
  BY <1>1, <1>2, <1>3 DEF Others, Gated, Typed
<1>8. StepsBehind(j)'
  <2>1. \A item \in evidence'[j] : item.step \in Nat
    BY BoundsAssumption DEF Items
  <2>2. QED
    BY <1>4, <1>6, <2>1 DEF StepsBehind
<1>9. CallsFresh(j)' /\ Asked(j)'
  BY <1>6 DEF CallsFresh, Asked, ItemsFresh
<1>10. Closure(j)'
  <2>1. result'[j] = None
    BY <1>1 DEF JobSound, Closure, Running, Thinking
  <2>2. QED
    BY <1>6, <2>1 DEF Closure
<1>11. j \notin overlapped /\ Own(j) => Own(j)'
  BY <1>2, <1>6 DEF Own, ItemsOwn
<1>12. QED
  BY <1>3, <1>5, <1>7, <1>8, <1>9, <1>10, <1>11, StepOfOne DEF JobSound

(* The same with the evidence as it is.                                    *)
LEMMA ToReasonUnseen ==
    ASSUME IInv, NEW j \in Jobs, at[j] \in Running, step[j] < MaxSteps, NextStep(j),
           snapshot' \in SUBSET Items, activeRequest' \in Requests \cup {None},
           UNCHANGED <<asked, call, evidence, retained, result, overlapped>>
    PROVE  IInv'
<1>1. Typed /\ JobSound(j)
  BY TypeSplit DEF IInv
<1>2. /\ \A item \in evidence'[j] : item.step <= step[j]
      /\ ItemsFresh(evidence'[j])
      /\ Own(j) => ItemsOwn(j, evidence'[j])
  BY <1>1 DEF JobSound, StepsBehind, CallsFresh, ItemsFresh, ItemsOwn, Own
<1>3. /\ asked' \in [Jobs -> Requests \cup {None}] /\ call' \in [Jobs -> Calls \cup {None}]
      /\ evidence' \in [Jobs -> SUBSET Items]
  BY <1>1 DEF Typed
<1>4. QED
  BY <1>2, <1>3, ToReason

(* The end, with a result or without.                                      *)
LEMMA ToEnd ==
    ASSUME IInv, NEW j \in Jobs, at[j] \in Running \ {"ground"},
           NEW stage \in Ended, Go(j, stage),
           DropLocals(j), ClearActive, UNCHANGED <<step, overlapped>>,
           snapshot' \in SUBSET Items,
           result' \in [Jobs -> Results \cup {None}],
           \A i \in Jobs \ {j} : result'[i] = result[i],
           result'[j] # None => /\ stage = "done"
                                /\ result'[j].open => step[j] = MaxSteps \/ result'[j].saturated
    PROVE  IInv'
<1>1. Gated /\ Typed /\ JobSound(j)
  BY TypeSplit DEF IInv
<1>2. Gated' /\ at' = [at EXCEPT ![j] = stage]
  BY <1>1, Going DEF MovedTo
<1>3. /\ asked' = [asked EXCEPT ![j] = None] /\ call' = [call EXCEPT ![j] = None]
      /\ evidence' = [evidence EXCEPT ![j] = {}] /\ retained' = [retained EXCEPT ![j] = {}]
      /\ activeRequest' = None /\ activeAnchor' = None
  BY DEF DropLocals, ClearActive
<1>4. Typed'
  BY <1>1, <1>3 DEF Typed, Focus
<1>5. at'[j] = stage /\ at'[j] \in Ended /\ evidence'[j] = {}
  BY <1>1, <1>2, <1>3 DEF Gated, Typed
<1>6. Others(j)
  BY <1>1, <1>2, <1>3 DEF Others, Gated, Typed
<1>7. step'[j] >= 1
  BY <1>1 DEF JobSound, StepsBehind, Running, Thinking
<1>8. StepsBehind(j)' /\ CallsFresh(j)' /\ Asked(j)'
  BY <1>5, <1>7 DEF StepsBehind, CallsFresh, Asked, Ended
<1>9. Closure(j)'
  BY <1>5 DEF Closure, Ended
<1>10. at'[j] \notin Running
  BY <1>5 DEF Ended, Running, Thinking
<1>11. QED
  BY <1>2, <1>4, <1>6, <1>8, <1>9, <1>10, StepOfOne DEF JobSound

(* Another attempt.                                                        *)
LEMMA Again ==
    ASSUME IInv, NEW j \in Jobs, at[j] \in Thinking, AskAgain(j), ~ LastTry(j),
           UNCHANGED <<step, asked, call, evidence, retained, result, shared, overlapped>>
    PROVE  IInv'
<1>1. Gated /\ Typed /\ JobSound(j)
  BY TypeSplit DEF IInv
<1>2. Gated' /\ at' = at
  BY <1>1, AskingAgain
<1>3. Typed' /\ Others(j)
  BY <1>1, <1>2 DEF Typed, Others, shared
<1>4. JobSound(j)'
  BY <1>1, <1>2 DEF JobSound, StepsBehind, CallsFresh, Asked, Closure
<1>5. Own(j) => Own(j)'
  BY <1>2 DEF Own, shared
<1>6. QED
  BY <1>2, <1>3, <1>4, <1>5, StepOfOne DEF Running

(* Saturation.                                                             *)
LEMMA ToSaturate ==
    ASSUME IInv, NEW j \in Jobs, at[j] \in {"reason", "select"},
           NEW remembered \in SUBSET Items, Saturate(j, remembered),
           UNCHANGED <<step, evidence, result, overlapped>>,
           snapshot' \in SUBSET Items, activeRequest' \in Requests \cup {None},
           activeAnchor' \in Focus,
           j \notin overlapped /\ Own(j) => remembered = evidence[j]
    PROVE  IInv'
<1>1. Gated /\ Typed /\ JobSound(j)
  BY TypeSplit DEF IInv
<1>2. /\ retained' = [retained EXCEPT ![j] = remembered]
      /\ asked' = [asked EXCEPT ![j] = None] /\ call' = call
      /\ Ask(j, "saturate")
  BY DEF Saturate
<1>3. Gated' /\ at' = [at EXCEPT ![j] = "saturate"]
  BY <1>1, <1>2, Asking DEF MovedTo, Thinking
<1>4. Typed' /\ at'[j] = "saturate" /\ retained'[j] = remembered
  BY <1>1, <1>2, <1>3 DEF Typed, Gated
<1>5. Others(j)
  BY <1>1, <1>2, <1>3 DEF Others, Gated, Typed
<1>6. JobSound(j)'
  <2>1. StepsBehind(j)'
    BY <1>1, <1>4 DEF JobSound, StepsBehind
  <2>2. CallsFresh(j)' /\ Asked(j)'
    BY <1>1, <1>4 DEF JobSound, CallsFresh, Asked
  <2>3. Closure(j)'
    BY <1>1, <1>4 DEF JobSound, Closure
  <2>4. QED
    BY <2>1, <2>2, <2>3 DEF JobSound
<1>7. j \notin overlapped /\ Own(j) => Own(j)'
  BY <1>4 DEF Own
<1>8. QED
  BY <1>3, <1>4, <1>5, <1>6, <1>7, StepOfOne DEF Running, Thinking

(* The call that is executed.                                              *)
LEMMA ToObserve ==
    ASSUME IInv, NEW j \in Jobs, at[j] \in {"reason", "select"}, Go(j, "observe"),
           NEW request \in Requests, NEW tool \in Tools,
           asked' = [asked EXCEPT ![j] = request],
           call' = [call EXCEPT ![j] = [tool |-> tool, focus |-> request.focus]],
           ToolsOf[request.kind] # {} => tool \in ToolsOf[request.kind],
           ~ IsDuplicate(j, [tool |-> tool, focus |-> request.focus]),
           UNCHANGED <<step, evidence, retained, result, overlapped>>,
           snapshot' \in SUBSET Items, activeRequest' \in Requests \cup {None},
           activeAnchor' \in Focus,
           j \notin overlapped /\ Own(j) => request.focus = j
    PROVE  IInv'
<1> DEFINE c == [tool |-> tool, focus |-> request.focus]
<1>1. Gated /\ Typed /\ JobSound(j)
  BY TypeSplit DEF IInv
<1>2. Gated' /\ at' = [at EXCEPT ![j] = "observe"]
  BY <1>1, Going DEF MovedTo
<1>3. c \in Calls /\ c.tool = tool /\ c.focus = request.focus
  BY DEF Calls, Requests
<1> HIDE DEF c
<1>4. Typed'
  <2>1. call' = [call EXCEPT ![j] = c]
    BY DEF c
  <2>2. QED
    BY <1>1, <1>3, <2>1 DEF Typed
<1>5. at'[j] = "observe" /\ asked'[j] = request /\ call'[j] = c
  BY <1>1, <1>2 DEF Typed, Gated, c
<1>6. Others(j)
  BY <1>1, <1>2 DEF Others, Gated, Typed
<1>7. StepsBehind(j)'
  BY <1>1, <1>5 DEF JobSound, StepsBehind
<1>8. CallsFresh(j)'
  BY <1>1, <1>5 DEF JobSound, CallsFresh, IsDuplicate, c
<1>9. Asked(j)'
  BY <1>3, <1>5 DEF Asked
<1>10. Closure(j)'
  BY <1>1, <1>5 DEF JobSound, Closure
<1>11. j \notin overlapped /\ Own(j) => Own(j)'
  BY <1>3, <1>5 DEF Own
<1>12. QED
  BY <1>2, <1>4, <1>6, <1>7, <1>8, <1>9, <1>10, <1>11, StepOfOne DEF JobSound, Running, Thinking

(* A model call that leaves the locals alone but for the request.          *)
LEMMA ToModel ==
    ASSUME IInv, NEW j \in Jobs, at[j] = "reason", NEW stage \in {"close", "select"},
           Ask(j, stage), asked' \in [Jobs -> Requests \cup {None}],
           \A i \in Jobs \ {j} : asked'[i] = asked[i],
           UNCHANGED <<step, call, evidence, retained, result, overlapped>>,
           snapshot' = evidence[j], activeRequest' \in Requests \cup {None},
           activeAnchor' \in Focus,
           stage = "select" => /\ asked'[j] \in Requests
                               /\ j \notin overlapped /\ Own(j) => asked'[j].focus = j
    PROVE  IInv'
<1>1. Gated /\ Typed /\ JobSound(j)
  BY TypeSplit DEF IInv
<1>2. Gated' /\ at' = [at EXCEPT ![j] = stage]
  BY <1>1, Asking DEF MovedTo, Thinking
<1>3. Typed' /\ at'[j] = stage
  BY <1>1, <1>2 DEF Typed, Gated
<1>4. Others(j)
  BY <1>1, <1>2 DEF Others, Gated, Typed
<1>5. StepsBehind(j)' /\ CallsFresh(j)'
  BY <1>1, <1>3 DEF JobSound, StepsBehind, CallsFresh
<1>6. Asked(j)' /\ Closure(j)'
  BY <1>1, <1>3 DEF JobSound, Asked, Closure
<1>7. j \notin overlapped /\ Own(j) => Own(j)'
  BY <1>3 DEF Own
<1>8. QED
  BY <1>2, <1>3, <1>4, <1>5, <1>6, <1>7, StepOfOne DEF JobSound, Running, Thinking

-----------------------------------------------------------------------------
(* The actions.                                                            *)

LEMMA BeginStep ==
    ASSUME IInv, NEW j \in Jobs, Begin(j)
    PROVE  IInv'
<1>1. Gated /\ Typed /\ JobSound(j)
  BY TypeSplit DEF IInv
<1>2. /\ at[j] = "idle" /\ at' = [at EXCEPT ![j] = "ground"]
      /\ snapshot' = {} /\ activeRequest' = None /\ activeAnchor' = None
      /\ overlapped' = IF RunningNow = {} THEN overlapped
                                          ELSE overlapped \cup RunningNow \cup {j}
      /\ UNCHANGED <<step, tries, asked, call, evidence, retained, result, line>>
  BY DEF Begin, Reset, job
<1>3. at' \in [Jobs -> {"idle"} \cup Running \cup Ended] /\ at'[j] = "ground"
      /\ \A i \in Jobs \ {j} : at'[i] = at[i]
  BY <1>1, <1>2 DEF Gated, Running
<1>4. TypeOK'
  <2>1. overlapped' \in SUBSET Jobs
    BY <1>1, <1>2 DEF Typed, RunningNow
  <2>2. QED
    BY <1>1, <1>2, <1>3, <2>1 DEF Typed, Gated, TypeOK, Focus
<1>5. LineSound'
  <2>1. \A i \in Jobs : at'[i] \in Thinking <=> at[i] \in Thinking
    BY <1>2, <1>3 DEF Thinking
  <2>2. QED
    BY <1>1, <1>2, <2>1 DEF Gated, LineSound
<1>6. ASSUME NEW i \in Jobs PROVE JobSound(i)'
  <2>1. CASE i = j
    <3>1. JobSound(j)'
      BY <1>1, <1>2, <1>3 DEF JobSound, StepsBehind, CallsFresh, Asked, Closure
    <3>2. QED
      BY <2>1, <3>1
  <2>2. CASE i # j
    <3>1. JobSound(i)
      BY DEF IInv
    <3>2. QED
      BY <1>2, <1>3, <2>2, <3>1 DEF JobSound, StepsBehind, CallsFresh, Asked, Closure
  <2>3. QED
    BY <2>1, <2>2
<1>7. ASSUME NEW i \in Jobs \ overlapped', at'[i] \in Running PROVE Alone(i)' /\ Own(i)'
  <2>1. CASE RunningNow = {}
    <3>1. i = j /\ Alone(j)'
      BY <1>2, <1>3, <1>7, <2>1 DEF RunningNow, Alone
    <3>2. evidence'[j] = {}
      BY <1>1, <1>2 DEF JobSound, StepsBehind
    <3>3. Own(j)'
      BY <1>3, <3>2 DEF Own
    <3>4. QED
      BY <3>1, <3>3
  <2>2. CASE RunningNow # {}
    BY <1>2, <1>3, <1>7, <2>2 DEF RunningNow
  <2>3. QED
    BY <2>1, <2>2
<1>8. QED
  BY <1>4, <1>5, <1>6, <1>7 DEF IInv, AloneSound

LEMMA FailStep ==
    ASSUME IInv, NEW j \in Jobs, at[j] \in Running \ {"ground"}, Fail(j)
    PROVE  IInv'
<1>1. Typed /\ JobSound(j)
  BY TypeSplit DEF IInv
<1>2. result[j] = None
  BY <1>1 DEF JobSound, Closure, Running, Thinking
<1>3. /\ Go(j, "failed") /\ DropLocals(j) /\ ClearActive
      /\ UNCHANGED <<step, overlapped, result, snapshot>>
  BY DEF Fail
<1>4. QED
  BY <1>1, <1>2, <1>3, ToEnd DEF Ended, Typed

LEMMA ConcludeStep ==
    ASSUME IInv, NEW j \in Jobs, at[j] \in {"close", "conclude", "saturate"},
           NEW open \in BOOLEAN, Conclude(j, open),
           open => step[j] = MaxSteps \/ at[j] = "saturate"
    PROVE  IInv'
<1>1. Typed
  BY TypeSplit DEF IInv
<1>2. /\ Go(j, "done") /\ DropLocals(j) /\ ClearActive
      /\ UNCHANGED <<step, overlapped, snapshot>>
      /\ result' = [result EXCEPT ![j] = [saturated |-> at[j] = "saturate", open |-> open]]
  BY DEF Conclude
<1> DEFINE r == [saturated |-> at[j] = "saturate", open |-> open]
<1>3. r \in Results /\ (r.open => step[j] = MaxSteps \/ r.saturated)
  <2>1. r.open = open /\ r.saturated = (at[j] = "saturate") /\ r.saturated \in BOOLEAN
    OBVIOUS
  <2>2. QED
    BY <2>1 DEF Results
<1>4. result' = [result EXCEPT ![j] = r]
  BY <1>2
<1> HIDE DEF r
<1>5. /\ result' \in [Jobs -> Results \cup {None}] /\ result'[j] = r
      /\ \A i \in Jobs \ {j} : result'[i] = result[i]
  BY <1>1, <1>3, <1>4 DEF Typed
<1>6. at[j] \in Running \ {"ground"} /\ "done" \in Ended
  BY DEF Running, Thinking, Ended
<1>7. snapshot' \in SUBSET Items
  BY <1>1, <1>2 DEF Typed
<1>8. result'[j].open => step[j] = MaxSteps \/ result'[j].saturated
  BY <1>3, <1>5
<1>9. QED
  BY <1>2, <1>5, <1>6, <1>7, <1>8, ToEnd

LEMMA GroundedStep ==
    ASSUME IInv, NEW j \in Jobs, Grounded(j)
    PROVE  IInv'
<1>1. Typed /\ JobSound(j)
  BY TypeSplit DEF IInv
<1>2. at[j] \in Running /\ step[j] < MaxSteps
  BY <1>1, BoundsAssumption DEF Grounded, JobSound, StepsBehind, Running
<1>3. QED
  BY <1>1, <1>2, ToReasonUnseen DEF Grounded, Typed

LEMMA ReasonStep ==
    ASSUME IInv, NEW j \in Jobs,
           ReasonRejected(j) \/ FinishRefused(j) \/ FinishAccepted(j)
    PROVE  IInv'
<1>1. Typed /\ JobSound(j) /\ at[j] = "reason" /\ at[j] \in Thinking /\ at[j] \in Running \ {"ground"}
  BY TypeSplit DEF IInv, ReasonRejected, FinishRefused, FinishAccepted, Answered, Thinking, Running
<1>2. CASE ReasonRejected(j)
  BY <1>1, <1>2, FailStep, Again DEF ReasonRejected
<1>3. CASE FinishRefused(j)
  BY <1>1, <1>3, ToReasonUnseen DEF FinishRefused, Continue, Remembered, Typed
<1>4. CASE FinishAccepted(j)
  <2>1. /\ Ask(j, "close") /\ snapshot' = evidence[j] /\ activeRequest' = None
        /\ activeAnchor' = None
        /\ UNCHANGED <<step, asked, call, evidence, retained, result, overlapped>>
    BY <1>4 DEF FinishAccepted, Decided, Remembered
  <2>2. asked' \in [Jobs -> Requests \cup {None}] /\ None \in Focus
    BY <1>1, <2>1 DEF Typed, Focus
  <2>3. QED
    BY <1>1, <2>1, <2>2, ToModel
<1>5. QED
  BY <1>2, <1>3, <1>4

LEMMA GatherStep ==
    ASSUME IInv, NEW j \in Jobs, NEW kind \in Kinds, Gather(j, kind)
    PROVE  IInv'
<1> DEFINE request == Normalised(kind)
<1>1. Typed /\ JobSound(j)
  BY TypeSplit DEF IInv
<1>2. /\ at[j] = "reason" /\ activeAnchor' = None /\ activeRequest' = request
      /\ snapshot' = evidence[j]
      /\ UNCHANGED <<step, evidence, result, overlapped>>
      /\ SelectSole(j, request) \/ SelectByModel(j, request)
  BY DEF Gather, Answered, Decided, Remembered
<1>3. request \in Requests /\ request.focus = activeAnchor
  BY <1>1 DEF Normalised, Requests, Typed
<1>4. Own(j) => request.focus = j
  BY <1>2, <1>3 DEF Own
<1>5. snapshot' \in SUBSET Items /\ activeRequest' \in Requests \cup {None} /\ activeAnchor' \in Focus
  BY <1>1, <1>2, <1>3 DEF Typed, Focus
<1> HIDE DEF request
<1>6. CASE SelectByModel(j, request)
  <2>1. /\ Ask(j, "select") /\ asked' = [asked EXCEPT ![j] = request]
        /\ UNCHANGED <<call, retained>>
    BY <1>6 DEF SelectByModel
  <2>2. asked'[j] = request /\ asked' \in [Jobs -> Requests \cup {None}]
        /\ \A i \in Jobs \ {j} : asked'[i] = asked[i]
    BY <1>1, <1>3, <2>1 DEF Typed
  <2>3. QED
    BY <1>2, <1>3, <1>4, <1>5, <2>1, <2>2, ToModel
<1>7. CASE SelectSole(j, request)
  <2>1. PICK tool \in Tools :
           /\ ToolsOf[request.kind] = {tool}
           /\ LET c == [tool |-> tool, focus |-> request.focus] IN
                \/ IsDuplicate(j, c) /\ Saturate(j, Remembered(j))
                \/ /\ ~ IsDuplicate(j, c) /\ Go(j, "observe")
                   /\ asked' = [asked EXCEPT ![j] = request]
                   /\ call' = [call EXCEPT ![j] = c] /\ UNCHANGED retained
    BY <1>7 DEF SelectSole
  <2>2. CASE Saturate(j, evidence[j])
    <3>1. evidence[j] \in SUBSET Items
      BY <1>1 DEF Typed
    <3>2. QED
      BY <1>2, <1>5, <2>2, <3>1, ToSaturate
  <2>3. CASE /\ ~ IsDuplicate(j, [tool |-> tool, focus |-> request.focus]) /\ Go(j, "observe")
             /\ asked' = [asked EXCEPT ![j] = request]
             /\ call' = [call EXCEPT ![j] = [tool |-> tool, focus |-> request.focus]]
             /\ UNCHANGED retained
    BY <1>2, <1>3, <1>4, <1>5, <2>1, <2>3, ToObserve
  <2>4. QED
    BY <2>1, <2>2, <2>3 DEF Remembered
<1>8. QED
  BY <1>2, <1>6, <1>7

LEMMA TargetUnknownStep ==
    ASSUME IInv, NEW j \in Jobs, NEW kind \in Kinds, TargetUnknown(j, kind)
    PROVE  IInv'
<1>1. Typed /\ JobSound(j)
  BY TypeSplit DEF IInv
<1>2. /\ at[j] = "reason" /\ Go(j, "failed") /\ DropLocals(j) /\ ClearActive
      /\ snapshot' = evidence[j] /\ UNCHANGED <<step, result, overlapped>>
  BY DEF TargetUnknown, Answered, Remembered
<1>3. result[j] = None /\ at[j] \in Running \ {"ground"} /\ "failed" \in Ended
  BY <1>1, <1>2 DEF JobSound, Closure, Running, Thinking, Ended
<1>4. snapshot' \in SUBSET Items /\ result' \in [Jobs -> Results \cup {None}]
  BY <1>1, <1>2 DEF Typed
<1>5. QED
  BY <1>2, <1>3, <1>4, ToEnd

LEMMA SelectStep ==
    ASSUME IInv, NEW j \in Jobs, NEW tool \in Tools, Select(j, tool)
    PROVE  IInv'
<1>1. Typed /\ JobSound(j)
  BY TypeSplit DEF IInv
<1>2. /\ at[j] = "select" /\ tool \in Offered(j)
      /\ ~ IsDuplicate(j, [tool |-> tool, focus |-> asked[j].focus])
      /\ call' = [call EXCEPT ![j] = [tool |-> tool, focus |-> asked[j].focus]]
      /\ Go(j, "observe")
      /\ UNCHANGED <<step, asked, evidence, retained, result, overlapped>>
      /\ UNCHANGED <<snapshot, activeRequest, activeAnchor>>
  BY DEF Select, Answered, Selected, shared
<1>3. asked[j] \in Requests
  BY <1>1, <1>2 DEF JobSound, Asked
<1>4. asked' = [asked EXCEPT ![j] = asked[j]]
  BY <1>1, <1>2 DEF Typed
<1>5. ToolsOf[asked[j].kind] # {} => tool \in ToolsOf[asked[j].kind]
  BY <1>2 DEF Offered
<1>6. Own(j) => asked[j].focus = j
  BY <1>2 DEF Own
<1>7. snapshot' \in SUBSET Items /\ activeRequest' \in Requests \cup {None} /\ activeAnchor' \in Focus
  BY <1>1, <1>2 DEF Typed
<1> DEFINE request == asked[j]
<1> HIDE DEF request
<1>8. request \in Requests /\ asked' = [asked EXCEPT ![j] = request]
      /\ ~ IsDuplicate(j, [tool |-> tool, focus |-> request.focus])
      /\ call' = [call EXCEPT ![j] = [tool |-> tool, focus |-> request.focus]]
      /\ (ToolsOf[request.kind] # {} => tool \in ToolsOf[request.kind])
      /\ (Own(j) => request.focus = j)
  BY <1>2, <1>3, <1>4, <1>5, <1>6 DEF request
<1>9. QED
  BY <1>2, <1>7, <1>8, ToObserve

LEMMA SelectFailsStep ==
    ASSUME IInv, NEW j \in Jobs,
           \/ SelectRejected(j) \/ SelectRaises(j)
           \/ \E tool \in Tools : SelectSaturated(j, tool)
    PROVE  IInv'
<1>1. Typed /\ JobSound(j) /\ at[j] = "select" /\ at[j] \in Thinking /\ at[j] \in Running \ {"ground"}
  BY TypeSplit DEF IInv, SelectRejected, SelectRaises, SelectSaturated, Answered, Thinking, Running
<1>2. CASE SelectRejected(j) \/ SelectRaises(j)
  BY <1>1, <1>2, FailStep, Again DEF SelectRejected, SelectRaises
<1>3. ASSUME NEW tool \in Tools, SelectSaturated(j, tool) PROVE IInv'
  <2>1. CASE Fail(j)
    BY <1>1, <2>1, FailStep
  <2>2. CASE Saturate(j, snapshot) /\ UNCHANGED <<step, evidence, result, shared, overlapped>>
    <3>1. snapshot \in SUBSET Items /\ (Own(j) => snapshot = evidence[j])
      BY <1>1 DEF Typed, Own
    <3>2. snapshot' \in SUBSET Items /\ activeRequest' \in Requests \cup {None}
          /\ activeAnchor' \in Focus
      BY <1>1, <2>2 DEF Typed, shared
    <3>3. QED
      BY <1>1, <2>2, <3>1, <3>2, ToSaturate
  <2>3. QED
    BY <1>3, <2>1, <2>2 DEF SelectSaturated
<1>4. QED
  BY <1>2, <1>3

LEMMA ObserveStep ==
    ASSUME IInv, NEW j \in Jobs, NEW ok \in BOOLEAN, Observe(j, ok)
    PROVE  IInv'
<1> DEFINE item == [by |-> j, step |-> step[j], call |-> IF ok THEN call[j] ELSE None]
<1>1. Gated /\ Typed /\ JobSound(j) /\ at[j] = "observe"
  BY TypeSplit DEF IInv, Observe
<1>2. /\ evidence' = [evidence EXCEPT ![j] = @ \cup {item}]
      /\ call' = [call EXCEPT ![j] = None] /\ asked' = [asked EXCEPT ![j] = None]
      /\ UNCHANGED <<retained, result, snapshot, activeRequest, overlapped>>
  BY DEF Observe
<1>3. /\ item.by = j /\ item.step = step[j]
      /\ item.call = call[j] \/ item.call = None
  OBVIOUS
<1>4. step[j] \in 1 .. MaxSteps
  BY <1>1, BoundsAssumption DEF Typed, JobSound, StepsBehind
<1>5. item \in Items
  BY <1>1, <1>3, <1>4 DEF Items, Typed
<1> HIDE DEF item
<1>6. /\ evidence' \in [Jobs -> SUBSET Items] /\ evidence'[j] = evidence[j] \cup {item}
      /\ call' \in [Jobs -> Calls \cup {None}] /\ asked' \in [Jobs -> Requests \cup {None}]
      /\ \A i \in Jobs \ {j} : /\ asked'[i] = asked[i] /\ call'[i] = call[i]
                               /\ evidence'[i] = evidence[i]
  BY <1>1, <1>2, <1>5 DEF Typed
<1>7. \A i \in evidence'[j] : i.step <= step[j]
  BY <1>1, <1>3, <1>4, <1>6 DEF JobSound, StepsBehind
<1>8. ItemsFresh(evidence'[j])
  <2>1. ItemsFresh(evidence[j]) /\ \A x \in evidence[j] : x.call # call[j]
    BY <1>1 DEF JobSound, CallsFresh, ItemsFresh
  <2>2. \A x \in evidence[j] : x.step < step[j] /\ x.step \in Nat
    BY <1>1, BoundsAssumption DEF JobSound, StepsBehind, Typed, Items
  <2>3. ASSUME NEW x \in evidence'[j], NEW y \in evidence'[j], y.step > x.step
        PROVE  y.call # x.call \/ x.call = None
    <3>1. CASE x = item
      BY <1>3, <1>4, <1>6, <2>2, <2>3, <3>1
    <3>2. CASE x \in evidence[j] /\ y \in evidence[j]
      BY <2>1, <2>3, <3>2 DEF ItemsFresh
    <3>3. CASE x \in evidence[j] /\ y = item
      BY <1>3, <2>1, <3>3
    <3>4. QED
      BY <1>6, <3>1, <3>2, <3>3
  <2>4. QED
    BY <2>3 DEF ItemsFresh
<1>9. Own(j) => ItemsOwn(j, evidence'[j])
  BY <1>1, <1>3, <1>6 DEF Own, ItemsOwn
<1>10. CASE Continue(j)
  <2>1. /\ snapshot' \in SUBSET Items /\ activeRequest' \in Requests \cup {None}
        /\ step[j] < MaxSteps /\ NextStep(j) /\ at[j] \in Running
    BY <1>1, <1>2, <1>10 DEF Continue, Typed, Running
  <2>2. QED
    BY <1>2, <1>6, <1>7, <1>8, <1>9, <2>1, ToReason
<1>11. CASE step[j] = MaxSteps /\ Ask(j, "conclude") /\ UNCHANGED <<step, activeAnchor>>
  <2>1. Gated' /\ at' = [at EXCEPT ![j] = "conclude"]
    BY <1>1, <1>11, Asking DEF MovedTo, Thinking
  <2>2. Typed' /\ at'[j] = "conclude"
    BY <1>1, <1>2, <1>6, <1>11, <2>1 DEF Typed, Gated
  <2>3. Others(j)
    BY <1>1, <1>2, <1>6, <1>11, <2>1 DEF Others, Gated
  <2>4. StepsBehind(j)' /\ CallsFresh(j)' /\ Asked(j)'
    BY <1>4, <1>7, <1>8, <1>11, <2>2 DEF StepsBehind, CallsFresh, ItemsFresh, Asked
  <2>5. Closure(j)'
    BY <1>1, <1>2, <1>11, <2>2 DEF JobSound, Closure
  <2>6. Own(j) => Own(j)'
    BY <1>9, <2>2 DEF Own, ItemsOwn
  <2>7. QED
    BY <1>1, <1>2, <2>1, <2>2, <2>3, <2>4, <2>5, <2>6, StepOfOne DEF JobSound, Running
<1>12. QED
  BY <1>10, <1>11 DEF Observe

LEMMA FinalizeStep ==
    ASSUME IInv, NEW j \in Jobs, NEW b \in BOOLEAN, Finalize(j, b) \/ FinalizeRejected(j, b)
    PROVE  IInv'
<1>1. Typed /\ JobSound(j)
  BY TypeSplit DEF IInv
<1>2. at[j] \in {"close", "conclude", "saturate"}
  BY DEF Finalize, FinalizeRejected
<1>3. at[j] \in Thinking /\ at[j] \in Running \ {"ground"}
  BY <1>2 DEF Running, Thinking
<1>4. at[j] = "conclude" => step[j] = MaxSteps
  BY <1>1 DEF JobSound, Closure
<1>5. step[j] \in Nat /\ step[j] <= MaxSteps /\ MaxSteps \in Nat
  BY <1>1, BoundsAssumption DEF Typed
<1>6. CASE /\ Continue(j)
           /\ UNCHANGED <<asked, call, evidence, retained, result, snapshot, activeRequest,
                          overlapped>>
  BY <1>1, <1>3, <1>6, ToReasonUnseen DEF Continue, Typed
<1>7. CASE ~ Premature(j, b) /\ Conclude(j, b)
  <2>1. b => step[j] = MaxSteps \/ at[j] = "saturate"
    BY <1>2, <1>4, <1>5, <1>7 DEF Premature
  <2>2. QED
    BY <1>2, <1>7, <2>1, ConcludeStep
<1>8. CASE (at[j] = "close" => step[j] = MaxSteps) /\ Conclude(j, TRUE)
  BY <1>2, <1>4, <1>8, ConcludeStep
<1>9. CASE /\ ~ LastTry(j) /\ AskAgain(j)
           /\ UNCHANGED <<step, asked, call, evidence, retained, result, shared, overlapped>>
  BY <1>3, <1>9, Again
<1>10. CASE Fail(j)
  BY <1>3, <1>10, FailStep
<1>11. QED
  BY <1>6, <1>7, <1>8, <1>9, <1>10 DEF Finalize, FinalizeRejected

-----------------------------------------------------------------------------
LEMMA InitIInv == Init => IInv
<1> SUFFICES ASSUME Init PROVE IInv
  OBVIOUS
<1>1. TypeOK
  <2>1. 0 \in 0 .. MaxSteps /\ 0 \in 0 .. Tries - 1
    BY BoundsAssumption
  <2>2. QED
    BY <2>1 DEF Init, TypeOK, Focus
<1>2. LineSound
  BY DEF Init, LineSound, Distinct, In, Thinking
<1>3. \A j \in Jobs : JobSound(j)
  BY DEF Init, JobSound, StepsBehind, CallsFresh, Asked, Closure
<1>4. AloneSound
  BY DEF Init, AloneSound, Running, Thinking
<1>5. QED
  BY <1>1, <1>2, <1>3, <1>4 DEF IInv

LEMMA StepKeeps == IInv /\ [Next]_vars => IInv'
<1> SUFFICES ASSUME IInv, [Next]_vars PROVE IInv'
  OBVIOUS
<1>1. ASSUME NEW j \in Jobs, Begin(j) \/ Progress(j) \/ SelectionAnswer(j) PROVE IInv'
  <2>1. KindsOf[j] \subseteq Kinds
    BY KindsAssumption
  <2>2. CASE Begin(j) \/ Grounded(j) \/ ReasonRejected(j) \/ FinishRefused(j) \/ FinishAccepted(j)
    BY <2>2, BeginStep, GroundedStep, ReasonStep
  <2>3. CASE \E k \in KindsOf[j] : Gather(j, k) \/ TargetUnknown(j, k)
    BY <2>1, <2>3, GatherStep, TargetUnknownStep
  <2>4. CASE SelectionAnswer(j)
    BY <2>4, SelectStep, SelectFailsStep DEF SelectionAnswer
  <2>5. CASE \E b \in BOOLEAN : Observe(j, b) \/ Finalize(j, b) \/ FinalizeRejected(j, b)
    BY <2>5, ObserveStep, FinalizeStep
  <2>6. QED
    BY <1>1, <2>2, <2>3, <2>4, <2>5 DEF Progress
<1>2. CASE UNCHANGED vars
  <2>1. UNCHANGED <<at, step, tries, asked, call, evidence, retained, result, snapshot,
                    activeRequest, activeAnchor, line, overlapped>>
    BY <1>2 DEF vars, job, shared
  <2>2. TypeOK' /\ LineSound'
    BY <2>1 DEF IInv, TypeOK, LineSound
  <2>3. (\A j \in Jobs : JobSound(j))'
    BY <2>1 DEF IInv, JobSound, StepsBehind, CallsFresh, Asked, Closure
  <2>4. AloneSound'
    BY <2>1 DEF IInv, AloneSound, Alone, Own
  <2>5. QED
    BY <2>2, <2>3, <2>4 DEF IInv
<1>3. QED
  BY <1>1, <1>2 DEF Next

LEMMA Inductive == Spec => []IInv
<1>1. Init => IInv
  BY InitIInv
<1>2. IInv /\ [Next]_vars => IInv'
  BY StepKeeps
<1>3. QED
  BY <1>1, <1>2, PTL DEF Spec

LEMMA LineIsGate == IInv => GateSound
<1> SUFFICES ASSUME IInv, NEW j \in Jobs
             PROVE  Cardinality(Places(j)) = IF at[j] \in Thinking THEN 1 ELSE 0
  BY DEF GateSound
<1>1. Distinct(line) /\ (In(j, line) <=> at[j] \in Thinking)
  BY DEF IInv, LineSound
<1>2. CASE at[j] \in Thinking
  <2>1. PICK n \in Places(j) : TRUE
    BY <1>1, <1>2 DEF In, Places
  <2>2. Places(j) = {n}
    BY <1>1, <2>1 DEF Distinct, Places
  <2>3. QED
    BY <1>2, <2>2, FS_Singleton
<1>3. CASE at[j] \notin Thinking
  <2>1. Places(j) = {}
    BY <1>1, <1>3 DEF In, Places
  <2>2. QED
    BY <1>3, <2>1, FS_EmptySet
<1>4. QED
  BY <1>2, <1>3

-----------------------------------------------------------------------------
(* Type correctness; the inference gate loses no slot and queues nobody    *)
(* twice, whatever is rejected, refused or raised; no investigation        *)
(* executes a call again that succeeded; and none gives up with steps      *)
(* left: for any number of investigations, steps, attempts and slots.      *)
THEOREM ExecutorIsSound == Spec => []ExecutorSound
<1>1. IInv => ExecutorSound
  <2> SUFFICES ASSUME IInv PROVE ExecutorSound
    OBVIOUS
  <2>1. \A j \in Jobs : CallsFresh(j) /\ Closure(j)
    BY DEF IInv, JobSound
  <2>2. NoRepeatedCall
    BY <2>1 DEF CallsFresh, NoRepeatedCall
  <2>3. GivesUpLate
    BY <2>1 DEF Closure, GivesUpLate
  <2>4. QED
    BY <2>2, <2>3, LineIsGate DEF IInv, ExecutorSound
<1>2. QED
  BY <1>1, Inductive, PTL

(* However the investigations of one agent interleave on the fields their  *)
(* executor shares, a tool is executed for the family and the incident its *)
(* own investigation asked about.                                          *)
THEOREM ToolsFit == Spec => []ToolFitsRequest
<1>1. IInv => ToolFitsRequest
  BY DEF IInv, JobSound, Asked, ToolFitsRequest
<1>2. QED
  BY <1>1, Inductive, PTL

(* An investigation that no other one overlapped concludes from all it     *)
(* observed, and only from what is about its own incident.                 *)
THEOREM AloneCompletes == Spec => []AloneIsComplete
<1>1. IInv => AloneIsComplete
  <2> SUFFICES ASSUME IInv, NEW j \in Jobs \ overlapped, Closing(j)
               PROVE  /\ Basis(j) = evidence[j]
                      /\ \A item \in Basis(j) :
                           item.by = j /\ (item.call # None => item.call.focus = j)
    BY DEF AloneIsComplete
  <2>1. Own(j)
    BY DEF IInv, AloneSound, Closing, Running, Thinking
  <2>2. QED
    BY <2>1 DEF Own, Basis
<1>2. QED
  BY <1>1, Inductive, PTL
=============================================================================
