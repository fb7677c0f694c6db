------------------------ MODULE AnomalyWatcherProofs ------------------------
(***************************************************************************)
(* Proofs about AnomalyWatcher for any finite set of results, any window,  *)
(* any poll interval that fits into it and any page size.                  *)
(***************************************************************************)
EXTENDS AnomalyWatcher, FiniteSetTheorems, TLAPS

Realtime == Results \ Historical
Due      == Results \ (Malformed \cup Historical \cup recorded)

(* The ages at which a result is in the window for its last poll interval, *)
(* and the results of one poll interval, d ticks after it began.           *)
LastChance == Lookback - Poll + 1 .. Lookback
Band(d)    == {q \in Realtime : age[q] \in d .. d + Poll - 1 /\ age[q] <= Lookback}

(* What the detectors produce within a poll interval fits into a page,     *)
(* whenever the interval is looked at.                                     *)
RateKept == \A d \in Nat : Cardinality(Band(d)) <= Size

PhaseSound == /\ pc # "deliver" => page = {}
              /\ pc = "down" => quiet = 0

(* While the loop sleeps after an undisturbed poll, no result is due that  *)
(* had its last chance at that poll.                                       *)
PollSeen ==
    pc = "wait" /\ quiet > Poll - wait =>
      \A r \in Due : age[r] # None => age[r] - (Poll - wait) \notin LastChance

(* An undisturbed poll has every result that has its last chance.          *)
PageSeen == pc = "deliver" /\ quiet > 0 => \A r \in Due : age[r] \in LastChance => r \in page

IInv == TypeOK /\ LostOnlyLate /\ RateKept /\ PhaseSound /\ PollSeen /\ PageSeen

USE WatcherAssumption

-----------------------------------------------------------------------------
(* Bands are finite, and a band that is part of another one has no more    *)
(* results.                                                                *)

LEMMA BandsAreFinite ==
    ASSUME NEW S \in SUBSET Results
    PROVE  IsFiniteSet(S) /\ Cardinality(S) \in Nat
  BY FS_Subset, FS_CardinalityType

LEMMA SmallerBand ==
    ASSUME NEW S \in SUBSET Results, NEW T \in SUBSET S, Cardinality(S) <= Size
    PROVE  Cardinality(T) <= Size
<1>1. IsFiniteSet(S) /\ Cardinality(S) \in Nat /\ Cardinality(T) \in Nat
  BY BandsAreFinite
<1>2. Cardinality(T) <= Cardinality(S)
  BY <1>1, FS_Subset
<1>3. QED
  BY <1>1, <1>2

LEMMA InitIInv == Init => IInv
<1> SUFFICES ASSUME Init PROVE IInv
  OBVIOUS
<1>1. TypeOK
  <2>1. age \in [Results -> Ages \cup {None}]
    BY DEF Init
  <2>2. wait \in 0 .. Poll /\ quiet \in 0 .. Lookback
    BY DEF Init
  <2>3. QED
    BY <2>1, <2>2 DEF Init, TypeOK
<1>4. LostOnlyLate /\ PhaseSound /\ PageSeen
  <2>1. \A r \in Results : age[r] # Lookback + 1
    BY DEF Init
  <2>2. QED
    BY <2>1 DEF Init, LostOnlyLate, PhaseSound, PageSeen
<1>5. PollSeen
  BY DEF Init, PollSeen
<1>2. ASSUME NEW d \in Nat PROVE Cardinality(Band(d)) <= Size
  <2>1. Band(d) = {}
    BY DEF Init, Band, Realtime
  <2>2. QED
    BY <2>1, FS_EmptySet
<1>3. QED
  BY <1>1, <1>2, <1>4, <1>5 DEF IInv, RateKept

-----------------------------------------------------------------------------
(* The detectors: the new result is in the first band only, which has room *)
(* for it.                                                                 *)

LEMMA AppearStep ==
    ASSUME IInv, NEW r \in Results, Appear(r)
    PROVE  IInv'
<1>1. /\ age[r] = None /\ age' = [age EXCEPT ![r] = 0]
      /\ Cardinality({q \in Realtime : age[q] \in 0 .. Poll - 1}) < Size
      /\ UNCHANGED <<recorded, pc, wait, page, failed, lastError, quiet>>
  BY DEF Appear, Realtime
<1>2. TypeOK'
  BY <1>1 DEF IInv, TypeOK, Ages
<1>3. LostOnlyLate' /\ PhaseSound' /\ PageSeen'
  BY <1>1 DEF IInv, TypeOK, LostOnlyLate, PhaseSound, PageSeen, Due, LastChance
<1>4. PollSeen'
  BY <1>1 DEF IInv, TypeOK, PollSeen, Due, LastChance
<1>5. ASSUME NEW d \in Nat PROVE Cardinality(Band(d)') <= Size
  <2>1. CASE r \in Realtime /\ d = 0
    <3> DEFINE First == {q \in Realtime : age[q] \in 0 .. Poll - 1}
    <3>1. IsFiniteSet(First) /\ Cardinality(First) \in Nat
      <4>1. First \in SUBSET Results
        BY DEF Realtime
      <4> HIDE DEF First
      <4>2. QED
        BY <4>1, BandsAreFinite
    <3>2. Cardinality(First \cup {r}) <= Size
      <4>1. Cardinality(First) < Size
        BY <1>1
      <4> HIDE DEF First
      <4>2. Cardinality(First \cup {r}) = IF r \in First THEN Cardinality(First)
                                          ELSE Cardinality(First) + 1
        BY <3>1, FS_AddElement
      <4>3. QED
        BY <3>1, <4>1, <4>2
    <3>3. Band(d)' \subseteq First \cup {r} /\ First \cup {r} \subseteq Results
      BY <1>1, <2>1 DEF Band, Realtime, IInv, TypeOK
    <3>4. QED
      BY <3>2, <3>3, SmallerBand
  <2>2. CASE ~ (r \in Realtime /\ d = 0)
    <3>1. Band(d)' = Band(d)
      BY <1>1, <2>2 DEF Band, IInv, TypeOK
    <3>2. QED
      BY <3>1 DEF IInv, RateKept
  <2>3. QED
    BY <2>1, <2>2
<1>6. QED
  BY <1>2, <1>3, <1>4, <1>5 DEF IInv, RateKept

(* A tick: every band was a band one tick ago.                             *)
LEMMA TickStep == IInv /\ Tick => IInv'
<1> SUFFICES ASSUME IInv, Tick PROVE IInv'
  OBVIOUS
<1> DEFINE Aged(r) == CASE age[r] = None -> None
                       [] age[r] = Lookback + 1 -> IF r \in page THEN age[r] ELSE None
                       [] OTHER -> age[r] + 1
<1>1. /\ pc = "wait" => wait > 0
      /\ wait' = IF pc = "wait" THEN wait - 1 ELSE wait
      /\ quiet' = IF pc = "wait" THEN (IF quiet < Lookback THEN quiet + 1 ELSE quiet) ELSE 0
      /\ age' = [r \in Results |-> Aged(r)]
      /\ recorded' = {r \in recorded : age'[r] # None}
      /\ UNCHANGED <<pc, page, failed, lastError>>
  BY DEF Tick
<1>2. \A r \in Results : age[r] \in Ages \cup {None}
  BY DEF IInv, TypeOK
<1>3. \A r \in Results : /\ age'[r] \in Ages \cup {None}
                         /\ age'[r] # None => age'[r] \in {age[r], age[r] + 1}
                         /\ age[r] \in 0 .. Lookback => age'[r] = age[r] + 1
                         /\ age[r] \notin 0 .. Lookback /\ age'[r] # None =>
                              r \in page /\ age'[r] = Lookback + 1
  BY <1>1, <1>2 DEF Ages
<1>4. TypeOK'
  <2>1. age' \in [Results -> Ages \cup {None}]
    BY <1>1, <1>3
  <2>2. quiet' \in 0 .. Lookback /\ wait' \in 0 .. Poll
    BY <1>1 DEF IInv, TypeOK
  <2>3. QED
    BY <1>1, <2>1, <2>2 DEF IInv, TypeOK
<1>5. ASSUME NEW r \in Due' PROVE r \in Results /\ (age'[r] # None => r \in Due)
  BY <1>1 DEF Due
<1>6. LostOnlyLate'
  <2> SUFFICES ASSUME NEW r \in Due', age'[r] = Lookback + 1 PROVE quiet' <= Poll
    BY DEF LostOnlyLate, Due
  <2>1. CASE pc # "wait"
    BY <1>1, <2>1
  <2>2. CASE pc = "wait"
    <3>1. r \in Due /\ age[r] = Lookback
      BY <1>2, <1>3, <1>5, <2>2 DEF IInv, PhaseSound, Ages
    <3>2. wait \in 1 .. Poll /\ quiet \in Nat
      BY <1>1, <2>2 DEF IInv, TypeOK
    <3>3. Lookback - (Poll - wait) \in LastChance
      BY <3>2 DEF LastChance
    <3>4. ~ quiet > Poll - wait
      BY <2>2, <3>1, <3>3 DEF IInv, PollSeen
    <3>5. QED
      BY <1>1, <2>2, <3>2, <3>4
  <2>3. QED
    BY <2>1, <2>2
<1>7. ASSUME NEW d \in Nat PROVE Cardinality(Band(d)') <= Size
  <2> DEFINE e == IF d = 0 THEN 0 ELSE d - 1
  <2>1. Band(d)' \subseteq Band(e)
    BY <1>2, <1>3 DEF Band, Realtime, Ages
  <2>2. Cardinality(Band(e)) <= Size /\ Band(e) \subseteq Results
    BY DEF IInv, RateKept, Band, Realtime
  <2>3. QED
    BY <2>1, <2>2, SmallerBand
<1>8. PhaseSound' /\ PageSeen'
  BY <1>1 DEF IInv, PhaseSound, PageSeen
<1>9. PollSeen'
  <2> SUFFICES ASSUME pc = "wait", quiet' > Poll - wait', NEW r \in Due', age'[r] # None
               PROVE  age'[r] - (Poll - wait') \notin LastChance
    BY <1>1 DEF PollSeen
  <2>1. r \in Due /\ age[r] # None /\ age'[r] = age[r] + 1
    BY <1>2, <1>3, <1>5 DEF IInv, PhaseSound, Ages
  <2>2. wait \in 1 .. Poll /\ quiet \in 0 .. Lookback /\ wait' = wait - 1
    BY <1>1 DEF IInv, TypeOK
  <2>3. quiet > Poll - wait
    BY <1>1, <2>2
  <2>4. age[r] - (Poll - wait) \notin LastChance
    BY <2>1, <2>3 DEF IInv, PollSeen
  <2>5. age[r] \in Int
    BY <1>2, <2>1 DEF Ages, Due
  <2>6. QED
    BY <2>1, <2>2, <2>4, <2>5
<1>10. QED
  BY <1>4, <1>6, <1>7, <1>8, <1>9 DEF IInv, RateKept

-----------------------------------------------------------------------------
(* One poll.  A result that has its last chance and is not on the page     *)
(* would be one too many in its band: a full page has only older ones.     *)

LEMMA FetchStep == IInv /\ Fetch => IInv'
<1> SUFFICES ASSUME IInv, Fetch PROVE IInv'
  OBVIOUS
<1>1. /\ pc = "wait" /\ wait = 0 /\ pc' = "deliver" /\ failed' = FALSE
      /\ IsPage(page') /\ UNCHANGED <<age, recorded, wait, lastError, quiet>>
  BY DEF Fetch
<1>2. page' \subseteq Realtime /\ page' \subseteq InWindow
  BY <1>1 DEF IsPage, InWindow, Realtime
<1>3. TypeOK' /\ LostOnlyLate' /\ PhaseSound' /\ PollSeen'
  BY <1>1, <1>2 DEF IInv, TypeOK, LostOnlyLate, PhaseSound, PollSeen, Realtime
<1>4. RateKept'
  BY <1>1 DEF IInv, RateKept, Band
<1>5. ASSUME NEW r \in Due, age[r] \in LastChance, r \notin page'
      PROVE  FALSE
  <2>1. r \in InWindow \ page'
    BY <1>5 DEF Due, InWindow, LastChance
  <2>2. Cardinality(page') = Size /\ \A q \in page' : age[q] >= age[r]
    BY <1>1, <2>1 DEF IsPage
  <2>3. page' \cup {r} \subseteq Band(age[r])
    BY <1>2, <1>5, <2>1, <2>2 DEF Band, InWindow, Realtime, LastChance
  <2>4. age[r] \in Nat
    BY <2>1 DEF InWindow
  <2>5. Cardinality(page' \cup {r}) <= Size
    BY <2>3, <2>4, SmallerBand DEF IInv, RateKept, Band, Realtime
  <2>6. Cardinality(page' \cup {r}) = Size + 1
    BY <1>2, <2>1, <2>2, BandsAreFinite, FS_AddElement DEF Realtime
  <2>7. QED
    BY <2>5, <2>6
<1>6. QED
  BY <1>1, <1>3, <1>4, <1>5 DEF IInv, PageSeen, Due

(* The other steps of a poll, and of a process that ends and starts, leave *)
(* the results as old as they are.                                         *)
LEMMA SameAges ==
    ASSUME RateKept, UNCHANGED age
    PROVE  RateKept'
  BY DEF RateKept, Band

LEMMA DeliverStep ==
    ASSUME IInv, NEW r \in Results, Deliver(r) \/ DeliveryFails(r)
    PROVE  IInv'
<1>1. /\ pc = "deliver" /\ r \in page /\ page' = page \ {r}
      /\ UNCHANGED <<age, pc, wait, lastError>>
      /\ failed' \in BOOLEAN /\ quiet' \in {0, quiet} /\ recorded \subseteq recorded'
  BY DEF Deliver, DeliveryFails, IInv, TypeOK
<1>2. TypeOK'
  BY <1>1 DEF Deliver, DeliveryFails, Mapped, IInv, TypeOK
<1>3. LostOnlyLate' /\ PhaseSound' /\ PollSeen'
  BY <1>1 DEF IInv, TypeOK, LostOnlyLate, PhaseSound, PollSeen
<1>4. PageSeen'
  BY <1>1 DEF Deliver, DeliveryFails, Mapped, IInv, PageSeen, Due
<1>5. QED
  BY <1>1, <1>2, <1>3, <1>4, SameAges DEF IInv

LEMMA FetchFailsStep == IInv /\ FetchFails => IInv'
<1> SUFFICES ASSUME IInv, FetchFails PROVE IInv'
  OBVIOUS
<1>1. TypeOK' /\ RateKept'
  BY SameAges DEF IInv, TypeOK, FetchFails
<1>2. LostOnlyLate' /\ PhaseSound' /\ PollSeen' /\ PageSeen'
  <2>1. /\ pc = "wait" /\ quiet' = 0 /\ wait' = Poll /\ UNCHANGED <<age, recorded, pc, page>>
    BY DEF FetchFails
  <2>2. LostOnlyLate' /\ PhaseSound' /\ PageSeen'
    BY <2>1 DEF IInv, LostOnlyLate, PhaseSound, PageSeen
  <2>3. PollSeen'
    BY <2>1 DEF PollSeen
  <2>4. QED
    BY <2>2, <2>3
<1>3. QED
  BY <1>1, <1>2 DEF IInv

LEMMA EndPollStep == IInv /\ EndPoll => IInv'
<1> SUFFICES ASSUME IInv, EndPoll PROVE IInv'
  OBVIOUS
<1>1. TypeOK' /\ RateKept'
  <2>1. /\ pc' = "wait" /\ wait' = Poll /\ lastError' = failed /\ failed' = FALSE
        /\ UNCHANGED <<age, recorded, page, quiet>>
    BY DEF EndPoll
  <2>2. lastError' \in BOOLEAN /\ failed' \in BOOLEAN
    BY <2>1 DEF IInv, TypeOK
  <2>3. QED
    BY <2>1, <2>2, SameAges DEF IInv, TypeOK
<1>2. LostOnlyLate' /\ PhaseSound' /\ PageSeen'
  BY DEF IInv, EndPoll, LostOnlyLate, PhaseSound, PageSeen
<1>3. PollSeen'
  <2>1. /\ pc = "deliver" /\ page = {} /\ wait' = Poll /\ UNCHANGED <<age, recorded, quiet>>
    BY DEF EndPoll
  <2> SUFFICES ASSUME quiet > Poll - Poll, NEW r \in Due, age[r] # None,
                      age[r] - (Poll - Poll) \in LastChance
               PROVE  FALSE
    BY <2>1 DEF PollSeen, Due, LastChance
  <2>2. age[r] \in LastChance /\ quiet > 0
    BY DEF IInv, TypeOK, Ages, Due
  <2>3. QED
    BY <2>1, <2>2 DEF IInv, PageSeen
<1>4. QED
  BY <1>1, <1>2, <1>3 DEF IInv

LEMMA StopStep == IInv /\ (Stop \/ Start) => IInv'
<1> SUFFICES ASSUME IInv, Stop \/ Start PROVE IInv'
  OBVIOUS
<1>1. TypeOK' /\ RateKept'
  <2>1. /\ pc' \in {"down", "wait"} /\ wait' \in 0 .. Poll /\ lastError' \in BOOLEAN
        /\ failed' \in BOOLEAN /\ page' \subseteq Realtime /\ quiet' \in 0 .. Lookback
        /\ UNCHANGED <<age, recorded>>
    <3> USE DEF IInv, TypeOK, Realtime
    <3>1. CASE Stop
      <4>1. /\ pc' = "down" /\ wait' = 0 /\ lastError' = FALSE /\ failed' = FALSE
            /\ page' = {} /\ quiet' = 0 /\ UNCHANGED <<age, recorded>>
        BY <3>1 DEF Stop
      <4>2. 0 \in 0 .. Poll /\ 0 \in 0 .. Lookback
        OBVIOUS
      <4>3. QED
        BY <4>1, <4>2
    <3>2. CASE Start
      BY <3>2 DEF Start, Realtime, IInv, TypeOK
    <3>3. QED
      BY <3>1, <3>2
  <2>2. QED
    BY <2>1, SameAges DEF IInv, TypeOK, Realtime
<1>2. LostOnlyLate' /\ PhaseSound' /\ PollSeen' /\ PageSeen'
  <2>1. /\ quiet' = 0 /\ page' = {} /\ pc' # "deliver" /\ wait' \in 0 .. Poll
        /\ UNCHANGED <<age, recorded>>
    BY DEF IInv, TypeOK, PhaseSound, Stop, Start
  <2>2. LostOnlyLate' /\ PhaseSound' /\ PageSeen'
    BY <2>1 DEF LostOnlyLate, PhaseSound, PageSeen
  <2>3. PollSeen'
    <3>1. \A w \in 0 .. Poll : ~ (0 > Poll - w)
      OBVIOUS
    <3>2. ~ (quiet' > Poll - wait')
      BY <2>1, <3>1, Zenon
    <3>3. QED
      BY <3>2 DEF PollSeen
  <2>4. QED
    BY <2>2, <2>3
<1>3. QED
  BY <1>1, <1>2 DEF IInv

-----------------------------------------------------------------------------
LEMMA StepKeeps == IInv /\ [Next]_vars => IInv'
<1> SUFFICES ASSUME IInv, [Next]_vars PROVE IInv'
  OBVIOUS
<1>1. ASSUME NEW r \in Results, Appear(r) \/ Deliver(r) \/ DeliveryFails(r) PROVE IInv'
  BY <1>1, AppearStep, DeliverStep
<1>2. CASE Tick \/ FetchFails \/ Fetch \/ EndPoll \/ Stop \/ Start
  BY <1>2, TickStep, FetchFailsStep, FetchStep, EndPollStep, StopStep
<1>3. CASE UNCHANGED vars
  BY <1>3 DEF vars, IInv, TypeOK, LostOnlyLate, RateKept, Band, PhaseSound, PollSeen, PageSeen,
              Due
<1>4. QED
  BY <1>1, <1>2, <1>3 DEF Next

(* For every window, poll interval and page size: a real-time result that  *)
(* leaves the window unrecorded had trouble in the last poll interval of   *)
(* its window, as long as the detectors produce no more results per        *)
(* interval than a page holds (opensearch_client.py 36).                   *)
THEOREM NothingSlips == Spec => []NothingSlipsBy
<1>1. IInv => NothingSlipsBy
  BY DEF IInv, NothingSlipsBy
<1>2. QED
  BY <1>1, InitIInv, StepKeeps, PTL DEF Spec
=============================================================================
