-------------------------- MODULE AnomalyWatcher --------------------------
(***************************************************************************)
(* The OpenSearch poll loop (integrations/opensearch_watcher.py) against   *)
(* the sliding window and the page limit of its query                      *)
(* (integrations/opensearch_client.py).  A result is offered again by every *)
(* poll of its window, and that is the only retry there is.  Time is       *)
(* discrete; a result is known by its age, so that the clock needs no      *)
(* bound, and its identifier is free again one tick after its window.      *)
(***************************************************************************)
EXTENDS Integers, FiniteSets, TLC

CONSTANTS Results,     \* identifiers of detector results
          Malformed,   \* those the mapper rejects
          Historical,  \* those of a historical analysis, which carry a task_id
          Lookback, Poll,  \* ticks a result is searched for, and between polls
          Size,        \* of a page of the search
          None

ASSUME WatcherAssumption ==
    /\ IsFiniteSet(Results) /\ None \notin Nat
    /\ Malformed \subseteq Results /\ Historical \subseteq Results
    /\ Poll \in Nat \ {0} /\ Size \in Nat \ {0} /\ Lookback \in Nat /\ Poll <= Lookback

VARIABLES age,       \* time since execution_end_time, None while there is no such result
          recorded,  \* results on_anomaly made durable
          pc,        \* "wait", "deliver" or "down"
          wait,      \* of the poll loop, left
          page,      \* hits of this poll not yet delivered
          failed,    \* this poll could not deliver one
          lastError,
          quiet      \* ticks since something last went wrong
vars == <<age, recorded, pc, wait, page, failed, lastError, quiet>>

Ages == 0..Lookback + 1
InWindow == {r \in Results \ Historical : age[r] \in 0..Lookback}

Init ==
    /\ age = [r \in Results |-> None] /\ recorded = {}
    /\ pc = "wait" /\ wait = 0 /\ page = {}
    /\ failed = FALSE /\ lastError = FALSE /\ quiet = 0

-----------------------------------------------------------------------------
(* The detectors.  They are assumed to produce no more results within one  *)
(* poll interval than a page holds: with more, results would be lost that  *)
(* no later page can show.                                                 *)

Appear(r) ==
    /\ age[r] = None
    /\ Cardinality({q \in Results \ Historical : age[q] \in 0..Poll - 1}) < Size
    /\ age' = [age EXCEPT ![r] = 0]
    /\ UNCHANGED <<recorded, pc, wait, page, failed, lastError, quiet>>

(* A tick while the loop sleeps; while a fetch or a delivery blocks, on a  *)
(* slow server or on the full queue of the intake; or while the process is *)
(* down.  The last two are trouble.                                        *)
Tick ==
    /\ pc = "wait" => wait > 0
    /\ wait' = IF pc = "wait" THEN wait - 1 ELSE wait
    /\ quiet' = IF pc = "wait" THEN (IF quiet < Lookback THEN quiet + 1 ELSE quiet) ELSE 0
    /\ age' = [r \in Results |->
                 CASE age[r] = None -> None
                   [] age[r] = Lookback + 1 -> IF r \in page THEN age[r] ELSE None
                   [] OTHER -> age[r] + 1]
    /\ recorded' = {r \in recorded : age'[r] # None}
    /\ UNCHANGED <<pc, page, failed, lastError>>

-----------------------------------------------------------------------------
(* One poll.                                                               *)

FetchFails ==
    /\ pc = "wait" /\ wait = 0
    /\ lastError' = TRUE /\ wait' = Poll /\ quiet' = 0
    /\ UNCHANGED <<age, recorded, pc, page, failed>>

NewestPage(q) ==                       \* mutant: sort by execution_end_time, descending
    /\ q \subseteq InWindow
    /\ \/ q = InWindow
       \/ Cardinality(q) = Size
    /\ Cardinality(q) <= Size
    /\ \A r \in q, o \in InWindow \ q : age[r] <= age[o]

(* A page holds the oldest results of the window, recorded or not; the     *)
(* order of results of the same time is up to the server.                  *)
IsPage(q) ==
    /\ q \subseteq InWindow
    /\ \/ q = InWindow
       \/ Cardinality(q) = Size
    /\ Cardinality(q) <= Size
    /\ \A r \in q, o \in InWindow \ q : age[r] >= age[o]

Fetch ==
    /\ pc = "wait" /\ wait = 0
    /\ \E q \in SUBSET InWindow : IsPage(q) /\ page' = q
    /\ pc' = "deliver" /\ failed' = FALSE
    /\ UNCHANGED <<age, recorded, wait, lastError, quiet>>

Mapped(r) == r \notin Malformed

(* The mapper drops a malformed hit.  The lookup of readable metadata may  *)
(* fail, which keeps the observation as it is, so it makes no difference   *)
(* here; a result that is a duplicate stays recorded.                      *)
Deliver(r) ==
    /\ pc = "deliver" /\ r \in page
    /\ page' = page \ {r}
    /\ recorded' = IF Mapped(r) THEN recorded \cup {r} ELSE recorded
    /\ UNCHANGED <<age, pc, wait, failed, lastError, quiet>>

(* on_anomaly raises: the next poll offers the result again.               *)
DeliveryFails(r) ==
    /\ pc = "deliver" /\ r \in page /\ Mapped(r)
    /\ page' = page \ {r}
    /\ failed' = TRUE /\ quiet' = 0
    /\ UNCHANGED <<age, recorded, pc, wait, lastError>>

EndPoll ==
    /\ pc = "deliver" /\ page = {}
    /\ pc' = "wait" /\ wait' = Poll
    /\ lastError' = failed /\ failed' = FALSE
    /\ UNCHANGED <<age, recorded, page, quiet>>

-----------------------------------------------------------------------------
(* stop() ends the loop between two polls; a crash, or the cancellation of *)
(* the task, ends it anywhere.  Only the inbox outlives the process.       *)
Stop ==
    /\ pc # "down"
    /\ pc' = "down" /\ quiet' = 0
    /\ wait' = 0 /\ page' = {} /\ failed' = FALSE /\ lastError' = FALSE
    /\ UNCHANGED <<age, recorded>>

Start ==
    /\ pc = "down" /\ pc' = "wait"
    /\ UNCHANGED <<age, recorded, wait, page, failed, lastError, quiet>>

Next ==
    \/ \E r \in Results : Appear(r) \/ Deliver(r) \/ DeliveryFails(r)
    \/ Tick \/ FetchFails \/ Fetch \/ EndPoll \/ Stop \/ Start

Spec == Init /\ [][Next]_vars

-----------------------------------------------------------------------------
(* A real-time result that leaves the window unrecorded had trouble within *)
(* the last poll interval of its window: however many older results fill   *)
(* the pages before, and however often polls and deliveries failed before, *)
(* one undisturbed poll at the end is enough.                              *)
LostOnlyLate ==
    \A r \in Results \ (Malformed \cup Historical \cup recorded) :
        age[r] = Lookback + 1 => quiet <= Poll

TypeOK ==
    /\ age \in [Results -> Ages \cup {None}]
    /\ recorded \subseteq Results \ (Malformed \cup Historical)
    /\ pc \in {"wait", "deliver", "down"} /\ wait \in 0..Poll
    /\ page \subseteq Results \ Historical
    /\ failed \in BOOLEAN /\ lastError \in BOOLEAN /\ quiet \in 0..Lookback

(* Type correctness, and that nothing slips by.                            *)
NothingSlipsBy == TypeOK /\ LostOnlyLate

Interchangeable == Permutations(Results \ (Malformed \cup Historical))
=============================================================================
