---------------------------- MODULE ControlLoop ----------------------------
(***************************************************************************)
(* The control loop of the Technical Lead (agents/technical_lead.py): the  *)
(* coordinator submits take-charge, triage and review commands to one      *)
(* serial inbox and waits for each with a timeout, but a command outlives  *)
(* the timeout of its submitter.  Time is discrete and counted in seconds; *)
(* it passes only while nothing can run at once.                           *)
(***************************************************************************)
EXTENDS Integers, Sequences

CONSTANTS AssignTimeout, TriageTimeout, ReviewTimeout, \* of the submissions
          ActionTimeout,  \* of one AgentSpeak reasoning action
          RetryDelay,     \* between two cycles of a review
          Cycles,         \* REVIEW_BDI_MAX_CYCLES
          Attempts,       \* answers a review cycle asks the model for
          InboxMax,       \* CONTROL_INBOX_MAXSIZE
          MaxFaults,      \* exceptions and restarts of the backend
          None

(* The longest review, which may take longer than its submitter waits.     *)
Longest == Cycles * ActionTimeout + (Cycles - 1) * RetryDelay

ASSUME BoundsAssumption ==
    /\ AssignTimeout \in Nat \ {0} /\ TriageTimeout \in Nat \ {0} /\ ReviewTimeout \in Nat \ {0}
    /\ ActionTimeout \in Nat \ {0} /\ RetryDelay \in Nat /\ Cycles \in Nat \ {0}
    /\ Attempts \in Nat \ {0} /\ InboxMax \in Nat \ {0} /\ MaxFaults \in Nat
(* The relation between the configured times that makes the loop work.     *)
ASSUME MarginAssumption ==
    /\ Longest < ReviewTimeout + AssignTimeout
    /\ AssignTimeout <= ActionTimeout /\ ActionTimeout <= TriageTimeout

VARIABLES stage,  \* the submission the item of the coordinator is at
          left,   \* stages at which items were left that will be resumed
          sub,    \* the submission it waits for, with the time it has left
          queue,  \* _control_inbox
          work,   \* the command under execution
          faults
vars == <<stage, left, sub, queue, work, faults>>

Kinds    == {"assign", "triage", "review"}
Commands == [kind : Kinds, live : BOOLEAN]     \* live: its submitter still waits
Works    == [kind : Kinds, live : BOOLEAN, cycle : 1 .. Cycles, try : 1 .. Attempts,
             acting : BOOLEAN, left : Nat]
Waits    == [at : {"put", "wait"}, left : Nat]

ASSUME NoneAssumption == None \notin Works \cup Waits

Init ==
    /\ stage = "idle" /\ left = {} /\ sub = None
    /\ queue = <<>> /\ work = None /\ faults = 0

Fault == faults < MaxFaults /\ faults' = faults + 1

TimeoutOf(kind) == CASE kind = "assign" -> AssignTimeout
                     [] kind = "triage" -> TriageTimeout
                     [] kind = "review" -> ReviewTimeout

-----------------------------------------------------------------------------
(* The coordinator.  An investigation is the time between triage and       *)
(* review; it may take none, as its result may be waiting.                 *)

Submit(kind) == sub' = [at |-> "put", left |-> TimeoutOf(kind)]
Enter(s)     == stage' = s /\ IF s \in Kinds THEN Submit(s) ELSE sub' = None

(* A new item, or one whose incident an earlier item left behind.          *)
Begin(s) ==
    /\ stage = "idle" /\ s \in left \cup {"assign"}
    /\ Enter(s) /\ left' = left \ {s} /\ UNCHANGED <<queue, work, faults>>

(* wait_for(put), then wait_for(completed) with the same timeout.          *)
HasRoom == Len(queue) < InboxMax

Put ==
    /\ sub # None /\ sub.at = "put" /\ HasRoom
    /\ sub' = [at |-> "wait", left |-> TimeoutOf(stage)]
    /\ queue' = Append(queue, [kind |-> stage, live |-> TRUE])
    /\ UNCHANGED <<stage, left, work, faults>>

(* What follows an answer, an error or a timeout of the submission: after  *)
(* a failed triage the incident stays TAKEN_IN_CHARGE and is resumed by    *)
(* the next item; a review that fails is replaced by the fallback.         *)
After(ok) ==
    CASE stage = "assign" /\ ok -> Enter("triage") /\ UNCHANGED left
      [] stage = "triage" /\ ok -> Enter("investigate") /\ UNCHANGED left
      [] stage = "triage" /\ ~ ok -> Enter("idle") /\ left' = left \cup {"triage"}
      [] OTHER -> Enter("idle") /\ UNCHANGED left

(* The future is cancelled; the command stays where it is.                 *)
Abandoned(q) == [i \in 1 .. Len(q) |-> [q[i] EXCEPT !.live = FALSE]]

GiveUp ==
    /\ sub # None /\ sub.left = 0 /\ After(FALSE)
    /\ queue' = Abandoned(queue)
    /\ work' = IF work = None THEN None ELSE [work EXCEPT !.live = FALSE]
    /\ UNCHANGED faults

(* The task of the item ends with a result, or without one.                *)
Investigated ==
    /\ stage = "investigate" /\ (Enter("review") \/ Enter("idle"))
    /\ UNCHANGED <<left, queue, work, faults>>

(* An exception releases the worker during the investigation, which the    *)
(* next item of the same incident finds running or done.                   *)
Release ==
    /\ Fault /\ stage = "investigate" /\ Enter("idle")
    /\ left' = left \cup {"investigate"} /\ UNCHANGED <<queue, work>>

Restart ==
    /\ Fault /\ Enter("idle") /\ left' \in SUBSET {"triage", "investigate"}
    /\ queue' = <<>> /\ work' = None

-----------------------------------------------------------------------------
(* ControlBehaviour: one command at a time.                                *)

UnlimitedTriage(kind) ==               \* mutant: triage may reason as long as a review
    CASE kind = "assign" -> 0 [] kind = "triage" -> ReviewTimeout [] OTHER -> ActionTimeout

ActionTime(kind) == IF kind = "assign" THEN 0 ELSE ActionTimeout

Take ==
    /\ work = None /\ queue # <<>> /\ queue' = Tail(queue)
    /\ work' = [kind |-> Head(queue).kind, live |-> Head(queue).live, cycle |-> 1, try |-> 1,
                acting |-> TRUE, left |-> ActionTime(Head(queue).kind)]
    /\ UNCHANGED <<stage, left, sub, faults>>

FinishLive(ok) ==                      \* mutant: setting a cancelled future raises
    /\ work.live /\ work' = None
    /\ After(ok) /\ UNCHANGED <<queue, faults>>

(* The completed future is set, unless its submitter has gone.             *)
Finish(ok) ==
    /\ work' = None /\ UNCHANGED <<queue, faults>>
    /\ IF work.live THEN After(ok) ELSE UNCHANGED <<stage, left, sub>>

Doing(kind) == work # None /\ work.kind = kind /\ work.acting

TakeInCharge == Doing("assign") /\ Finish(TRUE)

(* The AgentSpeak cycle reaches a commitment while its action runs.         *)
Committed(kind) == Doing(kind) /\ Finish(TRUE)

(* It is the recommended specialist, if available.                          *)
TriageCommits == Committed("triage")

(* The only answer is rejected, its call raises, or the action times out.  *)
TriageFails == Doing("triage") /\ Finish(FALSE)

(* The answer satisfies the contract and AgentSpeak commits the decision.  *)
ReviewCommits == Committed("review")

(* The answer violates the contract: the model is asked again, and after   *)
(* the last attempt the deterministic fallback is the review.              *)
ReviewRejected ==
    /\ Doing("review")
    /\ \/ /\ work.try < Attempts /\ work' = [work EXCEPT !.try = @ + 1]
          /\ UNCHANGED <<stage, left, sub, queue, faults>>
       \/ work.try >= Attempts /\ Finish(TRUE)

OneCycleMore ==                        \* mutant: the error is raised one cycle late
    /\ Doing("review") /\ work.left = 0
    /\ \/ /\ work.cycle <= Cycles
          /\ work' = [work EXCEPT !.acting = FALSE, !.left = RetryDelay]
          /\ UNCHANGED <<stage, left, sub, queue, faults>>
       \/ work.cycle > Cycles /\ Finish(FALSE)

(* The action timed out: another cycle after a pause, or the error.        *)
CycleFails ==
    /\ Doing("review") /\ work.left = 0
    /\ \/ /\ work.cycle < Cycles
          /\ work' = [work EXCEPT !.acting = FALSE, !.left = RetryDelay]
          /\ UNCHANGED <<stage, left, sub, queue, faults>>
       \/ work.cycle >= Cycles /\ Finish(FALSE)

NextCycle ==
    /\ work # None /\ ~ work.acting /\ work.left = 0
    /\ work' = [work EXCEPT !.acting = TRUE, !.cycle = @ + 1, !.try = 1, !.left = ActionTimeout]
    /\ UNCHANGED <<stage, left, sub, queue, faults>>

-----------------------------------------------------------------------------
(* A second passes while somebody waits and nothing can run at once.       *)
Tick ==
    /\ sub # None \/ work # None
    /\ sub # None => sub.left > 0 /\ ~ (sub.at = "put" /\ HasRoom)
    /\ IF work = None THEN queue = <<>> ELSE work.left > 0
    /\ sub' = IF sub = None THEN None ELSE [sub EXCEPT !.left = @ - 1]
    /\ work' = IF work = None THEN None ELSE [work EXCEPT !.left = @ - 1]
    /\ UNCHANGED <<stage, left, queue, faults>>

Coordinator ==
    \/ \E s \in {"assign", "triage", "investigate"} : Begin(s)
    \/ Put \/ GiveUp \/ Investigated \/ Release \/ Restart

TechnicalLead == Take \/ TakeInCharge \/ TriageCommits \/ TriageFails \/ ReviewCommits
                 \/ ReviewRejected \/ CycleFails \/ NextCycle

Next == Coordinator \/ TechnicalLead \/ Tick

Spec == Init /\ [][Next]_vars

(* Time passes and timers fire; the model need not answer.                 *)
Urgent == Put \/ GiveUp \/ Take \/ TakeInCharge \/ CycleFails \/ NextCycle
          \/ (work # None /\ work.left = 0 /\ TriageFails)

FairSpec == Spec /\ WF_vars(Tick) /\ WF_vars(Urgent)

-----------------------------------------------------------------------------
(* Properties.                                                             *)

TypeOK ==
    /\ stage \in Kinds \cup {"idle", "investigate"} /\ left \in SUBSET {"triage", "investigate"}
    /\ sub \in Waits \cup {None}
    /\ queue \in Seq(Commands) /\ Len(queue) <= InboxMax
    /\ work \in Works \cup {None} /\ faults \in 0 .. MaxFaults

(* Unless an exception or a restart left an investigation to be resumed,   *)
(* the Technical Lead takes an incident in charge before the five seconds  *)
(* of submit_incident are over, although a review may outlive its own      *)
(* submission and is not interrupted (technical_lead.py 430).              *)
AssignIsServed == sub # None /\ stage = "assign" /\ sub.left = 0 => faults > 0

(* Type correctness, and under the same condition the inbox never holds a  *)
(* command nobody waits for, nor a second one, so its limit is out of      *)
(* reach; and a review is given up, and replaced by the fallback, only in  *)
(* its last cycle: whatever the first cycles answer reaches the incident.  *)
InboxSound ==
    /\ TypeOK
    /\ faults = 0 => Len(queue) <= 1 /\ \A i \in 1 .. Len(queue) : queue[i].live
    /\ sub # None /\ stage = "review" /\ sub.left = 0 /\ faults = 0
       => work # None /\ work.live /\ work.cycle = Cycles

(* However the model behaves, and however often a review fails, the        *)
(* Technical Lead becomes free again for the next command.                 *)
LeadGetsFree == work # None ~> work = None
=============================================================================
