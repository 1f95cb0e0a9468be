-------------------------- MODULE ApprovalProcess --------------------------
(***************************************************************************)
(* What the approval engine promises: one workflow as an atomic state      *)
(* machine.  Every operation changes the status, the steps and the event   *)
(* log in one step, as README.md ("committed in a single atomic PostgreSQL *)
(* ACID transaction") and docs/FEATURES.md, section 1, describe it.        *)
(* SerialWorkflow shows that the handlers of WorkflowService implement     *)
(* this when they run one after the other.                                 *)
(***************************************************************************)
EXTENDS Integers, Sequences

CONSTANTS Steps, StepOrder, StepPolicy, TotalSteps

VARIABLES
  flow,      \* does it exist, its status, the order whose reviewers it awaits
  verdict,   \* what became of each step
  log,       \* the events, oldest first
  used       \* the workflow has existed

avars == <<flow, verdict, log, used>>

NoFlow    == [exists |-> FALSE, status |-> "DRAFT", order |-> 1]
NoVerdict == [s \in Steps |-> "ABSENT"]

Level    == {s \in Steps : StepOrder[s] = flow.order /\ verdict[s] # "ABSENT"}
Awaited  == {s \in Level : verdict[s] = "PENDING"}

\* the flow moves to status st and order n, and an event of kind k says so
Move(k, st, n, announcedOrder, resolved) ==
  /\ flow' = [flow EXCEPT !.status = st, !.order = n]
  /\ log' = Append(log, [kind |-> k, prev |-> flow.status, cur |-> st,
                         order |-> announcedOrder, resolved |-> resolved])
  /\ used' = used

AInit == flow = NoFlow /\ verdict = NoVerdict /\ log = <<>> /\ used = FALSE

Create ==
  /\ ~used /\ used' = TRUE
  /\ flow' = [exists |-> TRUE, status |-> "DRAFT", order |-> 1]
  /\ verdict' \in {[s \in Steps |-> "PENDING"], NoVerdict}
  /\ log' = log

Submit ==
  /\ flow.exists /\ flow.status = "DRAFT"
  /\ Move("submitted", "PENDING", flow.order, flow.order, FALSE)
  /\ verdict' = verdict

\* One reviewer approves.  If that leaves nobody to wait for at this order the
\* next order begins, or the workflow is approved.
Approve(s) ==
  LET skipped == IF StepPolicy[s] = "ANY_CAN_APPROVE" THEN Awaited \ {s} ELSE {}
      over    == Awaited \ skipped = {s}
  IN
  /\ flow.exists /\ flow.status = "PENDING" /\ s \in Awaited
  /\ verdict' = [t \in Steps |-> CASE t = s -> "APPROVED"
                                   [] t \in skipped -> "SKIPPED"
                                   [] OTHER -> verdict[t]]
  /\ IF over /\ flow.order >= TotalSteps
     THEN Move("approved", "APPROVED", flow.order, flow.order, TRUE)
     ELSE Move("step_approved", "PENDING",
               IF over THEN flow.order + 1 ELSE flow.order, flow.order, over)

\* A reviewer rejects, or a request that names no step of the order does:
\* whoever is still awaited is skipped and the workflow ends.
Reject(S) ==
  /\ flow.exists /\ flow.status = "PENDING"
  /\ verdict' = [t \in Steps |-> CASE t \in S -> "REJECTED"
                                   [] t \in Awaited \ S -> "SKIPPED"
                                   [] OTHER -> verdict[t]]
  /\ Move("rejected", "REJECTED", flow.order, flow.order, FALSE)

Cancel ==
  /\ flow.exists /\ flow.status \in {"DRAFT", "PENDING"}
  /\ Move("cancelled", "CANCELLED", flow.order, 0, FALSE)
  /\ verdict' = verdict

Purge ==
  /\ flow' = NoFlow /\ verdict' = NoVerdict /\ log' = <<>> /\ used' = used

ANext ==
  \/ Create \/ Submit \/ Cancel \/ Purge
  \/ \E s \in Steps : Approve(s)
  \/ \E S \in {{}} \cup {{s} : s \in Level} : Reject(S)

ASpec == AInit /\ [][ANext]_avars

-----------------------------------------------------------------------------
(* What it guarantees, for every such plan.                                *)

\* the plans createWorkflow stores: orders up to TotalSteps
Plan ==
  /\ StepOrder \in [Steps -> Int] /\ TotalSteps \in Nat \ {0}
  /\ \A s \in Steps : StepOrder[s] <= TotalSteps

\* every order up to the last has a step
NoGaps == \A n \in 1..TotalSteps : \E s \in Steps : StepOrder[s] = n

FlowStatus == {"DRAFT", "PENDING", "APPROVED", "REJECTED", "CANCELLED"}
Verdicts   == {"ABSENT", "PENDING", "APPROVED", "REJECTED", "SKIPPED"}
EventKinds == {"submitted", "step_approved", "approved", "rejected", "cancelled"}
Entry      == [kind : EventKinds, prev : FlowStatus, cur : FlowStatus, order : Int,
               resolved : BOOLEAN]

AType ==
  /\ flow \in [exists : BOOLEAN, status : FlowStatus, order : 1..TotalSteps]
  /\ verdict \in [Steps -> Verdicts]
  /\ log \in Seq(Entry)
  /\ used \in BOOLEAN

\* before its creation nothing is there
Unborn == ~used => flow = NoFlow /\ verdict = NoVerdict /\ log = <<>>

\* each event starts where the one before it ended, the last ends at the status
Chain ==
  /\ \A i \in 1..Len(log) : log[i].prev = IF i = 1 THEN "DRAFT" ELSE log[i - 1].cur
  /\ flow.status = IF Len(log) = 0 THEN "DRAFT" ELSE log[Len(log)].cur

\* a step is approved, or was spared by one that needs no other
Agreed(s) ==
  \/ verdict[s] = "APPROVED"
  \/ /\ verdict[s] = "SKIPPED"
     /\ \E t \in Steps : /\ StepOrder[t] = StepOrder[s]
                         /\ StepPolicy[t] = "ANY_CAN_APPROVE"
                         /\ verdict[t] = "APPROVED"

\* while nobody rejects, orders are agreed to in turn
InTurn ==
  flow.status \in {"DRAFT", "PENDING", "APPROVED"} =>
    \A s \in Steps : verdict[s] # "ABSENT" =>
      /\ StepOrder[s] \in 1..(flow.order - 1) => Agreed(s)
      /\ flow.status = "APPROVED" /\ StepOrder[s] >= 1 => Agreed(s)
      /\ flow.status # "APPROVED" /\ StepOrder[s] = flow.order
           => verdict[s] \in {"PENDING", "APPROVED"}
      /\ flow.status # "APPROVED" /\ StepOrder[s] > flow.order => verdict[s] = "PENDING"

\* the steps are stored together or not at all
AllOrNone == verdict = NoVerdict \/ \A s \in Steps : verdict[s] # "ABSENT"

\* a flow that waits awaits somebody
SomebodyAwaited ==
  flow.status \in {"DRAFT", "PENDING"} /\ verdict # NoVerdict =>
    \E s \in Steps : StepOrder[s] = flow.order /\ verdict[s] = "PENDING"

AInv == AType /\ Unborn /\ Chain /\ AllOrNone /\ InTurn
=============================================================================
