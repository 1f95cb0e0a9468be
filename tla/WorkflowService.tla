-------------------------- MODULE WorkflowService --------------------------
(***************************************************************************)
(* The approval handlers of workflow-api (services/workflow.service.ts):   *)
(* create, submit, approve, reject, cancel and the administrative delete,  *)
(* run by several handlers at once against one PostgreSQL database.        *)
(*                                                                         *)
(* Every `await db...` of the source is a statement that commits on its    *)
(* own, so every one of them is an action here and the handlers of all     *)
(* replicas interleave between them.  A handler works on the copy of the   *)
(* workflow row and of its steps that it read first (its snapshot); the    *)
(* code takes no lock and its UPDATEs test nothing but the id.             *)
(*                                                                         *)
(* The module follows ONE workflow: its row, its steps, and the outbox     *)
(* rows written for it.  Handlers of other workflows touch none of these.  *)
(***************************************************************************)
EXTENDS Integers, Sequences, FiniteSets

CONSTANTS
  Workers,      \* handler invocations that can be in flight at once
  Steps,        \* the steps createWorkflow generates for the workflow
  StepOrder,    \* Steps -> stepOrder column
  StepPolicy,   \* Steps -> policy column
  TotalSteps,   \* totalSteps column: the largest stepOrder, at least 1
  NoStep,       \* `undefined`: a handler acts on no step
  Ops,          \* the operations clients issue
  MaxRequests,  \* bound: transition and delete requests issued
  MaxAbandons   \* bound: handlers cut short by a crash or a failed statement

Policies == {"ALL_MUST_APPROVE", "ANY_CAN_APPROVE"}
Transitions == {"submit", "approve", "reject", "cancel"}
AllOps == Transitions \cup {"create", "purge"}

ASSUME ConstantsAssumption ==
  /\ NoStep \notin Steps
  /\ StepOrder \in [Steps -> Int]
  /\ StepPolicy \in [Steps -> Policies]
  /\ TotalSteps \in Nat \ {0}
  /\ \A s \in Steps : StepOrder[s] <= TotalSteps
  /\ TotalSteps = 1 \/ \E s \in Steps : StepOrder[s] = TotalSteps
  /\ Ops \subseteq AllOps
  /\ MaxRequests \in Nat /\ MaxAbandons \in Nat

VARIABLES
  row,       \* the workflows row
  created,   \* the workflow's uuid has been used: it is never inserted again
  steps,     \* status of each workflow_steps row, "ABSENT" if there is none
  outbox,    \* the outbox_events rows of the workflow, oldest first
  req,       \* what each handler holds in its local variables
  issued,    \* requests started so far
  abandons   \* handlers cut short so far

vars == <<row, created, steps, outbox, req, issued, abandons>>

Status     == {"DRAFT", "PENDING", "APPROVED", "REJECTED", "CANCELLED"}
Terminal   == {"APPROVED", "REJECTED", "CANCELLED"}
StepStatus == {"ABSENT", "PENDING", "APPROVED", "REJECTED", "SKIPPED"}
Kinds      == {"submitted", "step_approved", "approved", "rejected", "cancelled"}

Row   == [exists : BOOLEAN, status : Status, order : Nat]
Event == [kind : Kinds, prev : Status, cur : Status, order : Nat,
          resolved : BOOLEAN]

PCs == {"idle", "insertSteps", "readSteps", "markStep", "settle",
        "saveEvent", "deleteOutbox", "deleteRow"}

Request == [pc : PCs, op : AllOps, row : Row, steps : [Steps -> StepStatus],
            target : Steps \cup {NoStep}, toSkip : SUBSET Steps]

NoRow   == [exists |-> FALSE, status |-> "DRAFT", order |-> 1]
NoSteps == [s \in Steps |-> "ABSENT"]
Idle    == [pc |-> "idle", op |-> "create", row |-> NoRow, steps |-> NoSteps,
            target |-> NoStep, toSkip |-> {}]

TypeOK ==
  /\ row \in Row /\ created \in BOOLEAN
  /\ steps \in [Steps -> StepStatus]
  /\ outbox \in Seq(Event)
  /\ req \in [Workers -> Request]
  /\ issued \in 0..MaxRequests /\ abandons \in 0..MaxAbandons

Init ==
  /\ row = NoRow /\ created = FALSE /\ steps = NoSteps
  /\ outbox = <<>> /\ req = [w \in Workers |-> Idle]
  /\ issued = 0 /\ abandons = 0

-----------------------------------------------------------------------------
(* What a handler computes from its snapshot q, without touching the       *)
(* database.                                                               *)

\* currentOrderSteps: the steps read at the order read from the row
CurrentSteps(q) ==
  {s \in Steps : q.steps[s] # "ABSENT" /\ StepOrder[s] = q.row.order}

PendingSteps(q) == {s \in CurrentSteps(q) : q.steps[s] = "PENDING"}

\* the other steps of that order still pending in the snapshot
PendingSiblings(q) == PendingSteps(q) \ {q.target}

\* mutant of Resolved: one approval resolves the order whatever the policy
MutantResolved(q) == TRUE

\* isCurrentOrderFullyResolved, by the policy of the step acted on
Resolved(q) ==
  StepPolicy[q.target] = "ANY_CAN_APPROVE" \/ PendingSiblings(q) = {}

\* mutant of FinalOrder: the last order is counted from zero
MutantFinalOrder(q) == q.row.order + 1 >= TotalSteps

FinalOrder(q) == q.row.order >= TotalSteps

\* mutant of NextStatus: a cancelled workflow is given a step's status
MutantNextStatus(q) == IF q.op = "cancel" THEN "SKIPPED" ELSE "PENDING"

NextStatus(q) ==
  CASE q.op = "reject" -> "REJECTED"
    [] q.op = "cancel" -> "CANCELLED"
    [] q.op = "approve" /\ Resolved(q) /\ FinalOrder(q) -> "APPROVED"
    [] OTHER -> "PENDING"

\* mutant of NextOrder: every approval moves the workflow on
MutantNextOrder(q) == IF FinalOrder(q) THEN q.row.order ELSE q.row.order + 1

NextOrder(q) ==
  IF Resolved(q) /\ ~FinalOrder(q) THEN q.row.order + 1 ELSE q.row.order

EventKind(q) ==
  CASE q.op = "submit" -> "submitted"
    [] q.op = "reject" -> "rejected"
    [] q.op = "cancel" -> "cancelled"
    [] OTHER -> IF NextStatus(q) = "APPROVED" THEN "approved" ELSE "step_approved"

\* mutants of EventOf: the event is built from the status before the transition;
\* every transition is said to start from PENDING
MutantEventOf(q) ==
  [kind |-> EventKind(q), prev |-> q.row.status, cur |-> q.row.status,
   order |-> q.row.order, resolved |-> q.op = "approve" /\ Resolved(q)]

MutantEventOf2(q) ==
  [kind |-> EventKind(q), prev |-> "PENDING", cur |-> NextStatus(q),
   order |-> q.row.order, resolved |-> q.op = "approve" /\ Resolved(q)]

\* the cancelled event carries no currentStepOrder: 0 stands for its absence
EventOf(q) ==
  [kind |-> EventKind(q), prev |-> q.row.status, cur |-> NextStatus(q),
   order |-> IF q.op = "cancel" THEN 0 ELSE q.row.order,
   resolved |-> q.op = "approve" /\ Resolved(q)]

-----------------------------------------------------------------------------
(* createWorkflow: the row, then all the steps in one INSERT whose failure *)
(* is caught and logged.                                                   *)

CreateRow(w) ==
  /\ "create" \in Ops /\ ~created /\ req[w].pc = "idle"
  /\ row' = [exists |-> TRUE, status |-> "DRAFT", order |-> 1]
  /\ created' = TRUE
  /\ req' = [req EXCEPT ![w].pc = "insertSteps", ![w].op = "create"]
  /\ UNCHANGED <<steps, outbox, issued, abandons>>

InsertSteps(w) ==
  /\ req[w].pc = "insertSteps"
  /\ steps' = [s \in Steps |-> "PENDING"]
  /\ req' = [req EXCEPT ![w] = Idle]
  /\ UNCHANGED <<row, created, outbox, issued, abandons>>

InsertStepsFails(w) ==
  /\ req[w].pc = "insertSteps"
  /\ req' = [req EXCEPT ![w] = Idle]
  /\ UNCHANGED <<row, created, steps, outbox, issued, abandons>>

-----------------------------------------------------------------------------
(* getWorkflowById: the row by one SELECT, the steps by a second one.      *)
(* A row that is not there is answered 404 and changes nothing.            *)

ReadRow(w, o) ==
  /\ o \in Ops \cap Transitions /\ issued < MaxRequests
  /\ req[w].pc = "idle" /\ row.exists
  /\ req' = [req EXCEPT ![w].pc = "readSteps", ![w].op = o, ![w].row = row]
  /\ issued' = issued + 1
  /\ UNCHANGED <<row, created, steps, outbox, abandons>>

Reading(w, o) == req[w].pc = "readSteps" /\ req[w].op = o

\* the request with the steps the second SELECT returns now
Loaded(w) == [req[w] EXCEPT !.steps = steps]

Proceed(w, q) ==
  /\ req' = [req EXCEPT ![w] = q]
  /\ UNCHANGED <<row, created, steps, outbox, issued, abandons>>

DecideSubmit(w) ==
  /\ Reading(w, "submit") /\ req[w].row.status = "DRAFT"
  /\ Proceed(w, [Loaded(w) EXCEPT !.pc = "settle"])

\* mutant of DecideCancel: the status is not tested
MutantDecideCancel(w) ==
  /\ Reading(w, "cancel")
  /\ Proceed(w, [Loaded(w) EXCEPT !.pc = "settle"])

DecideCancel(w) ==
  /\ Reading(w, "cancel") /\ req[w].row.status \in {"DRAFT", "PENDING"}
  /\ Proceed(w, [Loaded(w) EXCEPT !.pc = "settle"])

\* mutant of DecideApprove: siblings are skipped whatever the policy
MutantDecideApprove(w) ==
  /\ Reading(w, "approve") /\ req[w].row.status = "PENDING"
  /\ \E t \in PendingSteps(Loaded(w)) :
       LET q == [Loaded(w) EXCEPT !.target = t] IN
       Proceed(w, [q EXCEPT !.pc = "markStep", !.toSkip = PendingSiblings(q)])

\* The step named in the request, or the first pending one whose approver is
\* the actor or nobody, or the first pending one.  Steps of one order have the
\* same createdAt, so which comes first is open: any pending step can be it.
DecideApprove(w) ==
  /\ Reading(w, "approve") /\ req[w].row.status = "PENDING"
  /\ \E t \in PendingSteps(Loaded(w)) :
       LET q == [Loaded(w) EXCEPT !.target = t] IN
       Proceed(w, [q EXCEPT !.pc = "markStep",
                            !.toSkip = IF StepPolicy[t] = "ANY_CAN_APPROVE"
                                       THEN PendingSiblings(q) ELSE {}])

\* A step named in the request is taken whatever its status, and a stepId that
\* names none of the current order leaves the target undefined.
DecideReject(w) ==
  /\ Reading(w, "reject") /\ req[w].row.status = "PENDING"
  /\ \E t \in CurrentSteps(Loaded(w)) \cup {NoStep} :
       LET q == [Loaded(w) EXCEPT !.target = t] IN
       Proceed(w, [q EXCEPT !.pc = IF t = NoStep THEN "settle" ELSE "markStep",
                            !.toSkip = PendingSiblings(q)])

\* The 400 and 422 answers.  An approval naming a step that is not pending and
\* a rejection without a reason are refused in every state of the workflow.
Refuse(w) ==
  /\ req[w].pc = "readSteps"
  /\ req[w].op = "submit" => req[w].row.status # "DRAFT"
  /\ req[w].op = "cancel" => req[w].row.status \notin {"DRAFT", "PENDING"}
  /\ Proceed(w, Idle)

-----------------------------------------------------------------------------
(* The writes of a transition, one statement at a time.  An UPDATE of a    *)
(* row that has been deleted meanwhile changes nothing and is no error.    *)

SetStep(s, status) ==
  steps' = [steps EXCEPT ![s] = IF @ = "ABSENT" THEN @ ELSE status]

MarkStep(w) ==
  /\ req[w].pc = "markStep"
  /\ SetStep(req[w].target, IF req[w].op = "approve" THEN "APPROVED" ELSE "REJECTED")
  /\ req' = [req EXCEPT ![w].pc = "settle"]
  /\ UNCHANGED <<row, created, outbox, issued, abandons>>

SkipSibling(w) ==
  /\ req[w].pc = "settle"
  /\ \E s \in req[w].toSkip :
       /\ SetStep(s, "SKIPPED")
       /\ req' = [req EXCEPT ![w].toSkip = @ \ {s}]
  /\ UNCHANGED <<row, created, outbox, issued, abandons>>

UpdateRow(w) ==
  LET q == req[w] IN
  /\ q.pc = "settle" /\ q.toSkip = {}
  /\ row' = IF ~row.exists THEN row
            ELSE [row EXCEPT !.status = NextStatus(q),
                             !.order = IF q.op = "approve" THEN NextOrder(q) ELSE @]
  /\ req' = [req EXCEPT ![w].pc = "saveEvent"]
  /\ UNCHANGED <<created, steps, outbox, issued, abandons>>

\* saveToOutbox; the relay that follows is OutboxRelay's, and the read that
\* builds the answer changes nothing.
SaveEvent(w) ==
  /\ req[w].pc = "saveEvent"
  /\ outbox' = Append(outbox, EventOf(req[w]))
  /\ req' = [req EXCEPT ![w] = Idle]
  /\ UNCHANGED <<row, created, steps, issued, abandons>>

-----------------------------------------------------------------------------
(* deleteWorkflowsByTenant: three DELETEs.                                 *)

DeleteSteps(w) ==
  /\ "purge" \in Ops /\ issued < MaxRequests /\ req[w].pc = "idle"
  /\ steps' = NoSteps
  /\ req' = [req EXCEPT ![w].pc = "deleteOutbox", ![w].op = "purge"]
  /\ issued' = issued + 1
  /\ UNCHANGED <<row, created, outbox, abandons>>

DeleteOutbox(w) ==
  /\ req[w].pc = "deleteOutbox"
  /\ outbox' = <<>>
  /\ req' = [req EXCEPT ![w].pc = "deleteRow"]
  /\ UNCHANGED <<row, created, steps, issued, abandons>>

DeleteRow(w) ==
  /\ req[w].pc = "deleteRow"
  /\ row' = NoRow
  /\ req' = [req EXCEPT ![w] = Idle]
  /\ UNCHANGED <<created, steps, outbox, issued, abandons>>

\* The process dies, or a statement fails and the route answers 500: nothing
\* resumes the handler and nothing undoes what it has written.
Abandon(w) ==
  /\ req[w].pc # "idle" /\ abandons < MaxAbandons
  /\ req' = [req EXCEPT ![w] = Idle]
  /\ abandons' = abandons + 1
  /\ UNCHANGED <<row, created, steps, outbox, issued>>

Handler(w) ==
  \/ CreateRow(w) \/ InsertSteps(w) \/ InsertStepsFails(w)
  \/ \E o \in Transitions : ReadRow(w, o)
  \/ DecideSubmit(w) \/ DecideCancel(w) \/ DecideApprove(w) \/ DecideReject(w)
  \/ Refuse(w)
  \/ MarkStep(w) \/ SkipSibling(w) \/ UpdateRow(w) \/ SaveEvent(w)
  \/ DeleteSteps(w) \/ DeleteOutbox(w) \/ DeleteRow(w)
  \/ Abandon(w)

Next == \E w \in Workers : Handler(w)

Spec == Init /\ [][Next]_vars

-----------------------------------------------------------------------------
(* Properties that hold however the handlers interleave and crash.         *)

Settled(s) == steps[s] # "PENDING"

\* No approval order is left behind: while the row exists, no step of an order
\* below currentStepOrder is still pending, and once the row says APPROVED no
\* step at all is.  approveWorkflow decides from a snapshot that other handlers
\* may have made stale, so this rests on what can happen to a step meanwhile.
SettledBehind ==
  row.exists =>
    \A s \in Steps :
      /\ StepOrder[s] \in 1..(row.order - 1) => Settled(s)
      /\ row.status = "APPROVED" /\ StepOrder[s] >= 1 => Settled(s)

\* What workflow.approved.v1 tells its consumers is true for good: whatever
\* happens to the row afterwards, no step is waiting for a reviewer.
ApprovedEventTruthful ==
  \A i \in 1..Len(outbox) :
    outbox[i].kind = "approved" =>
      \A s \in Steps : StepOrder[s] >= 1 => Settled(s)

-----------------------------------------------------------------------------
(* Why the two hold: the invariant that every single statement preserves.  *)

\* handlers that have read the row, and those that have also decided
HasRow(q)  == q.pc \in {"readSteps", "markStep", "settle", "saveEvent"}
Decided(q) == q.pc \in {"markStep", "settle", "saveEvent"}

\* a snapshot's order is as settled behind as the row's was
SnapshotsBehind ==
  \A w \in Workers : HasRow(req[w]) =>
    \A s \in Steps : StepOrder[s] \in 1..(req[w].row.order - 1) => Settled(s)

\* an approval that will call its order resolved has settled every step of the
\* order but those it still has to write
ApprovalsCover ==
  \A w \in Workers :
    Decided(req[w]) /\ req[w].op = "approve" /\ Resolved(req[w]) =>
      \A s \in Steps : StepOrder[s] = req[w].row.order =>
        \/ req[w].pc = "markStep" /\ s = req[w].target
        \/ s \in req[w].toSkip
        \/ Settled(s)

SkipsAreDone == \A w \in Workers : req[w].pc = "saveEvent" => req[w].toSkip = {}

NoApproval ==
  /\ \A i \in 1..Len(outbox) : outbox[i].kind # "approved"
  /\ \A w \in Workers : Decided(req[w]) => req[w].op # "approve"

\* until its steps are stored the workflow stays at its first order, and no
\* approval gets past reading them
StepsComeFirst ==
  \A c \in Workers : req[c].pc = "insertSteps" =>
    /\ created /\ steps = NoSteps /\ NoApproval
    /\ row.exists => row.order <= 1 /\ row.status # "APPROVED"
    /\ \A w \in Workers : /\ HasRow(req[w]) => req[w].row.order <= 1
                          /\ req[w].pc = "insertSteps" => w = c

BeforeCreation ==
  ~created =>
    /\ ~row.exists /\ steps = NoSteps /\ NoApproval
    /\ \A w \in Workers : ~HasRow(req[w]) /\ req[w].pc # "insertSteps"

IInv ==
  /\ SettledBehind /\ ApprovedEventTruthful /\ SnapshotsBehind /\ ApprovalsCover
  /\ SkipsAreDone /\ StepsComeFirst /\ BeforeCreation

-----------------------------------------------------------------------------
(* A property of handlers that interleave but are never cut short.         *)

\* an event that is in the outbox, or that a handler is about to insert
Announced(P(_)) ==
  \/ \E i \in 1..Len(outbox) : P(outbox[i])
  \/ \E w \in Workers : req[w].pc = "saveEvent" /\ P(EventOf(req[w]))

\* Every state the row reached was announced: its status by an event with that
\* status, and every order it went past by the event of the approval that
\* resolved that order.  Stated while no handler has been cut short and nobody
\* is deleting the workflow, whose outbox rows go before its row.
TransitionsAnnounced ==
  row.exists /\ abandons = 0 /\ (\A w \in Workers : req[w].op # "purge") =>
    /\ row.status # "DRAFT" => Announced(LAMBDA e : e.cur = row.status)
    /\ \A n \in 1..(row.order - 1) :
         Announced(LAMBDA e : e.kind = "step_approved" /\ e.order = n /\ e.resolved)

-----------------------------------------------------------------------------
(* Properties of handlers that run one after the other.                    *)

Quiet == \A w \in Workers : req[w].pc = "idle"

\* An approved workflow, once no handler is at work, was approved by everyone
\* who had to: every step is APPROVED, or SKIPPED beside an approved step with
\* ANY_CAN_APPROVE.
Unanimity ==
  Quiet /\ row.exists /\ row.status = "APPROVED" /\ steps # NoSteps =>
    \A s \in Steps :
      StepOrder[s] >= 1 =>
        \/ steps[s] = "APPROVED"
        \/ /\ steps[s] = "SKIPPED"
           /\ \E t \in Steps : /\ StepOrder[t] = StepOrder[s]
                               /\ StepPolicy[t] = "ANY_CAN_APPROVE"
                               /\ steps[t] = "APPROVED"

\* The lifecycle DRAFT -> PENDING -> APPROVED | REJECTED | CANCELLED: a status
\* that ends it is never replaced.
TerminalIsFinal ==
  [][row.exists /\ row'.exists /\ row.status \in Terminal
     => row'.status = row.status]_vars

\* The events tell one story: each starts from the status the one before it
\* ended with, the first from DRAFT, and between handlers the last one ends
\* with the row's status.
EventsChain ==
  LET endOf(i) == IF i = 0 THEN "DRAFT" ELSE outbox[i].cur IN
  row.exists /\ (\A w \in Workers : req[w].op # "purge") =>
    /\ \A i \in 1..Len(outbox) : outbox[i].prev = endOf(i - 1)
    /\ Quiet => endOf(Len(outbox)) = row.status

\* A workflow that waits always waits for a reviewer: some step of the current
\* order is pending (stated of workflows whose steps were stored).
AwaitedStepExists ==
  Quiet /\ row.exists /\ row.status = "PENDING" /\ steps # NoSteps =>
    \E s \in Steps : StepOrder[s] = row.order /\ ~Settled(s)

\* When the last parallel reviewer has approved, the workflow moves on.
QuorumAdvances ==
  Quiet /\ row.exists /\ row.status = "PENDING" =>
    \E s \in Steps : StepOrder[s] = row.order /\ steps[s] # "APPROVED"
=============================================================================
