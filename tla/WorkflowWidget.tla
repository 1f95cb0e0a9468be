--------------------------- MODULE WorkflowWidget ----------------------------
(***************************************************************************)
(* What the widget of WorkflowWidget.tsx makes of the workflow it shows    *)
(* and of the user before it: the steps it lets the user approve, the      *)
(* buttons it offers, what its stepper draws, the state machine of its     *)
(* preview mode; and what a handler of workflow-api computes from the      *)
(* workflow it has read.  HostPages puts the widget into the pages of the  *)
(* host application, and the handlers beside it.                           *)
(***************************************************************************)
EXTENDS Integers, Sequences, FiniteSets, FiniteSetsExt

CONSTANTS
  Workflows,   \* the workflows of workflow-api
  DemoId,      \* DEFAULT_MOCK_WORKFLOW
  Users,
  Role,        \* Users -> the roles of personas
  Requester,   \* Workflows and the demo -> Users
  Plan,        \* Workflows and the demo -> their steps, by order
  None

Ids == Workflows \cup {DemoId}

\* workflow.status and step.status
States == {"DRAFT", "PENDING", "APPROVED", "REJECTED", "CANCELLED"}
Verdicts == {"ABSENT", "PENDING", "APPROVED", "REJECTED", "SKIPPED"}  \* ABSENT: no such row

StepDef == [order : Nat \ {0}, role : STRING, approver : Users \cup {None}, any : BOOLEAN]

TotalSteps(id) == Max({Plan[id][i].order : i \in DOMAIN Plan[id]})

\* a workflow as the database has it or JSON carries it; its steps' definitions are
\* those of Plan
SnapshotOf(id) == [id : {id}, status : States, order : 1..TotalSteps(id),
                   steps : [DOMAIN Plan[id] -> Verdicts]]
Snapshot == UNION {SnapshotOf(id) : id \in Ids}

\* everybody must approve the steps of the demo
ASSUME WidgetAssumption ==
  /\ DemoId \notin Workflows /\ None \notin Ids \cup Users \cup Snapshot
  /\ Requester \in [Ids -> Users]
  /\ \A id \in Ids : Plan[id] \in Seq(StepDef) /\ Plan[id] # <<>>
  /\ \A i \in DOMAIN Plan[DemoId] : ~Plan[DemoId][i].any

Fresh(id) == [id |-> id, status |-> "DRAFT", order |-> 1,
              steps |-> [i \in DOMAIN Plan[id] |-> "PENDING"]]

\* its row alone
RowOf(wf) == [wf EXCEPT !.steps = [i \in DOMAIN Plan[wf.id] |-> "ABSENT"]]

AtOrder(wf, n) ==
  {i \in DOMAIN Plan[wf.id] : Plan[wf.id][i].order = n /\ wf.steps[i] # "ABSENT"}

-----------------------------------------------------------------------------
(* The user before the widget.                                             *)

\* the personas that may act for a step's role, besides the administrator
Reviewers(role) ==
  CASE role = "TEAM_LEAD"        -> {"team_lead", "approver"}
    [] role = "DEPT_MANAGER"     -> {"dept_manager", "approver"}
    [] role = "FINANCE_DIRECTOR" -> {"finance_director", "approver"}
    [] role = "SECURITY_OFFICER" -> {"security_officer", "approver"}
    [] role = "LEGAL_COUNSEL"    -> {"legal_counsel", "approver"}
    [] role = "GENERAL_APPROVER" -> {"approver", "dept_manager", "team_lead"}
    [] OTHER                     -> {}

\* checkUserCanApproveStep
CheckUserCanApproveStep(user, wf, i) ==
  /\ wf.status = "PENDING"
  /\ \/ Role[user] = "admin"
     \/ Plan[wf.id][i].approver = user
     \/ Role[user] \in Reviewers(Plan[wf.id][i].role)

CurrentPendingSteps(wf) == {i \in AtOrder(wf, wf.order) : wf.steps[i] = "PENDING"}
ApprovableSteps(user, wf) ==
  {i \in CurrentPendingSteps(wf) : CheckUserCanApproveStep(user, wf, i)}
IsRequester(user, wf) == Role[user] \in {"requester", "admin"} \/ user = Requester[wf.id]

\* primaryApprovableStep, 0 if there is none
PrimaryApprovableStep(user, wf) ==
  IF ApprovableSteps(user, wf) = {} THEN 0 ELSE Min(ApprovableSteps(user, wf))

\* the buttons
OffersSubmit(user, wf) == wf.status = "DRAFT" /\ IsRequester(user, wf)
OffersDecision(user, wf) == wf.status = "PENDING" /\ ApprovableSteps(user, wf) # {}
OffersCancel(user, wf) == wf.status \in {"DRAFT", "PENDING"} /\ IsRequester(user, wf)

Offers(user, wf, action) ==
  \/ action = "submit" /\ OffersSubmit(user, wf)
  \/ action \in {"approve", "reject"} /\ OffersDecision(user, wf)
  \/ action = "cancel" /\ OffersCancel(user, wf)

-----------------------------------------------------------------------------
(* What a handler computes from the workflow it has read: target is the    *)
(* workflow and the index of the step whose id is sent, 0 if none is.      *)

\* whoever is pending besides i, at the current order
Others(wf, i) == CurrentPendingSteps(wf) \ {i}

\* Is the request carried out, or refused?  An approval names its step.
Accepts(wf, action, target) ==
  CASE action = "submit"  -> wf.status = "DRAFT"
    [] action = "approve" -> /\ wf.status = "PENDING" /\ target.id = wf.id
                             /\ target.step \in CurrentPendingSteps(wf)
    [] action = "reject"  -> wf.status = "PENDING"
    [] action = "cancel"  -> wf.status \in {"DRAFT", "PENDING"}

First(S) == {i \in S : i = Min(S)}

\* mutant of Marked: the step's id is ignored
MutantMarked(wf, action, target) ==
  CASE action \in {"approve", "reject"} -> First(CurrentPendingSteps(wf))
    [] OTHER -> {}

\* The steps given a verdict.  A rejection without a step's id means the first that is
\* pending; with the id of none of the current order, it rejects the workflow all the same.
Marked(wf, action, target) ==
  CASE action = "approve" -> {target.step}
    [] action = "reject"  -> IF target.step = 0 THEN First(CurrentPendingSteps(wf))
                             ELSE IF target.id = wf.id
                             THEN {target.step} \cap AtOrder(wf, wf.order) ELSE {}
    [] OTHER -> {}

\* mutant of Skipped: the siblings of an approval are not skipped
MutantSkipped(wf, action, target) ==
  IF action = "reject" THEN CurrentPendingSteps(wf) \ Marked(wf, action, target) ELSE {}

\* the siblings that are skipped
Skipped(wf, action, target) ==
  IF action = "reject" \/ (action = "approve" /\ Plan[wf.id][target.step].any)
  THEN CurrentPendingSteps(wf) \ Marked(wf, action, target) ELSE {}

Verdict(action) == IF action = "approve" THEN "APPROVED" ELSE "REJECTED"

\* isCurrentOrderFullyResolved
Resolves(wf, i) == Plan[wf.id][i].any \/ Others(wf, i) = {}

NextStatus(wf, action, target) ==
  CASE action = "submit"  -> "PENDING"
    [] action = "approve" -> IF Resolves(wf, target.step) /\ wf.order >= TotalSteps(wf.id)
                             THEN "APPROVED" ELSE "PENDING"
    [] action = "reject"  -> "REJECTED"
    [] action = "cancel"  -> "CANCELLED"

NextOrder(wf, action, target) ==
  IF action = "approve" /\ Resolves(wf, target.step) /\ wf.order < TotalSteps(wf.id)
  THEN wf.order + 1 ELSE wf.order

\* What becomes of a workflow that nobody else touches meanwhile, None if the request is
\* refused: the steps of ApprovalProcess, which SerialWorkflow implements.
Served(wf, action, target) ==
  IF ~Accepts(wf, action, target) THEN None
  ELSE [wf EXCEPT !.steps = [i \in DOMAIN @ |->
                              IF i \in Marked(wf, action, target) THEN Verdict(action)
                              ELSE IF i \in Skipped(wf, action, target) THEN "SKIPPED"
                              ELSE @[i]],
                  !.status = NextStatus(wf, action, target),
                  !.order = NextOrder(wf, action, target)]

-----------------------------------------------------------------------------
(* The preview, "In-Memory State Machine".                                 *)

\* mutant of MockApprove: the level is over with the first approval
MutantMockApprove(wf, i) ==
  [wf EXCEPT !.steps[i] = "APPROVED",
             !.status = IF wf.order < TotalSteps(wf.id) THEN "PENDING" ELSE "APPROVED",
             !.order = IF wf.order < TotalSteps(wf.id) THEN @ + 1 ELSE @]

MockApprove(wf, i) ==
  IF Others(wf, i) # {} THEN [wf EXCEPT !.steps[i] = "APPROVED"]
  ELSE [wf EXCEPT !.steps[i] = "APPROVED",
                  !.status = IF wf.order < TotalSteps(wf.id) THEN "PENDING" ELSE "APPROVED",
                  !.order = IF wf.order < TotalSteps(wf.id) THEN @ + 1 ELSE @]

\* The buttons are those of the widget, so that a decision has its step.
MockAct(wf, action, i) ==
  CASE action = "submit"  -> [wf EXCEPT !.status = "PENDING"]
    [] action = "approve" -> MockApprove(wf, i)
    [] action = "reject"  -> [wf EXCEPT !.status = "REJECTED"]
    [] action = "cancel"  -> [wf EXCEPT !.status = "CANCELLED"]

-----------------------------------------------------------------------------
(* The stepper: how a level and its steps are drawn.                       *)

IsCurrent(wf, n) == wf.status = "PENDING" /\ n = wf.order

\* the colour of a level that has steps
Level(wf, n) ==
  LET at == AtOrder(wf, n)  verdicts == {wf.steps[i] : i \in at} IN
  IF verdicts = {"APPROVED"} \/ (Plan[wf.id][Min(at)].any /\ "APPROVED" \in verdicts)
  THEN "green"
  ELSE IF IsCurrent(wf, n) THEN "amber"
  ELSE IF "REJECTED" \in verdicts THEN "red" ELSE "grey"

\* the caption of a step
Caption(wf, i) ==
  IF wf.steps[i] = "PENDING" /\ ~IsCurrent(wf, Plan[wf.id][i].order) THEN "WAITING"
  ELSE wf.steps[i]
=============================================================================
