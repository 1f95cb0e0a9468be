----------------------------- MODULE HostPages -------------------------------
(***************************************************************************)
(* ExpensesPage.tsx and ApprovalsPage.tsx, the widget each embeds, the     *)
(* requests between them and workflow-api, and the handlers of workflow-   *)
(* api, of this tab and of others, that run at the same time.              *)
(*                                                                         *)
(* A page keeps a list and a selection; the widget is mounted while there  *)
(* is a selection, and shows what its last answer brought, whatever is     *)
(* selected by then.  Nothing cancels a request: answers arrive in any     *)
(* order and act through the closures of the rendering that asked.  What   *)
(* is typed, and leaving the page, are left out.                           *)
(*                                                                         *)
(* A handler reads a workflow with two SELECTs and writes it with several  *)
(* UPDATEs, as in WorkflowService, and other handlers run in between.  The *)
(* event it saves, which nobody here reads, is left out.                   *)
(***************************************************************************)
EXTENDS WorkflowWidget

CONSTANTS
  Tenants,
  TenantOf,     \* Workflows -> Tenants
  Existing,     \* workflows that are there when the page is opened, others may be
  MaxInputs,    \* bound: what the user does, the preview's buttons apart, what colleagues
                \* do, live events
  MaxFaults,    \* bound: failed requests and statements
  MaxPending    \* bound: requests in flight when another begins

ASSUME PagesAssumption ==
  /\ TenantOf \in [Workflows -> Tenants] /\ Existing \subseteq Workflows
  /\ {MaxInputs, MaxFaults, MaxPending} \subseteq Nat

VARIABLES
  server,   \* the database: Workflows -> its row and its steps, None if not created
  page,     \* which page it is
  session,  \* AuthContext: tenant and user
  host,     \* the page: rows, selectedWorkflowId, is the form of a new expense open?
  widget,   \* the widget, reset when it is mounted
  pending,  \* requests in flight and their handlers, oldest first
  shown,    \* history: targets of approvals, as the widget offered them when it was clicked
  approved, \* history: targets this tab has approved
  inputs, faults

histories == <<shown, approved>>
counters == <<inputs, faults>>
vars == <<server, page, session, host, widget, pending, histories, counters>>

\* screen: which of its early returns the widget takes; it has a workflow in the last
Widget == [screen : {"loading", "error", "workflow"}, wf : Snapshot \cup {None},
           mock : BOOLEAN, acting : BOOLEAN, modal : BOOLEAN]
Mounted == [screen |-> "loading", wf |-> None, mock |-> FALSE, acting |-> FALSE, modal |-> FALSE]

\* a step of a workflow, 0 if none is meant
Targets == UNION {[id : {id}, step : {0} \cup DOMAIN Plan[id]] : id \in Ids}

\* one shape for all requests
\*   list: the page's; unselected: had its closure no selection?  created: select it then
\*   get, post, preview: the widget's; mine: is the widget still mounted?
\*   create: the form's
\*   asker: who waits for the answer, this tab, nobody any more, or a colleague
\*   pc, body, toSkip: how far its handler is, what that has read, whom it has to skip yet
Request == [kind : {"list", "get", "post", "preview", "create"},
            asker : {"tab", "nobody", "colleague"}, tenant : Tenants,
            id : Workflows \cup {None}, action : {"submit", "approve", "reject", "cancel", None},
            target : Targets \cup {None}, unselected : BOOLEAN, mine : BOOLEAN,
            pc : {"sent", "decide", "mark", "update", "reread", "steps", "insert", "answered"},
            rows : SUBSET Workflows, body : Snapshot \cup {None}, toSkip : SUBSET Nat]

Ask(kind, tenant, id) ==
  [kind |-> kind, asker |-> "tab", tenant |-> tenant, id |-> id, action |-> None,
   target |-> None, unselected |-> FALSE, mine |-> TRUE, pc |-> "sent", rows |-> {},
   body |-> None, toSkip |-> {}]

\* fetchWorkflows, fetchPendingWorkflows; created: what handleCreate awaits it for
FetchWorkflows(tenant, selected, created) ==
  [Ask("list", tenant, created) EXCEPT !.unselected = (selected = None)]

\* the request a widget in mode `mock` sends when its effect runs
FetchWorkflow(mock, tenant, id) == IF mock THEN <<>> ELSE <<Ask("get", tenant, id)>>

TypeOK ==
  /\ server \in [Workflows -> Snapshot \cup {None}]
  /\ page \in {"expenses", "approvals"}
  /\ session \in [tenant : Tenants, user : Users]
  /\ host \in [rows : SUBSET Workflows, selected : Workflows \cup {None}, form : BOOLEAN]
  /\ widget \in Widget /\ (widget.screen = "workflow" <=> widget.wf # None)
  /\ pending \in Seq(Request) /\ Len(pending) <= MaxPending + 1
  /\ shown \subseteq Targets /\ approved \subseteq Targets
  /\ inputs \in 0..MaxInputs /\ faults \in 0..MaxFaults

Init ==
  /\ server \in [Workflows -> Snapshot \cup {None}]
  /\ \A w \in Workflows :
       server[w] \in {None, Fresh(w), [Fresh(w) EXCEPT !.status = "PENDING"]}
  /\ \A w \in Existing : server[w] # None
  /\ page \in {"expenses", "approvals"} /\ session \in [tenant : Tenants, user : Users]
  /\ host = [rows |-> {}, selected |-> None, form |-> FALSE] /\ widget = Mounted
  /\ pending = <<FetchWorkflows(session.tenant, None, None)>>
  /\ shown = {} /\ approved = {}
  /\ inputs = 0 /\ faults = 0

\* bounds
Room == Len(pending) < MaxPending
Input == inputs < MaxInputs /\ inputs' = inputs + 1
Click == Room /\ Input
Fault == faults < MaxFaults /\ faults' = faults + 1

IsMounted == host.selected # None
Loading(w) == IF w.wf = None THEN [w EXCEPT !.screen = "loading"] ELSE w
Without(i) == SubSeq(pending, 1, i - 1) \o SubSeq(pending, i + 1, Len(pending))
Orphan(reqs) == [i \in DOMAIN reqs |-> [reqs[i] EXCEPT !.mine = FALSE]]

\* setSelectedWorkflowId(id), beside requests `reqs`: the widget is mounted, its effect
\* runs for another id, or it is unmounted
Selecting(id, tenant, reqs) ==
  /\ host.selected # id
  /\ CASE id = None -> widget' = Mounted /\ pending' = Orphan(reqs)
       [] id # None /\ ~IsMounted ->
            widget' = Mounted /\ pending' = reqs \o FetchWorkflow(FALSE, tenant, id)
       [] OTHER ->
            /\ widget' = Loading(widget)
            /\ pending' = reqs \o FetchWorkflow(widget.mock, tenant, id)

-----------------------------------------------------------------------------
(* The handlers of workflow-api, one statement at a time.                  *)

Visible(tenant) ==
  {w \in Workflows : /\ TenantOf[w] = tenant /\ server[w] # None
                     /\ page = "approvals" => server[w].status = "PENDING"}
Found(tenant, id) == server[id] # None /\ TenantOf[id] = tenant

\* request i has become r; one that nobody here waits for is forgotten once it is done
Handled(i, r) ==
  pending' = IF r.pc = "answered" /\ r.asker # "tab" THEN Without(i)
             ELSE [pending EXCEPT ![i] = r]

\* the two SELECTs that count here: of the list's rows, and of one row
ListRows(i) ==
  LET r == pending[i] IN
  /\ r.kind = "list" /\ r.pc = "sent"
  /\ Handled(i, [r EXCEPT !.pc = "answered", !.rows = Visible(r.tenant)])
  /\ UNCHANGED <<server, page, session, host, widget, histories, counters>>

ReadRow(i) ==
  LET r == pending[i] IN
  /\ r.kind \in {"get", "post"} /\ r.pc \in {"sent", "reread"}
  /\ IF Found(r.tenant, r.id)
     THEN Handled(i, [r EXCEPT !.pc = IF r.kind = "post" /\ r.pc = "sent"
                                      THEN "decide" ELSE "steps",
                               !.body = RowOf(server[r.id])])
     ELSE Handled(i, [r EXCEPT !.pc = "answered"])
  /\ UNCHANGED <<server, page, session, host, widget, histories, counters>>

\* what has been read, with the steps that the second SELECT returns now
Loaded(r) == [r.body EXCEPT !.steps = server[r.id].steps]

ReadSteps(i) ==
  LET r == pending[i] IN
  /\ r.pc = "steps"
  /\ Handled(i, [r EXCEPT !.pc = "answered", !.body = Loaded(r)])
  /\ UNCHANGED <<server, page, session, host, widget, histories, counters>>

\* The second SELECT of a decision, and all its conditions.
Decide(i) ==
  LET r == pending[i]  wf == Loaded(r) IN
  /\ r.pc = "decide"
  /\ IF Accepts(wf, r.action, r.target)
     THEN Handled(i, [r EXCEPT !.pc = IF Marked(wf, r.action, r.target) = {}
                                      THEN "update" ELSE "mark",
                               !.body = wf, !.toSkip = Skipped(wf, r.action, r.target)])
     ELSE Handled(i, [r EXCEPT !.pc = "answered", !.body = None])
  /\ UNCHANGED <<server, page, session, host, widget, histories, counters>>

SetSteps(id, S, verdict) ==
  server' = [server EXCEPT ![id].steps =
               [k \in DOMAIN @ |-> IF k \in S THEN verdict ELSE @[k]]]

MarkStep(i) ==
  LET r == pending[i]  marked == Marked(r.body, r.action, r.target) IN
  /\ r.pc = "mark"
  /\ SetSteps(r.id, marked, Verdict(r.action))
  /\ approved' = IF r.action = "approve" /\ r.asker # "colleague"
                 THEN approved \cup {[id |-> r.id, step |-> k] : k \in marked} ELSE approved
  /\ Handled(i, [r EXCEPT !.pc = "update"])
  /\ UNCHANGED <<page, session, host, widget, shown, counters>>

SkipSibling(i) ==
  LET r == pending[i] IN
  /\ r.pc = "update"
  /\ \E k \in r.toSkip : /\ SetSteps(r.id, {k}, "SKIPPED")
                         /\ Handled(i, [r EXCEPT !.toSkip = @ \ {k}])
  /\ UNCHANGED <<page, session, host, widget, histories, counters>>

\* The handler then reads the workflow again for its answer.
UpdateRow(i) ==
  LET r == pending[i] IN
  /\ r.pc = "update" /\ r.toSkip = {}
  /\ server' = [server EXCEPT
       ![r.id].status = NextStatus(r.body, r.action, r.target),
       ![r.id].order = IF r.action = "approve" THEN NextOrder(r.body, r.action, r.target)
                       ELSE @]
  /\ Handled(i, [r EXCEPT !.pc = IF r.asker = "tab" THEN "reread" ELSE "answered",
                          !.body = None])
  /\ UNCHANGED <<page, session, host, widget, histories, counters>>

InsertRow(i) ==
  LET r == pending[i] IN
  /\ r.kind = "create" /\ r.pc = "sent"
  /\ \E w \in Workflows :
       /\ server[w] = None /\ TenantOf[w] = r.tenant
       /\ server' = [server EXCEPT ![w] = RowOf(Fresh(w))]
       /\ Handled(i, [r EXCEPT !.pc = "insert", !.id = w])
  /\ UNCHANGED <<page, session, host, widget, histories, counters>>

InsertSteps(i) ==
  LET r == pending[i] IN
  /\ r.pc = "insert"
  /\ SetSteps(r.id, DOMAIN Plan[r.id], "PENDING")
  /\ Handled(i, [r EXCEPT !.pc = "answered"])
  /\ UNCHANGED <<page, session, host, widget, histories, counters>>

\* caught and logged
InsertStepsFails(i) ==
  LET r == pending[i] IN
  /\ r.pc = "insert" /\ Fault
  /\ Handled(i, [r EXCEPT !.pc = "answered"])
  /\ UNCHANGED <<server, page, session, host, widget, histories, inputs>>

\* somebody else decides, on a step of any order: the first SELECT of a request that is
\* not refused at once
Colleague(w, action, target) ==
  /\ Click /\ server[w] # None /\ Accepts(server[w], action, target)
  /\ pending' = Append(pending, [Ask("post", TenantOf[w], w) EXCEPT
       !.asker = "colleague", !.mine = FALSE, !.action = action, !.target = target,
       !.pc = "decide", !.body = RowOf(server[w])])
  /\ UNCHANGED <<server, page, session, host, widget, histories, faults>>

-----------------------------------------------------------------------------
(* What reaches the tab.                                                   *)

\* refreshSignal reloads the list, and workflow:state_changed the widget's workflow
LiveEvent(w) ==
  /\ Input /\ Room /\ TenantOf[w] = session.tenant
  /\ pending' = Append(pending, FetchWorkflows(session.tenant, host.selected, None))
                \o (IF host.selected = w THEN FetchWorkflow(widget.mock, session.tenant, w)
                    ELSE <<>>)
  /\ UNCHANGED <<server, page, session, host, widget, histories, faults>>

\* mutant of Poll: only until there is a workflow
MutantPoll ==
  /\ IsMounted /\ ~widget.mock /\ Room /\ widget.wf = None
  /\ pending' = pending \o FetchWorkflow(FALSE, session.tenant, host.selected)
  /\ UNCHANGED <<server, page, session, host, widget, histories, counters>>

\* the interval of thirty seconds
Poll ==
  /\ IsMounted /\ ~widget.mock /\ Room
  /\ pending' = pending \o FetchWorkflow(FALSE, session.tenant, host.selected)
  /\ UNCHANGED <<server, page, session, host, widget, histories, counters>>

\* The first row is selected if the closure knew of no selection; an empty inbox
\* deselects; handleCreate selects what it has created.
Choice(r) ==
  IF r.id # None THEN {r.id}
  ELSE IF r.unselected /\ r.rows # {} THEN r.rows
  ELSE IF r.rows = {} /\ page = "approvals" THEN {None}
  ELSE {host.selected}

ListReturns(i) ==
  LET r == pending[i] IN
  /\ r.pc = "answered" /\ r.kind = "list"
  /\ \E id \in Choice(r) :
       /\ host' = [host EXCEPT !.rows = r.rows, !.selected = id]
       /\ IF id = host.selected THEN pending' = Without(i) /\ widget' = widget
          ELSE Selecting(id, session.tenant, Without(i))
  /\ UNCHANGED <<server, page, session, histories, counters>>

\* mutant of GetReturns: json.success is not tested
MutantGetReturns(i) ==
  LET r == pending[i] IN
  /\ r.pc = "answered" /\ r.kind = "get" /\ r.mine
  /\ widget' = [widget EXCEPT !.wf = r.body, !.screen = "workflow"]
  /\ pending' = Without(i)
  /\ UNCHANGED <<server, page, session, host, histories, counters>>

\* the answer is shown, whatever is selected or was shown since; an error is shown
\* only if there is nothing else
GetReturns(i) ==
  LET r == pending[i] IN
  /\ r.pc = "answered" /\ r.kind = "get"
  /\ widget' = IF ~r.mine THEN widget
               ELSE IF r.body # None THEN [widget EXCEPT !.wf = r.body, !.screen = "workflow"]
               ELSE IF widget.wf = None THEN [widget EXCEPT !.screen = "error"] ELSE widget
  /\ pending' = Without(i)
  /\ UNCHANGED <<server, page, session, host, histories, counters>>

\* a decision of the preview, or the answer to a real one; onStatusChange is that of the
\* rendering that was clicked, with its tenant
PostReturns(i) ==
  LET r == pending[i]
      done == [widget EXCEPT !.acting = FALSE]
  IN
  /\ r.pc = "answered" /\ r.kind \in {"post", "preview"}
  /\ widget' = IF ~r.mine THEN widget
               ELSE IF r.body = None THEN done
               ELSE [done EXCEPT !.wf = r.body, !.screen = "workflow", !.modal = FALSE]
  /\ pending' = IF r.body = None THEN Without(i)
                ELSE Append(Without(i), FetchWorkflows(r.tenant, r.id, None))
  /\ UNCHANGED <<server, page, session, host, histories, counters>>

CreateReturns(i) ==
  LET r == pending[i] IN
  /\ r.pc = "answered" /\ r.kind = "create"
  /\ host' = [host EXCEPT !.form = FALSE]
  /\ pending' = Append(Without(i), FetchWorkflows(r.tenant, r.id, r.id))
  /\ UNCHANGED <<server, page, session, widget, histories, counters>>

\* what becomes of the other side when request i fails: it has not arrived, or its
\* handler fails between two statements, or goes on although nobody waits for it
Broken(i) ==
  LET r == pending[i] IN
  {Without(i)} \cup
    (IF r.kind \in {"post", "create"} /\ r.asker = "tab" /\ r.pc # "answered"
     THEN {[pending EXCEPT ![i].asker = "nobody", ![i].mine = FALSE]} ELSE {})

\* No answer arrives, or one that says 500.  The list that handleCreate awaits may fail
\* too: what was created is selected all the same.
RequestFails(i) ==
  LET r == pending[i] IN
  /\ Fault /\ r.kind # "preview"
  /\ IF r.kind = "list" /\ r.id # None /\ r.id # host.selected
     THEN host' = [host EXCEPT !.selected = r.id] /\ Selecting(r.id, session.tenant, Without(i))
     ELSE /\ pending' \in Broken(i) /\ host' = host
          /\ widget' = CASE r.kind = "get" /\ r.mine /\ widget.wf = None ->
                              [widget EXCEPT !.screen = "error"]
                         [] r.kind = "post" /\ r.mine -> [widget EXCEPT !.acting = FALSE]
                         [] OTHER -> widget
  /\ UNCHANGED <<server, page, session, histories, inputs>>

-----------------------------------------------------------------------------
(* The user.                                                               *)

\* the modal of the widget and the form lie over the page
Covered == host.form \/ widget.modal

SelectRow(w) ==
  /\ Click /\ ~Covered /\ w \in host.rows
  /\ host' = [host EXCEPT !.selected = w]
  /\ Selecting(w, session.tenant, pending)
  /\ UNCHANGED <<server, page, session, histories, faults>>

Refresh ==
  /\ Click /\ ~Covered
  /\ pending' = Append(pending, FetchWorkflows(session.tenant, host.selected, None))
  /\ UNCHANGED <<server, page, session, host, widget, histories, faults>>

\* Another tenant loads the list, and another tenant or user the widget's workflow; the
\* selection stays.
Switch(s) ==
  /\ Click /\ ~Covered /\ s # session
  /\ session' = s
  /\ widget' = IF IsMounted THEN Loading(widget) ELSE widget
  /\ pending' = pending
       \o (IF s.tenant # session.tenant
           THEN <<FetchWorkflows(s.tenant, host.selected, None)>> ELSE <<>>)
       \o (IF IsMounted THEN FetchWorkflow(widget.mock, s.tenant, host.selected) ELSE <<>>)
  /\ UNCHANGED <<server, page, host, histories, faults>>

OpenForm ==
  /\ Click /\ ~Covered /\ page = "expenses"
  /\ host' = [host EXCEPT !.form = TRUE]
  /\ UNCHANGED <<server, page, session, widget, pending, histories, faults>>

Creating == \E i \in DOMAIN pending : pending[i].kind = "create" /\ pending[i].asker = "tab"

SubmitForm ==
  /\ Click /\ host.form /\ ~Creating
  /\ \E w \in Workflows : server[w] = None /\ TenantOf[w] = session.tenant
  /\ pending' = Append(pending, Ask("create", session.tenant, None))
  /\ UNCHANGED <<server, page, session, host, widget, histories, faults>>

CloseForm ==
  /\ host.form /\ host' = [host EXCEPT !.form = FALSE]
  /\ UNCHANGED <<server, page, session, widget, pending, histories, counters>>

\* the reject button opens the modal, "Back" closes it
OpenModal ==
  /\ ~Covered /\ IsMounted /\ widget.wf # None /\ ~widget.acting
  /\ Offers(session.user, widget.wf, "reject")
  /\ widget' = [widget EXCEPT !.modal = TRUE]
  /\ UNCHANGED <<server, page, session, host, pending, histories, counters>>

CloseModal ==
  /\ widget.modal /\ widget' = [widget EXCEPT !.modal = FALSE]
  /\ UNCHANGED <<server, page, session, host, pending, histories, counters>>

\* executeAction: to workflowId, the one selected, with the id of the step shown
ExecuteAction(action) ==
  LET wf == widget.wf
      target == [id |-> wf.id, step |-> PrimaryApprovableStep(session.user, wf)]
      post == [Ask("post", session.tenant, host.selected) EXCEPT
                 !.action = action, !.target = target]
      preview == [Ask("preview", session.tenant, host.selected) EXCEPT
                    !.pc = "answered", !.body = MockAct(wf, action, target.step)]
  IN
  /\ IF widget.mock THEN Room /\ inputs' = inputs ELSE Click
  /\ IsMounted /\ ~host.form /\ wf # None /\ ~widget.acting
  /\ IF action = "reject" THEN widget.modal
     ELSE ~widget.modal /\ Offers(session.user, wf, action)
  /\ widget' = [widget EXCEPT !.acting = TRUE]
  /\ pending' = Append(pending, IF widget.mock THEN preview ELSE post)
  /\ shown' = IF action = "approve" /\ ~widget.mock THEN shown \cup {target} ELSE shown
  /\ UNCHANGED <<server, page, session, host, approved, faults>>

\* the buttons of the error screen
Retry ==
  /\ Click /\ IsMounted /\ ~host.form /\ widget.screen = "error"
  /\ widget' = Loading(widget)
  /\ pending' = pending \o FetchWorkflow(FALSE, session.tenant, host.selected)
  /\ UNCHANGED <<server, page, session, host, histories, faults>>

ActivateMockMode ==
  /\ Click /\ IsMounted /\ ~host.form /\ widget.screen = "error"
  /\ widget' = [widget EXCEPT !.wf = Fresh(DemoId), !.screen = "workflow", !.mock = TRUE]
  /\ UNCHANGED <<server, page, session, host, pending, histories, faults>>

-----------------------------------------------------------------------------
Handler(i) ==
  \/ ListRows(i) \/ ReadRow(i) \/ ReadSteps(i)
  \/ Decide(i) \/ MarkStep(i) \/ SkipSibling(i) \/ UpdateRow(i)
  \/ InsertRow(i) \/ InsertSteps(i)

Answer == \E i \in DOMAIN pending : Handler(i)

Return == \E i \in DOMAIN pending :
  ListReturns(i) \/ GetReturns(i) \/ PostReturns(i) \/ CreateReturns(i)

User ==
  \/ \E w \in Workflows : SelectRow(w)
  \/ \E s \in [tenant : Tenants, user : Users] : Switch(s)
  \/ \E a \in {"submit", "approve", "reject", "cancel"} : ExecuteAction(a)
  \/ Refresh \/ OpenForm \/ SubmitForm \/ CloseForm \/ OpenModal \/ CloseModal
  \/ Retry \/ ActivateMockMode

Next ==
  \/ Answer \/ Return \/ Poll \/ User
  \/ \E i \in DOMAIN pending : RequestFails(i) \/ InsertStepsFails(i)
  \/ \E w \in Workflows : LiveEvent(w)
  \/ \E w \in Workflows :
       \/ \E a \in {"submit", "cancel"} : Colleague(w, a, None)
       \/ \E a \in {"approve", "reject"}, k \in DOMAIN Plan[w] :
            Colleague(w, a, [id |-> w, step |-> k])

Spec == Init /\ [][Next]_vars

\* Requests are answered or, as a fault, fail, and the interval ticks as long as the page
\* is open: there are never more than MaxPending requests, so none of the three can go on
\* without the others.  Nobody has to click.
FairSpec == Spec /\ WF_vars(Answer \/ Return \/ Poll)

-----------------------------------------------------------------------------
\* However late the answers and whatever is selected: a step that this tab approves is
\* one that the widget showed as pending, and offered to the user, when it was clicked.
NothingUnseenIsApproved == approved \subseteq shown

\* Nobody is left behind: however the SELECTs of an answer fall between the statements
\* of decisions, however late it arrives, and in the preview, no step of a level behind
\* the current one is captioned WAITING, and none at all once the workflow is APPROVED.
NobodyWaitsBehind ==
  LET wf == widget.wf IN
  wf # None =>
    \A i \in DOMAIN Plan[wf.id] :
      Plan[wf.id][i].order < wf.order \/ wf.status = "APPROVED" => Caption(wf, i) # "WAITING"

\* A level drawn green is one the workflow has passed, as the colour suggests.  It does
\* not hold: the steps may be read after an approval has marked them and before it moves
\* the workflow on, and of two last approvals neither may.
GreenMeansPassed ==
  LET wf == widget.wf IN
  wf # None /\ wf.status = "PENDING" =>
    \A n \in wf.order..TotalSteps(wf.id) : AtOrder(wf, n) # {} => Level(wf, n) # "green"

\* What the preview shows after a decision, workflow-api would have answered, but for
\* the verdicts a rejection leaves on the steps.
PreviewKeepsTheRules ==
  [][LET wf == widget.wf  next == widget'.wf IN
     wf # None /\ next # None /\ wf.id = DemoId /\ next.id = DemoId /\ next # wf =>
       \E a \in {"submit", "approve", "reject", "cancel"}, i \in DOMAIN Plan[DemoId] :
         LET answer == Served(wf, a, [id |-> DemoId, step |-> i]) IN
         /\ answer # None /\ next.status = answer.status /\ next.order = answer.order
         /\ a # "reject" => next = answer]_vars

\* In the end the widget shows its workflow as workflow-api has it, unless it shows the
\* preview, or its workflow is another tenant's.
WidgetCatchesUp ==
  <>[](IsMounted /\ ~widget.mock /\ Found(session.tenant, host.selected)
         => widget.wf = server[host.selected])
=============================================================================
