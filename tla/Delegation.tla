----------------------------- MODULE Delegation ------------------------------
(***************************************************************************)
(* Acting for somebody else: DelegationService (services/delegation.       *)
(* service.ts) and what approveWorkflow and rejectWorkflow do with its     *)
(* answer, for the reviewers of one order of one workflow.                 *)
(*                                                                         *)
(* The answer decides nothing but the columns and fields that say on whose *)
(* behalf somebody acted: neither handler looks at `authorized`.  Between  *)
(* reading the steps, taking the time and asking for delegations, writing  *)
(* the step, skipping its siblings and saving the event other handlers     *)
(* run, as they do in WorkflowService, which has the workflow's statuses.  *)
(***************************************************************************)
EXTENDS Integers, Sequences, FiniteSets, FiniteSetsExt

CONSTANTS
  Workers,           \* handlers in flight
  People,
  Nobody,            \* null or undefined
  NumSteps,          \* steps at the order, numbered as getStepsForWorkflow sorts them
  StepApprover,      \* their approverId
  WorkflowApprover,  \* approverId of the workflow's row while it is PENDING
  SkipSiblings,      \* is the policy ANY_CAN_APPROVE?
  Tenants, OwnTenant,
  DelegationInputs,  \* what clients ask createDelegation for: records of Window
  MaxTime,           \* bound: the clock stops here
  MaxRequests        \* bound: approvals and rejections

Steps == 1..NumSteps
System == "SYSTEM"

\* A delegation: createDelegation stores whatever it is given, and nothing ever
\* makes one inactive.
Window == [tenant : Tenants, delegator : People, delegatee : People,
           from : Nat, until : Nat]

ASSUME DelegationAssumption ==
  /\ NumSteps \in Nat /\ Nobody \notin People /\ System \notin People \cup {Nobody}
  /\ StepApprover \in [Steps -> People \cup {Nobody}]
  /\ WorkflowApprover \in People \cup {Nobody}
  /\ SkipSiblings \in BOOLEAN
  /\ OwnTenant \in Tenants /\ DelegationInputs \subseteq Window
  /\ MaxTime \in Nat /\ MaxRequests \in Nat

VARIABLES
  now,          \* the clock
  delegations,  \* the rows of delegations
  steps,        \* the rows of workflow_steps
  req,          \* what each handler holds
  events,       \* what the outbox says: who acted on which step for whom
  issued        \* requests so far

vars == <<now, delegations, steps, req, events, issued>>

Anybody == People \cup {Nobody}
StepRow == [status : {"PENDING", "APPROVED", "REJECTED", "SKIPPED"},
            actedBy : Anybody \cup {System}, delegatedFrom : Anybody, actedAt : Nat,
            askedAt : Nat]  \* history: for when actedBy's handler asked for delegations
Event == [op : {"approve", "reject"}, step : Steps, actor : People,
          delegatedFrom : Anybody]

\* `pending`: the steps that were PENDING when the handler read them
Request == [pc : {"idle", "ask", "authorize", "mark", "skip"},
            op : {"approve", "reject"}, actor : Anybody, target : Steps \cup {0},
            pending : SUBSET Steps, delegatedFrom : Anybody, askedAt : Nat, actedAt : Nat]
Idle == [pc |-> "idle", op |-> "approve", actor |-> Nobody, target |-> 0,
         pending |-> {}, delegatedFrom |-> Nobody, askedAt |-> 0, actedAt |-> 0]

TypeOK ==
  /\ now \in 0..MaxTime
  /\ delegations \subseteq DelegationInputs
  /\ steps \in [Steps -> StepRow]
  /\ req \in [Workers -> Request]
  /\ events \subseteq Event
  /\ issued \in 0..MaxRequests

Init ==
  /\ now = 0 /\ delegations = {}
  /\ steps = [s \in Steps |-> [status |-> "PENDING", actedBy |-> Nobody,
                               delegatedFrom |-> Nobody, actedAt |-> 0, askedAt |-> 0]]
  /\ req = [w \in Workers |-> Idle]
  /\ events = {} /\ issued = 0

-----------------------------------------------------------------------------
\* POST /delegations
CreateDelegation(d) ==
  /\ delegations' = delegations \cup {d}
  /\ UNCHANGED <<now, steps, req, events, issued>>

Tick ==
  /\ now < MaxTime /\ now' = now + 1
  /\ UNCHANGED <<delegations, steps, req, events, issued>>

\* mutant of InForce: the end of the window is not asked for
MutantInForce(d, approver, actor, at) ==
  /\ d.tenant = OwnTenant /\ d.delegator = approver /\ d.delegatee = actor
  /\ d.from <= at

\* the WHERE clause of isAuthorizedApprover
InForce(d, approver, actor, at) ==
  /\ d.tenant = OwnTenant /\ d.delegator = approver /\ d.delegatee = actor
  /\ d.from <= at /\ at <= d.until

\* isAuthorizedApprover: on whose behalf the actor acts
DelegatedFrom(approver, actor, at) ==
  IF /\ approver \notin {Nobody, actor}
     /\ \E d \in delegations : InForce(d, approver, actor, at)
  THEN approver ELSE Nobody

\* whose decision the target is
RequiredApprover(s) ==
  IF s # 0 /\ StepApprover[s] # Nobody THEN StepApprover[s] ELSE WorkflowApprover

-----------------------------------------------------------------------------
Pending == {s \in Steps : steps[s].status = "PENDING"}
First(S) == IF S = {} THEN 0 ELSE Min(S)

\* approve without a stepId: a pending step of the actor's own or of nobody's
\* before any other
Pick(actor) ==
  LET own == {s \in Pending : StepApprover[s] \in {actor, Nobody}} IN
  First(IF own # {} THEN own ELSE Pending)

Start(w, op, actor, s) ==
  /\ req[w].pc = "idle" /\ issued < MaxRequests /\ issued' = issued + 1
  /\ req' = [req EXCEPT ![w] =
       [Idle EXCEPT !.pc = "ask", !.op = op, !.actor = actor, !.target = s,
                    !.pending = Pending]]
  /\ UNCHANGED <<now, delegations, steps, events>>

\* the target has to be pending: 422
ReadToApprove(w, actor) ==
  \/ \E s \in Pending : Start(w, "approve", actor, s)
  \/ Pick(actor) # 0 /\ Start(w, "approve", actor, Pick(actor))

\* A stepId may name a step that has been acted on, or none: then no step is written.
ReadToReject(w, actor) ==
  \E s \in Steps \cup {0} : Start(w, "reject", actor, s)

\* isAuthorizedApprover takes the time
Ask(w) ==
  /\ req[w].pc = "ask"
  /\ req' = [req EXCEPT ![w].pc = "authorize", ![w].askedAt = now]
  /\ UNCHANGED <<now, delegations, steps, events, issued>>

\* its SELECT, and the handler's `const now` behind it
Authorize(w) ==
  LET q == req[w] IN
  /\ q.pc = "authorize"
  /\ req' = [req EXCEPT
       ![w].pc = IF q.target = 0 THEN "skip" ELSE "mark",
       ![w].actedAt = now,
       ![w].delegatedFrom = DelegatedFrom(RequiredApprover(q.target), q.actor, q.askedAt)]
  /\ UNCHANGED <<now, delegations, steps, events, issued>>

Mark(w) ==
  LET q == req[w] IN
  /\ q.pc = "mark"
  /\ steps' = [steps EXCEPT ![q.target] =
       [status |-> IF q.op = "approve" THEN "APPROVED" ELSE "REJECTED",
        actedBy |-> q.actor, delegatedFrom |-> q.delegatedFrom,
        actedAt |-> q.actedAt, askedAt |-> q.askedAt]]
  /\ req' = [req EXCEPT ![w].pc = "skip"]
  /\ UNCHANGED <<now, delegations, events, issued>>

\* the siblings still to be skipped
ToSkip(q) ==
  IF q.op = "reject" \/ SkipSiblings THEN q.pending \ {q.target} ELSE {}

\* delegated_from is not among the columns this UPDATE sets
Skip(w, s) ==
  LET q == req[w] IN
  /\ q.pc = "skip" /\ s \in ToSkip(q)
  /\ steps' = [steps EXCEPT ![s].status = "SKIPPED", ![s].actedBy = System,
                            ![s].actedAt = q.actedAt]
  /\ req' = [req EXCEPT ![w].pending = @ \ {s}]
  /\ UNCHANGED <<now, delegations, events, issued>>

\* mutant of EventOf: on whose behalf is left out of every event
MutantEventOf(q) ==
  [op |-> q.op, step |-> q.target, actor |-> q.actor, delegatedFrom |-> Nobody]

\* the event of a rejection has no delegatedFrom
EventOf(q) ==
  [op |-> q.op, step |-> q.target, actor |-> q.actor,
   delegatedFrom |-> IF q.op = "approve" THEN q.delegatedFrom ELSE Nobody]

\* mutant of Announce: a rejection that found no step names one
MutantAnnounce(w) ==
  LET q == req[w] IN
  /\ q.pc = "skip" /\ ToSkip(q) = {}
  /\ events' = events \cup {EventOf(q)}
  /\ req' = [req EXCEPT ![w] = Idle]
  /\ UNCHANGED <<now, delegations, steps, issued>>

\* the workflow's row is updated and the event saved
Announce(w) ==
  LET q == req[w] IN
  /\ q.pc = "skip" /\ ToSkip(q) = {}
  /\ events' = IF q.target = 0 THEN events ELSE events \cup {EventOf(q)}
  /\ req' = [req EXCEPT ![w] = Idle]
  /\ UNCHANGED <<now, delegations, steps, issued>>

Next ==
  \/ \E d \in DelegationInputs : CreateDelegation(d)
  \/ Tick
  \/ \E w \in Workers :
       \/ \E a \in People : ReadToApprove(w, a) \/ ReadToReject(w, a)
       \/ Ask(w) \/ Authorize(w) \/ Mark(w) \/ Announce(w)
       \/ \E s \in Steps : Skip(w, s)

Spec == Init /\ [][Next]_vars

-----------------------------------------------------------------------------
ActedByPerson(s) == steps[s].actedBy \in People
Settled == \A w \in Workers : req[w].pc = "idle"

\* Non-repudiation: a step says that somebody acted for its approver only if the
\* approver has delegated to that person, in this tenant, for a time that had begun and
\* had not ended when that person's handler asked, at or before the moment the step
\* records.  (It may end between the question and the UPDATE.)
Backed ==
  \A s \in Steps : ActedByPerson(s) /\ steps[s].delegatedFrom # Nobody =>
    /\ steps[s].askedAt <= steps[s].actedAt
    /\ \E d \in delegations :
         /\ d.tenant = OwnTenant
         /\ d.from <= steps[s].askedAt /\ steps[s].askedAt <= d.until
         /\ d.delegator = steps[s].delegatedFrom /\ d.delegatee = steps[s].actedBy
         /\ d.delegator = RequiredApprover(s)

\* A step's record and the audit trail agree: whoever a step names as its actor, and
\* for whom, is named by an event about that step once its handler is done.
\* Stated for approvals: see ProxyAnnounced.
ApprovalAnnounced ==
  Settled => \A s \in Steps : steps[s].status = "APPROVED" =>
    [op |-> "approve", step |-> s, actor |-> steps[s].actedBy,
     delegatedFrom |-> steps[s].delegatedFrom] \in events

\* Audit logs and step records both name the actual actor and the original approver
\* (docs/FEATURES.md).  They do not for a rejection.
ProxyAnnounced ==
  Settled => \A s \in Steps :
    ActedByPerson(s) /\ steps[s].delegatedFrom # Nobody =>
      \E e \in events : e.step = s /\ e.actor = steps[s].actedBy
                        /\ e.delegatedFrom = steps[s].delegatedFrom
=============================================================================
