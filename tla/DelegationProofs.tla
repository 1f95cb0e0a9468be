-------------------------- MODULE DelegationProofs --------------------------
(***************************************************************************)
(* Machine-checked proofs about Delegation, for every set of people,       *)
(* handlers and steps, every delegation clients may ask for and every      *)
(* bound: whoever is recorded as acting for somebody else held a           *)
(* delegation of theirs, and every approval is announced as recorded.      *)
(***************************************************************************)
EXTENDS Delegation, FiniteSetTheorems, TLAPS

-----------------------------------------------------------------------------
(* Type correctness.                                                       *)

\* A set of numbers has a least element.
LEMMA MinIsMember ==
  ASSUME NEW S \in SUBSET Nat, S # {}
  PROVE  Min(S) \in S
<1> DEFINE Upto(x) == {y \in S : y <= x}
           T == {Upto(x) : x \in S}
<1>1. T \subseteq FiniteSubsetsOf(S) /\ T # {}
  <2> SUFFICES ASSUME NEW x \in S PROVE Upto(x) \in FiniteSubsetsOf(S)
    BY Zenon
  <2>1. IsFiniteSet(Upto(x))
    BY FS_BoundedSetOfNaturals
  <2> QED
    BY <2>1 DEF FiniteSubsetsOf
<1>2. PICK U \in T : \A V \in T : ~(<<V, U>> \in StrictSubsetOrdering(S))
  BY <1>1, FS_StrictSubsetOrderingWellFounded, WFMin, Zenon
<1>3. PICK x \in S : U = Upto(x)
  OBVIOUS
<1>4. ASSUME NEW y \in S, y < x
      PROVE  FALSE
  <2>0. x \in Nat /\ y \in Nat /\ \A z \in S : z \in Nat
    OBVIOUS
  <2>1. x \in Upto(x) /\ x \notin Upto(y) /\ Upto(y) \subseteq Upto(x)
    <3>1. x <= x /\ ~(x <= y) /\ \A z \in S : z <= y => z <= x
      BY <1>4, <2>0
    <3> QED
      BY <3>1, Zenon
  <2>2. Upto(y) \in T
    OBVIOUS
  <2> HIDE DEF Upto, T
  <2>3. Upto(y) \in SUBSET S /\ Upto(x) \in SUBSET S
    BY DEF Upto
  <2>4. <<Upto(y), Upto(x)>> \in StrictSubsetOrdering(S)
    BY <2>1, <2>3 DEF StrictSubsetOrdering
  <2> QED
    BY <1>2, <1>3, <2>2, <2>4
<1>5. \A y \in S : x <= y
  BY <1>4
<1> QED
  BY <1>5 DEF Min

LEMMA PickType ==
  ASSUME TypeOK, DelegationAssumption, NEW a
  PROVE  Pick(a) \in Steps \cup {0}
<1>1. \A S \in SUBSET Pending : First(S) \in Steps \cup {0}
  <2> SUFFICES ASSUME NEW S \in SUBSET Pending PROVE First(S) \in Steps \cup {0}
    OBVIOUS
  <2>1. S \subseteq Nat /\ S \subseteq Steps
    BY DEF Pending, Steps, DelegationAssumption
  <2> QED
    BY <2>1, MinIsMember DEF First
<1>2. {s \in Pending : StepApprover[s] \in {a, Nobody}} \in SUBSET Pending
  OBVIOUS
<1> QED
  BY <1>1, <1>2 DEF Pick

LEMMA RequiredApproverType ==
  ASSUME DelegationAssumption, NEW s \in Steps \cup {0}
  PROVE  RequiredApprover(s) \in Anybody
BY DEF DelegationAssumption, RequiredApprover, Anybody

\* A handler that works for somebody: only an idle one has no actor.
Acting == \A w \in Workers : req[w].pc # "idle" => req[w].actor \in People

LEMMA ReadIsStart ==
  ASSUME TypeOK, DelegationAssumption, NEW w \in Workers, NEW a \in People,
         ReadToApprove(w, a) \/ ReadToReject(w, a)
  PROVE  \E op \in {"approve", "reject"}, s \in Steps \cup {0} : Start(w, op, a, s)
<1>1. CASE ReadToApprove(w, a)
  BY <1>1, PickType DEF ReadToApprove, Pending
<1>2. CASE ReadToReject(w, a)
  BY <1>2 DEF ReadToReject
<1> QED
  BY <1>1, <1>2

\* What each step of a handler leaves in its request.
LEMMA StartStep ==
  ASSUME TypeOK, Acting, NEW w \in Workers, NEW a \in People,
         NEW op \in {"approve", "reject"}, NEW s \in Steps \cup {0}, Start(w, op, a, s)
  PROVE  /\ TypeOK' /\ Acting'
         /\ \A v \in Workers : req'[v].pc \in {"authorize", "mark", "skip"} => req'[v] = req[v]
         /\ req[w].pc = "idle" /\ UNCHANGED <<now, delegations, steps, events>>
<1> DEFINE q == [Idle EXCEPT !.pc = "ask", !.op = op, !.actor = a, !.target = s,
                             !.pending = Pending]
<1>1. Idle \in Request /\ Pending \subseteq Steps
  BY DEF Idle, Request, Anybody, Pending
<1>2. q \in Request /\ q.pc = "ask" /\ q.actor = a
  BY <1>1 DEF Request, Anybody
<1>3. /\ req' = [req EXCEPT ![w] = q] /\ req[w].pc = "idle"
      /\ issued' = issued + 1 /\ issued < MaxRequests
      /\ UNCHANGED <<now, delegations, steps, events>>
  BY DEF Start
<1> HIDE DEF q
<1>4. req' \in [Workers -> Request] /\ req'[w] = q /\ \A v \in Workers \ {w} : req'[v] = req[v]
  BY <1>2, <1>3 DEF TypeOK
<1>5. TypeOK'
  BY <1>3, <1>4, DelegationAssumption DEF TypeOK, DelegationAssumption
<1>6. Acting'
  BY <1>2, <1>4 DEF Acting
<1> QED
  BY <1>2, <1>3, <1>4, <1>5, <1>6

LEMMA AskStep ==
  ASSUME TypeOK, Acting, NEW w \in Workers, Ask(w)
  PROVE  /\ TypeOK' /\ Acting'
         /\ req'[w].pc = "authorize" /\ req'[w].askedAt = now
         /\ \A v \in Workers \ {w} : req'[v] = req[v]
         /\ req[w].pc = "ask" /\ UNCHANGED <<now, delegations, steps, events>>
<1>1. req[w] \in Request /\ now \in Nat /\ now \in 0..MaxTime
  BY DelegationAssumption DEF TypeOK, DelegationAssumption
<1>2. /\ req' = [req EXCEPT ![w].pc = "authorize", ![w].askedAt = now]
      /\ req[w].pc = "ask" /\ UNCHANGED <<now, delegations, steps, events, issued>>
  BY DEF Ask
<1>3. /\ req' \in [Workers -> Request]
      /\ req'[w].actor = req[w].actor /\ req'[w].pc = "authorize" /\ req'[w].askedAt = now
      /\ \A v \in Workers \ {w} : req'[v] = req[v]
  BY <1>1, <1>2 DEF TypeOK, Request
<1>4. TypeOK'
  BY <1>2, <1>3 DEF TypeOK
<1>5. Acting'
  BY <1>2, <1>3 DEF Acting
<1> QED
  BY <1>2, <1>3, <1>4, <1>5

LEMMA AuthorizeStep ==
  ASSUME TypeOK, Acting, NEW w \in Workers, Authorize(w)
  PROVE  /\ TypeOK' /\ Acting'
         /\ req'[w].actor = req[w].actor /\ req'[w].target = req[w].target
         /\ req'[w].askedAt = req[w].askedAt /\ req'[w].actedAt = now
         /\ req'[w].delegatedFrom =
              DelegatedFrom(RequiredApprover(req[w].target), req[w].actor, req[w].askedAt)
         /\ req'[w].pc \in {"mark", "skip"}
         /\ \A v \in Workers \ {w} : req'[v] = req[v]
         /\ req[w].pc = "authorize" /\ UNCHANGED <<now, delegations, steps, events>>
<1> DEFINE d == DelegatedFrom(RequiredApprover(req[w].target), req[w].actor, req[w].askedAt)
<1>1. req[w] \in Request /\ req[w].target \in Steps \cup {0} /\ now \in Nat
  BY DEF TypeOK, Request
<1>2. d \in Anybody
  BY <1>1, RequiredApproverType, DelegationAssumption DEF DelegatedFrom, Anybody
<1>3. /\ req' = [req EXCEPT ![w].pc = IF req[w].target = 0 THEN "skip" ELSE "mark",
                            ![w].actedAt = now, ![w].delegatedFrom = d]
      /\ req[w].pc = "authorize" /\ UNCHANGED <<now, delegations, steps, events, issued>>
  BY DEF Authorize
<1> HIDE DEF d
<1>4. /\ req' \in [Workers -> Request]
      /\ req'[w].actor = req[w].actor /\ req'[w].target = req[w].target
      /\ req'[w].askedAt = req[w].askedAt
      /\ req'[w].actedAt = now /\ req'[w].delegatedFrom = d
      /\ req'[w].pc = IF req[w].target = 0 THEN "skip" ELSE "mark"
      /\ \A v \in Workers \ {w} : req'[v] = req[v]
  BY <1>1, <1>2, <1>3 DEF TypeOK, Request
<1>5. TypeOK'
  BY <1>3, <1>4 DEF TypeOK
<1>6. Acting'
  BY <1>3, <1>4 DEF Acting
<1> QED
  BY <1>3, <1>4, <1>5, <1>6 DEF d

LEMMA MarkStep ==
  ASSUME TypeOK, Acting, NEW w \in Workers, Mark(w)
  PROVE  /\ TypeOK' /\ Acting'
         /\ req' = [req EXCEPT ![w].pc = "skip"] /\ req[w].pc = "mark"
         /\ req[w].target \in Steps =>
              /\ steps'[req[w].target].status =
                   IF req[w].op = "approve" THEN "APPROVED" ELSE "REJECTED"
              /\ steps'[req[w].target].actedBy = req[w].actor
              /\ steps'[req[w].target].delegatedFrom = req[w].delegatedFrom
              /\ steps'[req[w].target].actedAt = req[w].actedAt
              /\ steps'[req[w].target].askedAt = req[w].askedAt
         /\ \A s \in Steps \ {req[w].target} : steps'[s] = steps[s]
         /\ UNCHANGED <<now, delegations, events>>
<1> DEFINE row == [status |-> IF req[w].op = "approve" THEN "APPROVED" ELSE "REJECTED",
                   actedBy |-> req[w].actor, delegatedFrom |-> req[w].delegatedFrom,
                   actedAt |-> req[w].actedAt, askedAt |-> req[w].askedAt]
<1>1. req[w] \in Request
  BY DEF TypeOK
<1>2. row \in StepRow
  BY <1>1 DEF Request, StepRow
<1>8. /\ row.status = IF req[w].op = "approve" THEN "APPROVED" ELSE "REJECTED"
      /\ row.actedBy = req[w].actor /\ row.delegatedFrom = req[w].delegatedFrom
      /\ row.actedAt = req[w].actedAt /\ row.askedAt = req[w].askedAt
  OBVIOUS
<1>3. /\ steps' = [steps EXCEPT ![req[w].target] = row]
      /\ req' = [req EXCEPT ![w].pc = "skip"] /\ req[w].pc = "mark"
      /\ UNCHANGED <<now, delegations, events, issued>>
  BY DEF Mark
<1> HIDE DEF row
<1>4. /\ steps' \in [Steps -> StepRow]
      /\ req[w].target \in Steps => steps'[req[w].target] = row
      /\ \A s \in Steps \ {req[w].target} : steps'[s] = steps[s]
  BY <1>2, <1>3 DEF TypeOK
<1>5. req' \in [Workers -> Request]
  BY <1>1, <1>3 DEF TypeOK, Request
<1>6. TypeOK'
  BY <1>3, <1>4, <1>5 DEF TypeOK
<1>7. Acting'
  BY <1>3 DEF Acting, TypeOK
<1> QED
  BY <1>3, <1>4, <1>6, <1>7, <1>8

LEMMA SkipStep ==
  ASSUME TypeOK, Acting, NEW w \in Workers, NEW s \in Steps, Skip(w, s)
  PROVE  /\ TypeOK' /\ Acting'
         /\ \A v \in Workers : /\ req'[v].pc = req[v].pc /\ req'[v].op = req[v].op
                               /\ req'[v].actor = req[v].actor
                               /\ req'[v].target = req[v].target
                               /\ req'[v].delegatedFrom = req[v].delegatedFrom
                               /\ req'[v].actedAt = req[v].actedAt
                               /\ req'[v].askedAt = req[v].askedAt
         /\ steps'[s].status = "SKIPPED" /\ steps'[s].actedBy = System
         /\ \A u \in Steps \ {s} : steps'[u] = steps[u]
         /\ UNCHANGED <<now, delegations, events>>
<1>1. /\ steps' = [steps EXCEPT ![s].status = "SKIPPED", ![s].actedBy = System,
                                ![s].actedAt = req[w].actedAt]
      /\ req' = [req EXCEPT ![w].pending = @ \ {s}]
      /\ UNCHANGED <<now, delegations, events, issued>>
  BY DEF Skip
<1>2. req[w] \in Request /\ steps[s] \in StepRow
  BY DEF TypeOK
<1>3. /\ steps' \in [Steps -> StepRow]
      /\ steps'[s].status = "SKIPPED" /\ steps'[s].actedBy = System
      /\ \A u \in Steps \ {s} : steps'[u] = steps[u]
  BY <1>1, <1>2 DEF TypeOK, StepRow, Request
<1>4. req' \in [Workers -> Request]
  BY <1>1, <1>2 DEF TypeOK, Request
<1>5. \A v \in Workers : /\ req'[v].pc = req[v].pc /\ req'[v].op = req[v].op
                         /\ req'[v].actor = req[v].actor
                         /\ req'[v].target = req[v].target
                         /\ req'[v].delegatedFrom = req[v].delegatedFrom
                         /\ req'[v].actedAt = req[v].actedAt
                         /\ req'[v].askedAt = req[v].askedAt
  BY <1>1 DEF TypeOK, Request
<1> QED
  BY <1>1, <1>3, <1>4, <1>5 DEF TypeOK, Acting

LEMMA AnnounceStep ==
  ASSUME TypeOK, Acting, NEW w \in Workers, Announce(w)
  PROVE  /\ TypeOK' /\ Acting'
         /\ \A v \in Workers \ {w} : req'[v] = req[v]
         /\ req'[w].pc = "idle" /\ req[w].pc = "skip"
         /\ events \subseteq events'
         /\ req[w].target # 0 => EventOf(req[w]) \in events'
         /\ UNCHANGED <<now, delegations, steps>>
<1>1. req[w] \in Request /\ req[w].actor \in People
  BY DEF TypeOK, Acting, Announce
<1>2. req[w].target # 0 => EventOf(req[w]) \in Event
  BY <1>1 DEF EventOf, Event, Request, Anybody
<1>3. /\ events' = IF req[w].target = 0 THEN events ELSE events \cup {EventOf(req[w])}
      /\ req' = [req EXCEPT ![w] = Idle] /\ req[w].pc = "skip"
      /\ UNCHANGED <<now, delegations, steps, issued>>
  BY DEF Announce
<1>4. Idle \in Request /\ Idle.pc = "idle"
  BY DEF Idle, Request, Anybody
<1>5. /\ req' \in [Workers -> Request] /\ req'[w] = Idle
      /\ \A v \in Workers \ {w} : req'[v] = req[v]
  BY <1>3, <1>4 DEF TypeOK
<1>6. TypeOK'
  BY <1>2, <1>3, <1>5 DEF TypeOK
<1>7. Acting'
  BY <1>4, <1>5 DEF Acting
<1> QED
  BY <1>3, <1>4, <1>5, <1>6, <1>7

LEMMA DelegationTypeStep ==
  ASSUME TypeOK, Acting, [Next]_vars
  PROVE  TypeOK' /\ Acting'
<1>1. CASE UNCHANGED vars
  BY <1>1 DEF vars, TypeOK, Acting
<1>2. ASSUME NEW d \in DelegationInputs, CreateDelegation(d)
      PROVE  TypeOK' /\ Acting'
  BY <1>2 DEF CreateDelegation, TypeOK, Acting
<1>3. CASE Tick
  BY <1>3, DelegationAssumption DEF Tick, TypeOK, Acting, DelegationAssumption
<1>4. ASSUME NEW w \in Workers, NEW a \in People, ReadToApprove(w, a) \/ ReadToReject(w, a)
      PROVE  TypeOK' /\ Acting'
  BY <1>4, ReadIsStart, StartStep, DelegationAssumption
<1>5. ASSUME NEW w \in Workers, Ask(w) \/ Authorize(w) \/ Mark(w) \/ Announce(w)
      PROVE  TypeOK' /\ Acting'
  BY <1>5, AskStep, AuthorizeStep, MarkStep, AnnounceStep
<1>6. ASSUME NEW w \in Workers, NEW s \in Steps, Skip(w, s)
      PROVE  TypeOK' /\ Acting'
  BY <1>6, SkipStep
<1> QED
  BY <1>1, <1>2, <1>3, <1>4, <1>5, <1>6 DEF Next

LEMMA DelegationInit == Init => TypeOK /\ Acting
<1> SUFFICES ASSUME Init PROVE TypeOK /\ Acting
  OBVIOUS
<1>1. Idle \in Request /\ Idle.pc = "idle"
  BY DEF Idle, Request, Anybody
<1>2. steps \in [Steps -> StepRow]
  BY DEF Init, StepRow, Anybody
<1>3. now \in 0..MaxTime /\ issued \in 0..MaxRequests
  BY DelegationAssumption DEF Init, DelegationAssumption
<1> QED
  BY <1>1, <1>2, <1>3 DEF Init, TypeOK, Acting

\* Steps, handlers, delegations and events stay well typed.
THEOREM DelegationTypeCorrect == Spec => []TypeOK
<1>1. TypeOK /\ Acting /\ [Next]_vars => TypeOK' /\ Acting'
  BY DelegationTypeStep
<1>2. Spec => [](TypeOK /\ Acting)
  BY <1>1, DelegationInit, PTL DEF Spec
<1> QED
  BY <1>2, PTL

-----------------------------------------------------------------------------
(* Proxies hold a delegation.                                              *)

\* what somebody must have been given to act for x on step s, at the time of asking
Grant(x, actor, s, at) ==
  \E d \in delegations :
    /\ d.tenant = OwnTenant /\ d.from <= at /\ at <= d.until
    /\ d.delegator = x /\ d.delegatee = actor /\ d.delegator = RequiredApprover(s)

\* What a handler that is about to write a step says of its actor is true of the time it
\* asked for, which has not come later than what it does with the answer.  Backed alone
\* is not inductive: the step is written from what the handler remembers.
Granted ==
  \A w \in Workers :
    /\ req[w].pc = "authorize" => req[w].askedAt <= now
    /\ req[w].pc = "mark" => req[w].askedAt <= req[w].actedAt
    /\ req[w].pc = "mark" /\ req[w].delegatedFrom # Nobody =>
         Grant(req[w].delegatedFrom, req[w].actor, req[w].target, req[w].askedAt)

BackedInv == TypeOK /\ Acting /\ Granted /\ Backed

LEMMA BackedIsGrant ==
  Backed <=> \A s \in Steps : ActedByPerson(s) /\ steps[s].delegatedFrom # Nobody =>
               /\ steps[s].askedAt <= steps[s].actedAt
               /\ Grant(steps[s].delegatedFrom, steps[s].actedBy, s, steps[s].askedAt)
BY DEF Backed, Grant

LEMMA GrantStays ==
  ASSUME NEW x, NEW a, NEW s, NEW at, Grant(x, a, s, at), delegations \subseteq delegations'
  PROVE  Grant(x, a, s, at)'
BY DEF Grant, RequiredApprover

\* What isAuthorizedApprover answers.
LEMMA AnswerIsGranted ==
  ASSUME NEW s, NEW a, NEW at, DelegatedFrom(RequiredApprover(s), a, at) # Nobody
  PROVE  Grant(DelegatedFrom(RequiredApprover(s), a, at), a, s, at)
BY DEF DelegatedFrom, InForce, Grant

LEMMA BackedStep ==
  ASSUME BackedInv, [Next]_vars
  PROVE  BackedInv'
<1>0. TypeOK /\ Acting /\ Granted /\ Backed /\ TypeOK' /\ Acting'
  BY DelegationTypeStep DEF BackedInv
<1> SUFFICES Granted' /\ Backed'
  BY <1>0 DEF BackedInv
<1> USE <1>0
<1>1. ASSUME delegations \subseteq delegations', steps' = steps, req' = req,
             now' = now \/ now' = now + 1
      PROVE  Granted' /\ Backed'
  <2>1. \A x, a, s, at : Grant(x, a, s, at) => Grant(x, a, s, at)'
    BY <1>1, GrantStays
  <2>2. ASSUME NEW w \in Workers, req[w].pc = "authorize" PROVE req[w].askedAt <= now'
    <3>1. req[w] \in Request /\ req[w].askedAt \in Nat /\ now \in 0..MaxTime
      BY DEF TypeOK, Request
    <3>2. req[w].askedAt <= now
      BY <2>2 DEF Granted
    <3> QED
      BY <1>1, <3>1, <3>2, DelegationAssumption DEF DelegationAssumption
  <2>3. Granted'
    BY <1>1, <2>1, <2>2 DEF Granted, Grant, RequiredApprover
  <2>4. Backed'
    BY <1>1, <2>1 DEF Backed, ActedByPerson, RequiredApprover
  <2> QED
    BY <2>3, <2>4
<1>2. ASSUME UNCHANGED <<delegations, steps>>
      PROVE  Backed'
  BY <1>2 DEF Backed, ActedByPerson, RequiredApprover
<1>3. CASE UNCHANGED vars \/ Tick \/ \E d \in DelegationInputs : CreateDelegation(d)
  BY <1>1, <1>3 DEF vars, Tick, CreateDelegation
<1>4. ASSUME NEW w \in Workers, NEW a \in People, ReadToApprove(w, a) \/ ReadToReject(w, a)
      PROVE  Granted' /\ Backed'
  <2>1. /\ UNCHANGED <<now, delegations, steps>>
        /\ \A v \in Workers : req'[v].pc \in {"authorize", "mark", "skip"} => req'[v] = req[v]
    BY <1>4, ReadIsStart, StartStep, DelegationAssumption
  <2> QED
    BY <1>2, <2>1 DEF Granted, Grant, RequiredApprover
<1>5. ASSUME NEW w \in Workers, Ask(w)
      PROVE  Granted' /\ Backed'
  <2>1. /\ UNCHANGED <<now, delegations, steps>>
        /\ req'[w].pc = "authorize" /\ req'[w].askedAt = now
        /\ \A v \in Workers \ {w} : req'[v] = req[v]
    BY <1>5, AskStep
  <2>2. now <= now
    BY DEF TypeOK
  <2> QED
    BY <1>2, <2>1, <2>2 DEF Granted, Grant, RequiredApprover
<1>6. ASSUME NEW w \in Workers, Authorize(w)
      PROVE  Granted' /\ Backed'
  <2> DEFINE x == DelegatedFrom(RequiredApprover(req[w].target), req[w].actor, req[w].askedAt)
  <2>1. /\ UNCHANGED <<now, delegations, steps>>
        /\ req'[w].actor = req[w].actor /\ req'[w].target = req[w].target
        /\ req'[w].askedAt = req[w].askedAt
        /\ req'[w].actedAt = now /\ req'[w].delegatedFrom = x
        /\ req'[w].pc \in {"mark", "skip"} /\ req[w].pc = "authorize"
        /\ \A v \in Workers \ {w} : req'[v] = req[v]
    BY <1>6, AuthorizeStep
  <2>2. x # Nobody => Grant(x, req[w].actor, req[w].target, req[w].askedAt)
    BY AnswerIsGranted
  <2>3. req[w].askedAt <= now
    BY <2>1 DEF Granted
  <2> HIDE DEF x
  <2>4. Granted'
    BY <2>1, <2>2, <2>3 DEF Granted, Grant, RequiredApprover
  <2> QED
    BY <1>2, <2>1, <2>4
<1>7. ASSUME NEW w \in Workers, Mark(w)
      PROVE  Granted' /\ Backed'
  <2>1. /\ req' = [req EXCEPT ![w].pc = "skip"] /\ req[w].pc = "mark"
        /\ req[w].target \in Steps =>
             /\ steps'[req[w].target].actedBy = req[w].actor
             /\ steps'[req[w].target].delegatedFrom = req[w].delegatedFrom
             /\ steps'[req[w].target].actedAt = req[w].actedAt
             /\ steps'[req[w].target].askedAt = req[w].askedAt
        /\ \A s \in Steps \ {req[w].target} : steps'[s] = steps[s]
        /\ UNCHANGED <<now, delegations>>
    BY <1>7, MarkStep
  <2>2. Granted'
    <3>1. \A v \in Workers : req'[v].pc \in {"authorize", "mark"} => req'[v] = req[v]
      BY <2>1 DEF TypeOK, Request
    <3> QED
      BY <2>1, <3>1 DEF Granted, Grant, RequiredApprover
  <2>3. req[w].askedAt <= req[w].actedAt
        /\ (req[w].delegatedFrom # Nobody =>
              \E d \in delegations :
                /\ d.tenant = OwnTenant /\ d.from <= req[w].askedAt /\ req[w].askedAt <= d.until
                /\ d.delegator = req[w].delegatedFrom /\ d.delegatee = req[w].actor
                /\ d.delegator = RequiredApprover(req[w].target))
    BY <2>1 DEF Granted, Grant
  <2>4. ASSUME NEW s \in Steps, steps'[s].actedBy \in People, steps'[s].delegatedFrom # Nobody
        PROVE  /\ steps'[s].askedAt <= steps'[s].actedAt
               /\ \E d \in delegations :
                    /\ d.tenant = OwnTenant
                    /\ d.from <= steps'[s].askedAt /\ steps'[s].askedAt <= d.until
                    /\ d.delegator = steps'[s].delegatedFrom /\ d.delegatee = steps'[s].actedBy
                    /\ d.delegator = RequiredApprover(s)
    <3>1. CASE s = req[w].target
      BY <2>1, <2>3, <2>4, <3>1
    <3>2. CASE s # req[w].target
      BY <2>1, <2>4, <3>2 DEF Backed, ActedByPerson
    <3> QED
      BY <3>1, <3>2
  <2>5. Backed'
    BY <2>1, <2>4 DEF Backed, ActedByPerson, RequiredApprover
  <2> QED
    BY <2>2, <2>5
<1>8. ASSUME NEW w \in Workers, NEW s \in Steps, Skip(w, s)
      PROVE  Granted' /\ Backed'
  <2>1. /\ \A v \in Workers : /\ req'[v].pc = req[v].pc /\ req'[v].actor = req[v].actor
                             /\ req'[v].target = req[v].target
                             /\ req'[v].delegatedFrom = req[v].delegatedFrom
                             /\ req'[v].actedAt = req[v].actedAt
                             /\ req'[v].askedAt = req[v].askedAt
        /\ steps'[s].actedBy = System
        /\ \A u \in Steps \ {s} : steps'[u] = steps[u]
        /\ UNCHANGED <<now, delegations>>
    BY <1>8, SkipStep
  <2>2. System \notin People
    BY DelegationAssumption DEF DelegationAssumption
  <2>3. Granted'
    BY <2>1 DEF Granted, Grant, RequiredApprover
  <2>4. Backed'
    BY <2>1, <2>2 DEF Backed, ActedByPerson, RequiredApprover
  <2> QED
    BY <2>3, <2>4
<1>9. ASSUME NEW w \in Workers, Announce(w)
      PROVE  Granted' /\ Backed'
  <2>1. /\ UNCHANGED <<now, delegations, steps>>
        /\ \A v \in Workers : req'[v].pc \in {"authorize", "mark"} => req'[v] = req[v]
    BY <1>9, AnnounceStep
  <2> QED
    BY <1>2, <2>1 DEF Granted, Grant, RequiredApprover
<1> QED
  BY <1>3, <1>4, <1>5, <1>6, <1>7, <1>8, <1>9 DEF Next

\* Non-repudiation: whatever handlers, clients and the clock do, a step that says
\* somebody acted for its approver is backed by a delegation of that approver to
\* that person, which had begun and not ended at the time the step's handler asked for,
\* and that time is no later than the one the step records.
THEOREM ProxiesAreBacked == Spec => []Backed
<1>1. Init => BackedInv
  BY DelegationInit DEF Init, Idle, BackedInv, Granted, Backed, ActedByPerson
<1>2. BackedInv /\ [Next]_vars => BackedInv'
  BY BackedStep
<1>3. BackedInv => Backed
  BY DEF BackedInv
<1> QED
  BY <1>1, <1>2, <1>3, PTL DEF Spec

-----------------------------------------------------------------------------
(* Every approval is announced as it is recorded.                          *)

Approval(s, actor, from) == [op |-> "approve", step |-> s, actor |-> actor, delegatedFrom |-> from]

\* An approved step is announced, or the handler that wrote it last is still going
\* to.  ApprovalAnnounced speaks of the moments when no handler runs: this is why
\* there is nothing left to announce then.
Announcing ==
  \A s \in Steps : steps[s].status = "APPROVED" =>
    \/ Approval(s, steps[s].actedBy, steps[s].delegatedFrom) \in events
    \/ \E w \in Workers :
         /\ req[w].pc = "skip" /\ req[w].op = "approve" /\ req[w].target = s
         /\ req[w].actor = steps[s].actedBy /\ req[w].delegatedFrom = steps[s].delegatedFrom

AnnouncedInv == TypeOK /\ Acting /\ Announcing

\* what EventOf makes of such a handler
LEMMA ApprovalEvent ==
  ASSUME NEW q, q.op = "approve"
  PROVE  EventOf(q) = Approval(q.target, q.actor, q.delegatedFrom)
BY DEF EventOf, Approval

LEMMA AnnouncingStays ==
  ASSUME Announcing, events \subseteq events',
         \A s \in Steps : steps'[s].status = "APPROVED" => steps'[s] = steps[s],
         \A w \in Workers : req[w].pc = "skip" =>
           /\ req'[w].pc = "skip" /\ req'[w].op = req[w].op /\ req'[w].target = req[w].target
           /\ req'[w].actor = req[w].actor /\ req'[w].delegatedFrom = req[w].delegatedFrom
  PROVE  Announcing'
BY DEF Announcing, Approval

LEMMA AnnouncingStep ==
  ASSUME AnnouncedInv, [Next]_vars
  PROVE  AnnouncedInv'
<1>0. TypeOK /\ Acting /\ Announcing /\ TypeOK' /\ Acting'
  BY DelegationTypeStep DEF AnnouncedInv
<1> SUFFICES Announcing'
  BY <1>0 DEF AnnouncedInv
<1> USE <1>0
<1>1. CASE UNCHANGED vars \/ Tick \/ \E d \in DelegationInputs : CreateDelegation(d)
  BY <1>1, AnnouncingStays DEF vars, Tick, CreateDelegation
<1>2. ASSUME NEW w \in Workers, NEW a \in People, ReadToApprove(w, a) \/ ReadToReject(w, a)
      PROVE  Announcing'
  <2>1. PICK op \in {"approve", "reject"}, s \in Steps \cup {0} : Start(w, op, a, s)
    BY <1>2, ReadIsStart, DelegationAssumption
  <2>2. /\ req[w].pc = "idle" /\ steps' = steps /\ events' = events
        /\ \A v \in Workers \ {w} : req'[v] = req[v]
    BY <2>1 DEF Start, TypeOK
  <2> QED
    BY <2>2, AnnouncingStays
<1>3. ASSUME NEW w \in Workers, Ask(w) \/ Authorize(w)
      PROVE  Announcing'
  <2>1. /\ req[w].pc \in {"ask", "authorize"} /\ steps' = steps /\ events' = events
        /\ \A v \in Workers \ {w} : req'[v] = req[v]
    BY <1>3, AskStep, AuthorizeStep
  <2> QED
    BY <2>1, AnnouncingStays
<1>4. ASSUME NEW w \in Workers, Mark(w)
      PROVE  Announcing'
  <2> DEFINE t == req[w].target
  <2>1. /\ req' = [req EXCEPT ![w].pc = "skip"] /\ req[w].pc = "mark" /\ events' = events
        /\ t \in Steps =>
             /\ steps'[t].status = IF req[w].op = "approve" THEN "APPROVED" ELSE "REJECTED"
             /\ steps'[t].actedBy = req[w].actor
             /\ steps'[t].delegatedFrom = req[w].delegatedFrom
        /\ \A s \in Steps \ {t} : steps'[s] = steps[s]
    BY <1>4, MarkStep
  <2>2. /\ req'[w].pc = "skip" /\ req'[w].op = req[w].op /\ req'[w].target = t
        /\ req'[w].actor = req[w].actor /\ req'[w].delegatedFrom = req[w].delegatedFrom
        /\ \A v \in Workers \ {w} : req'[v] = req[v]
        /\ req[w].op \in {"approve", "reject"}
    BY <2>1 DEF TypeOK, Request
  <2> HIDE DEF t
  <2>3. ASSUME NEW s \in Steps, steps'[s].status = "APPROVED"
        PROVE  \/ Approval(s, steps'[s].actedBy, steps'[s].delegatedFrom) \in events'
               \/ \E v \in Workers :
                    /\ req'[v].pc = "skip" /\ req'[v].op = "approve" /\ req'[v].target = s
                    /\ req'[v].actor = steps'[s].actedBy
                    /\ req'[v].delegatedFrom = steps'[s].delegatedFrom
    <3>1. CASE s = t
      <4>1. req[w].op = "approve"
        BY <2>1, <2>3, <3>1
      <4> QED
        BY <2>1, <2>2, <3>1, <4>1
    <3>2. CASE s # t
      <4>1. steps'[s] = steps[s]
        BY <2>1, <3>2
      <4>2. \A v \in Workers : req[v].pc = "skip" => req'[v] = req[v]
        BY <2>1, <2>2
      <4> QED
        BY <2>1, <2>3, <4>1, <4>2 DEF Announcing
    <3> QED
      BY <3>1, <3>2
  <2> QED
    BY <2>3 DEF Announcing, Approval
<1>5. ASSUME NEW w \in Workers, NEW s \in Steps, Skip(w, s)
      PROVE  Announcing'
  BY <1>5, SkipStep, AnnouncingStays
<1>6. ASSUME NEW w \in Workers, Announce(w)
      PROVE  Announcing'
  <2>1. /\ \A v \in Workers \ {w} : req'[v] = req[v]
        /\ events \subseteq events' /\ steps' = steps
        /\ req[w].target # 0 => EventOf(req[w]) \in events'
    BY <1>6, AnnounceStep
  <2>2. 0 \notin Steps
    BY DelegationAssumption DEF DelegationAssumption, Steps
  <2>3. ASSUME NEW s \in Steps, steps[s].status = "APPROVED"
        PROVE  \/ Approval(s, steps[s].actedBy, steps[s].delegatedFrom) \in events'
               \/ \E v \in Workers :
                    /\ req'[v].pc = "skip" /\ req'[v].op = "approve" /\ req'[v].target = s
                    /\ req'[v].actor = steps[s].actedBy
                    /\ req'[v].delegatedFrom = steps[s].delegatedFrom
    <3>1. CASE Approval(s, steps[s].actedBy, steps[s].delegatedFrom) \in events
      BY <2>1, <3>1
    <3>2. ASSUME NEW v \in Workers,
                 req[v].pc = "skip", req[v].op = "approve", req[v].target = s,
                 req[v].actor = steps[s].actedBy, req[v].delegatedFrom = steps[s].delegatedFrom
          PROVE  \/ v # w
                 \/ Approval(s, steps[s].actedBy, steps[s].delegatedFrom) \in events'
      BY <2>1, <2>2, <3>2, ApprovalEvent
    <3> QED
      BY <2>1, <2>3, <3>1, <3>2 DEF Announcing
  <2> QED
    BY <2>1, <2>3 DEF Announcing, Approval
<1> QED
  BY <1>1, <1>2, <1>3, <1>4, <1>5, <1>6 DEF Next

\* The audit trail agrees with the records: whenever no handler is running, each
\* approved step has an event that names its actor and for whom they acted.
THEOREM ApprovalsAreAnnounced == Spec => []ApprovalAnnounced
<1>1. Init => AnnouncedInv
  BY DelegationInit DEF Init, AnnouncedInv, Announcing
<1>2. AnnouncedInv /\ [Next]_vars => AnnouncedInv'
  BY AnnouncingStep
<1>3. AnnouncedInv => ApprovalAnnounced
  BY DEF AnnouncedInv, Announcing, ApprovalAnnounced, Settled, Approval
<1> QED
  BY <1>1, <1>2, <1>3, PTL DEF Spec
=============================================================================
