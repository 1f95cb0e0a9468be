----------------------- MODULE WorkflowServiceProofs -----------------------
(***************************************************************************)
(* Machine-checked proofs about WorkflowService, for every set of handlers *)
(* and of steps, every step plan, every bound: what holds however handlers *)
(* interleave, and, of a handler that runs alone and to its end, that it   *)
(* implements the atomic ApprovalProcess, and what follows for the         *)
(* workflow: its events chain, its approval is unanimous, and while it     *)
(* waits somebody is awaited.                                              *)
(***************************************************************************)
EXTENDS SerialWorkflow, TLAPS

-----------------------------------------------------------------------------
(* Type correctness.                                                       *)

\* A handler's decision has the types of the columns it is written to.
LEMMA DecisionType ==
  ASSUME NEW q \in Request
  PROVE  /\ NextStatus(q) \in Status
         /\ NextOrder(q) \in Nat
         /\ EventOf(q) \in Event
<1>1. NextStatus(q) \in Status
  BY DEF NextStatus, Status
<1>2. NextOrder(q) \in Nat
  BY DEF NextOrder, Request, Row
<1>3. EventKind(q) \in Kinds
  BY DEF EventKind, Kinds
<1>4. (q.op = "approve" /\ Resolved(q)) \in BOOLEAN
  OBVIOUS
<1>5. EventOf(q) \in Event
  BY <1>1, <1>3, <1>4 DEF EventOf, Event, Request, Row
<1> QED
  BY <1>1, <1>2, <1>5

\* The values that stand for "no row", "no steps" and "no request" are typed.
LEMMA EmptyType == Idle \in Request /\ NoRow \in Row /\ NoSteps \in [Steps -> StepStatus]
BY DEF Idle, Request, NoRow, Row, NoSteps, StepStatus, Status, PCs, AllOps

\* Every statement of every handler keeps the tables and locals well typed.
LEMMA TypeStep ==
  ASSUME TypeOK, [Next]_vars
  PROVE  TypeOK'
<1> USE ConstantsAssumption DEF TypeOK
<1>1. CASE UNCHANGED vars
  BY <1>1 DEF vars
<1>2. ASSUME NEW w \in Workers, Handler(w)
      PROVE  TypeOK'
  <2>0. /\ req[w] \in Request
        /\ Loaded(w) \in Request
    BY DEF Loaded, Request
  <2>1. CASE CreateRow(w)
    <3>1. req' \in [Workers -> Request]
      BY <2>0, <2>1 DEF CreateRow, Request, PCs, AllOps
    <3> QED
      BY <3>1, <2>1 DEF CreateRow, Row, Status
  <2>2. CASE InsertSteps(w)
    BY EmptyType, <2>2 DEF InsertSteps, StepStatus
  <2>3. CASE InsertStepsFails(w)
    BY EmptyType, <2>3 DEF InsertStepsFails
  <2>4. ASSUME NEW o \in Transitions, ReadRow(w, o)
        PROVE  TypeOK'
    <3>1. req' \in [Workers -> Request]
      BY <2>0, <2>4 DEF ReadRow, Request, PCs, AllOps, Transitions
    <3> QED
      BY <3>1, <2>4 DEF ReadRow
  <2>5. ASSUME NEW q \in Request, Proceed(w, q)
        PROVE  TypeOK'
    BY <2>5 DEF Proceed
  <2>6. CASE DecideSubmit(w)
    <3>1. [Loaded(w) EXCEPT !.pc = "settle"] \in Request
      BY <2>0 DEF Request, PCs
    <3> QED
      BY <3>1, <2>5, <2>6 DEF DecideSubmit
  <2>7. CASE DecideCancel(w)
    <3>1. [Loaded(w) EXCEPT !.pc = "settle"] \in Request
      BY <2>0 DEF Request, PCs
    <3> QED
      BY <3>1, <2>5, <2>7 DEF DecideCancel
  <2>8. CASE DecideApprove(w)
    <3>1. PICK t \in PendingSteps(Loaded(w)) :
            LET q == [Loaded(w) EXCEPT !.target = t] IN
            Proceed(w, [q EXCEPT !.pc = "markStep",
                                 !.toSkip = IF StepPolicy[t] = "ANY_CAN_APPROVE"
                                            THEN PendingSiblings(q) ELSE {}])
      BY <2>8 DEF DecideApprove
    <3> DEFINE q == [Loaded(w) EXCEPT !.target = t]
               S == IF StepPolicy[t] = "ANY_CAN_APPROVE" THEN PendingSiblings(q) ELSE {}
    <3>2. t \in Steps /\ S \in SUBSET Steps
      BY DEF PendingSteps, CurrentSteps, PendingSiblings
    <3> HIDE DEF S
    <3>3. [q EXCEPT !.pc = "markStep", !.toSkip = S] \in Request
      BY <2>0, <3>2 DEF Request, PCs
    <3> QED
      BY <2>5, <3>1, <3>3 DEF S
  <2>9. CASE DecideReject(w)
    <3>1. PICK t \in CurrentSteps(Loaded(w)) \cup {NoStep} :
            LET q == [Loaded(w) EXCEPT !.target = t] IN
            Proceed(w, [q EXCEPT !.pc = IF t = NoStep THEN "settle" ELSE "markStep",
                                 !.toSkip = PendingSiblings(q)])
      BY <2>9 DEF DecideReject
    <3> DEFINE q == [Loaded(w) EXCEPT !.target = t]
               S == PendingSiblings(q)
               p == IF t = NoStep THEN "settle" ELSE "markStep"
    <3>2. t \in Steps \cup {NoStep} /\ S \in SUBSET Steps /\ p \in PCs
      BY DEF PendingSteps, CurrentSteps, PendingSiblings, PCs
    <3> HIDE DEF S, p
    <3>3. [q EXCEPT !.pc = p, !.toSkip = S] \in Request
      BY <2>0, <3>2 DEF Request, PCs
    <3> QED
      BY <2>5, <3>1, <3>3 DEF S, p
  <2>10. CASE Refuse(w)
    BY EmptyType, <2>5, <2>10 DEF Refuse
  <2>11. ASSUME NEW s \in Steps \cup {NoStep}, NEW st \in StepStatus, SetStep(s, st)
         PROVE  steps' \in [Steps -> StepStatus]
    BY <2>11 DEF SetStep
  <2>12. CASE MarkStep(w)
    <3>1. steps' \in [Steps -> StepStatus]
      BY <2>0, <2>11, <2>12 DEF MarkStep, Request, StepStatus
    <3>2. req' \in [Workers -> Request]
      BY <2>0, <2>12 DEF MarkStep, Request, PCs
    <3> QED
      BY <3>1, <3>2, <2>12 DEF MarkStep
  <2>13. CASE SkipSibling(w)
    <3>1. PICK s \in req[w].toSkip : /\ SetStep(s, "SKIPPED")
                                     /\ req' = [req EXCEPT ![w].toSkip = @ \ {s}]
      BY <2>13 DEF SkipSibling
    <3>2. steps' \in [Steps -> StepStatus]
      BY <2>0, <2>11, <3>1 DEF Request, StepStatus
    <3>3. req' \in [Workers -> Request]
      BY <2>0, <3>1 DEF Request
    <3> QED
      BY <3>2, <3>3, <2>13 DEF SkipSibling
  <2>14. CASE UpdateRow(w)
    <3>1. row' \in Row
      BY <2>0, <2>14, DecisionType DEF UpdateRow, Row
    <3>2. req' \in [Workers -> Request]
      BY <2>0, <2>14 DEF UpdateRow, Request, PCs
    <3> QED
      BY <3>1, <3>2, <2>14 DEF UpdateRow
  <2>15. CASE SaveEvent(w)
    BY EmptyType, <2>0, <2>15, DecisionType DEF SaveEvent
  <2>16. CASE DeleteSteps(w)
    <3>1. req' \in [Workers -> Request]
      BY <2>0, <2>16 DEF DeleteSteps, Request, PCs, AllOps
    <3> QED
      BY EmptyType, <3>1, <2>16 DEF DeleteSteps
  <2>17. CASE DeleteOutbox(w)
    <3>1. req' \in [Workers -> Request]
      BY <2>0, <2>17 DEF DeleteOutbox, Request, PCs
    <3> QED
      BY <3>1, <2>17 DEF DeleteOutbox
  <2>18. CASE DeleteRow(w)
    BY EmptyType, <2>18 DEF DeleteRow
  <2>19. CASE Abandon(w)
    BY EmptyType, <2>19 DEF Abandon
  <2> QED
    BY <1>2, <2>1, <2>2, <2>3, <2>4, <2>6, <2>7, <2>8, <2>9, <2>10, <2>12,
       <2>13, <2>14, <2>15, <2>16, <2>17, <2>18, <2>19 DEF Handler
<1> QED
  BY <1>1, <1>2 DEF Next

\* The tables and every handler's locals always have the types the schema and
\* the code give them.
THEOREM TypeCorrect == Spec => []TypeOK
<1>1. Init => TypeOK
  <2> SUFFICES ASSUME Init PROVE TypeOK
    OBVIOUS
  <2> USE EmptyType DEF Init
  <2>1. outbox \in Seq(Event)
    OBVIOUS
  <2>2. req \in [Workers -> Request] /\ row \in Row /\ steps \in [Steps -> StepStatus]
    OBVIOUS
  <2>3. issued \in 0..MaxRequests /\ abandons \in 0..MaxAbandons
    BY ConstantsAssumption
  <2>4. created \in BOOLEAN
    OBVIOUS
  <2> QED
    BY <2>1, <2>2, <2>3, <2>4 DEF TypeOK
<1>2. TypeOK /\ [Next]_vars => TypeOK'
  BY TypeStep
<1> QED
  BY <1>1, <1>2, PTL DEF Spec

-----------------------------------------------------------------------------
(* The inductive invariant.  What a handler does to the steps is stated    *)
(* once: apart from their insertion, no statement makes a settled step     *)
(* pending again.                                                          *)

Keeps == \A s \in Steps : Settled(s) => Settled(s)'

\* A verdict written to a step settles it, unsettles no other, and stores no
\* step that was not there.
LEMMA VerdictSettles ==
  ASSUME TypeOK, NEW s \in Steps \cup {NoStep},
         NEW st \in StepStatus \ {"PENDING", "ABSENT"}, SetStep(s, st)
  PROVE  /\ Keeps
         /\ s \in Steps => Settled(s)'
         /\ steps = NoSteps => steps' = NoSteps
<1>1. \A t \in Steps : steps'[t] = IF t # s THEN steps[t]
                                   ELSE IF steps[t] = "ABSENT" THEN steps[t] ELSE st
  BY DEF TypeOK, SetStep
<1>2. Keeps
  BY <1>1 DEF Keeps, Settled
<1>3. s \in Steps => Settled(s)'
  BY <1>1 DEF Settled
<1>4. steps = NoSteps => steps' = NoSteps
  BY <1>1 DEF NoSteps, SetStep
<1> QED
  BY <1>2, <1>3, <1>4

\* A handler that stops or starts a delete, whatever it deletes, keeps the
\* invariant: it leaves the others' snapshots as settled as they were.
LEMMA QuitKeepsIInv ==
  ASSUME TypeOK, IInv, NEW w \in Workers, NEW q \in Request,
         req' = [req EXCEPT ![w] = q],
         ~HasRow(q), q.pc # "insertSteps",
         created' = created,
         steps' = steps \/ steps' = NoSteps,
         row' = row \/ row' = NoRow,
         outbox' = outbox \/ outbox' = <<>>
  PROVE  IInv'
<1>1. Keeps
  BY DEF Keeps, Settled, NoSteps
<1>2. /\ req'[w] = q
      /\ \A v \in Workers : v # w => req'[v] = req[v]
  BY DEF TypeOK
<1>3. ~Decided(q) /\ q.pc # "saveEvent"
  BY DEF HasRow, Decided
<1>4. SettledBehind'
  BY <1>1 DEF IInv, SettledBehind, Keeps, NoRow
<1>5. ApprovedEventTruthful'
  BY <1>1 DEF IInv, ApprovedEventTruthful, Keeps
<1>6. SnapshotsBehind'
  BY <1>1, <1>2 DEF IInv, SnapshotsBehind, Keeps
<1>7. ApprovalsCover'
  BY <1>1, <1>2, <1>3 DEF IInv, ApprovalsCover, Keeps
<1>8. SkipsAreDone'
  BY <1>2, <1>3 DEF IInv, SkipsAreDone
<1>9. NoApproval => NoApproval'
  BY <1>2, <1>3 DEF NoApproval
<1>10. StepsComeFirst'
  BY <1>2, <1>9 DEF IInv, StepsComeFirst, NoRow
<1>11. BeforeCreation'
  BY <1>2, <1>9 DEF IInv, BeforeCreation, NoRow
<1> QED
  BY <1>4, <1>5, <1>6, <1>7, <1>8, <1>10, <1>11 DEF IInv

\* A handler that has read row and steps and decides to go on: an approval must
\* cover its order as of this moment.
LEMMA DecideKeepsIInv ==
  ASSUME TypeOK, IInv, NEW w \in Workers, NEW q \in Request,
         Proceed(w, q), req[w].pc = "readSteps",
         q.pc \in {"markStep", "settle"}, q.op = req[w].op, q.row = req[w].row,
         q.op = "approve" => steps # NoSteps,
         q.op = "approve" /\ Resolved(q) =>
           \A s \in Steps : StepOrder[s] = q.row.order =>
             \/ q.pc = "markStep" /\ s = q.target
             \/ s \in q.toSkip
             \/ Settled(s)
  PROVE  IInv'
<1>1. /\ req'[w] = q
      /\ \A v \in Workers : v # w => req'[v] = req[v]
      /\ UNCHANGED <<row, created, steps, outbox>>
  BY DEF TypeOK, Proceed
<1>2. HasRow(req[w]) /\ HasRow(q) /\ Decided(q)
  BY DEF HasRow, Decided
<1>3. SettledBehind' /\ ApprovedEventTruthful'
  BY <1>1 DEF IInv, SettledBehind, ApprovedEventTruthful, Settled
<1>4. SnapshotsBehind'
  BY <1>1, <1>2 DEF IInv, SnapshotsBehind, Settled
<1>5. ApprovalsCover'
  BY <1>1 DEF IInv, ApprovalsCover, Settled
<1>6. SkipsAreDone'
  BY <1>1 DEF IInv, SkipsAreDone
<1>7. steps = NoSteps /\ NoApproval => NoApproval'
  BY <1>1 DEF NoApproval
<1>8. StepsComeFirst'
  BY <1>1, <1>2, <1>7 DEF IInv, StepsComeFirst
<1>9. BeforeCreation'
  BY <1>1, <1>2, <1>7 DEF IInv, BeforeCreation
<1> QED
  BY <1>3, <1>4, <1>5, <1>6, <1>8, <1>9 DEF IInv

\* A handler that writes verdicts to steps: what remains for its approval to
\* settle shrinks only by steps that are settled.
LEMMA VerdictKeepsIInv ==
  ASSUME TypeOK, IInv, NEW w \in Workers, NEW q \in Request,
         NEW s \in Steps \cup {NoStep}, NEW st \in StepStatus \ {"PENDING", "ABSENT"},
         SetStep(s, st), req' = [req EXCEPT ![w] = q],
         UNCHANGED <<row, created, outbox>>,
         Decided(req[w]), q.pc = "settle", q.op = req[w].op, q.row = req[w].row,
         Resolved(q) <=> Resolved(req[w]),
         \A t \in Steps : \/ req[w].pc = "markStep" /\ t = req[w].target
                          \/ t \in req[w].toSkip
                         => t = s \/ t \in q.toSkip
  PROVE  IInv'
<1>1. /\ req'[w] = q
      /\ \A v \in Workers : v # w => req'[v] = req[v]
  BY DEF TypeOK
<1>2. HasRow(req[w]) /\ HasRow(q) /\ Decided(q)
  BY DEF HasRow, Decided
<1>3. /\ Keeps
      /\ s \in Steps => Settled(s)'
      /\ steps = NoSteps => steps' = NoSteps
  BY VerdictSettles
<1>4. SettledBehind' /\ ApprovedEventTruthful'
  BY <1>3 DEF IInv, SettledBehind, ApprovedEventTruthful, Keeps
<1>5. SnapshotsBehind'
  BY <1>1, <1>2, <1>3 DEF IInv, SnapshotsBehind, Keeps
<1>6. ApprovalsCover'
  <2> SUFFICES ASSUME NEW v \in Workers,
                      Decided(req'[v]), req'[v].op = "approve", Resolved(req'[v]),
                      NEW t \in Steps, StepOrder[t] = req'[v].row.order
               PROVE  \/ req'[v].pc = "markStep" /\ t = req'[v].target
                      \/ t \in req'[v].toSkip
                      \/ Settled(t)'
    BY DEF ApprovalsCover
  <2>1. CASE v # w
    BY <1>1, <1>3, <2>1 DEF IInv, ApprovalsCover, Keeps
  <2>2. CASE v = w
    <3>1. \/ req[w].pc = "markStep" /\ t = req[w].target
          \/ t \in req[w].toSkip
          \/ Settled(t)
      BY <1>1, <2>2 DEF IInv, ApprovalsCover
    <3> QED
      BY <1>1, <1>3, <2>2, <3>1 DEF Keeps
  <2> QED
    BY <2>1, <2>2
<1>7. SkipsAreDone'
  BY <1>1 DEF IInv, SkipsAreDone
<1>8. NoApproval => NoApproval'
  BY <1>1, <1>2 DEF NoApproval
<1>9. StepsComeFirst'
  BY <1>1, <1>2, <1>3, <1>8 DEF IInv, StepsComeFirst
<1>10. BeforeCreation'
  BY <1>1, <1>2, <1>3, <1>8 DEF IInv, BeforeCreation
<1> QED
  BY <1>4, <1>5, <1>6, <1>7, <1>9, <1>10 DEF IInv

\* The row and the snapshots read from it: the copy is as settled behind as the
\* row is.
LEMMA ReadKeepsIInv ==
  ASSUME TypeOK, IInv, NEW w \in Workers, NEW o \in Transitions, ReadRow(w, o)
  PROVE  IInv'
<1>1. /\ req'[w].pc = "readSteps" /\ req'[w].row = row
      /\ req'[w].toSkip = req[w].toSkip
      /\ \A v \in Workers : v # w => req'[v] = req[v]
      /\ UNCHANGED <<row, created, steps, outbox>>
      /\ row.exists
  BY DEF TypeOK, ReadRow, Request
<1>2. ~Decided(req'[w]) /\ HasRow(req'[w])
  BY <1>1 DEF Decided, HasRow
<1>3. SettledBehind' /\ ApprovedEventTruthful'
  BY <1>1 DEF IInv, SettledBehind, ApprovedEventTruthful, Settled
<1>4. SnapshotsBehind'
  BY <1>1 DEF IInv, SnapshotsBehind, SettledBehind, Settled
<1>5. ApprovalsCover'
  BY <1>1, <1>2 DEF IInv, ApprovalsCover, Settled
<1>6. SkipsAreDone'
  BY <1>1 DEF IInv, SkipsAreDone
<1>7. NoApproval => NoApproval'
  BY <1>1, <1>2 DEF NoApproval
<1>8. StepsComeFirst'
  BY <1>1, <1>7 DEF IInv, StepsComeFirst
<1>9. BeforeCreation'
  BY <1>1 DEF IInv, BeforeCreation
<1> QED
  BY <1>3, <1>4, <1>5, <1>6, <1>8, <1>9 DEF IInv

\* The row of a workflow that never was: nothing can be ahead of its steps.
LEMMA CreateKeepsIInv ==
  ASSUME TypeOK, IInv, NEW w \in Workers, CreateRow(w)
  PROVE  IInv'
<1>1. /\ req'[w].pc = "insertSteps"
      /\ \A v \in Workers : v # w => req'[v] = req[v]
      /\ UNCHANGED <<steps, outbox>>
      /\ created' = TRUE /\ row' = [exists |-> TRUE, status |-> "DRAFT", order |-> 1]
  BY DEF TypeOK, CreateRow, Request
<1>2. /\ steps = NoSteps /\ NoApproval
      /\ \A v \in Workers : ~HasRow(req[v]) /\ req[v].pc # "insertSteps"
  BY DEF IInv, BeforeCreation, CreateRow
<1>3. ~Decided(req'[w]) /\ ~HasRow(req'[w])
  BY <1>1 DEF Decided, HasRow
<1>4. \A s \in Steps : Settled(s)'
  BY <1>1, <1>2 DEF Settled, NoSteps
<1>5. SettledBehind' /\ ApprovedEventTruthful' /\ SnapshotsBehind'
  BY <1>4 DEF SettledBehind, ApprovedEventTruthful, SnapshotsBehind
<1>6. ApprovalsCover'
  BY <1>4 DEF ApprovalsCover
<1>7. SkipsAreDone'
  BY <1>1 DEF IInv, SkipsAreDone
<1>8. NoApproval'
  BY <1>1, <1>2, <1>3 DEF NoApproval
<1>9. StepsComeFirst'
  BY <1>1, <1>2, <1>3, <1>8 DEF StepsComeFirst
<1>10. BeforeCreation'
  BY <1>1 DEF BeforeCreation
<1> QED
  BY <1>5, <1>6, <1>7, <1>9, <1>10 DEF IInv

\* The steps appear, all pending, while every order anybody has read is the
\* first and no approval is under way.
LEMMA InsertKeepsIInv ==
  ASSUME TypeOK, IInv, NEW w \in Workers, InsertSteps(w)
  PROVE  IInv'
<1>1. /\ req'[w] = Idle
      /\ \A v \in Workers : v # w => req'[v] = req[v]
      /\ UNCHANGED <<row, created, outbox>>
  BY DEF TypeOK, InsertSteps
<1>2. /\ created /\ NoApproval
      /\ row.exists => row.order <= 1 /\ row.status # "APPROVED"
      /\ \A v \in Workers : /\ HasRow(req[v]) => req[v].row.order <= 1
                            /\ req[v].pc = "insertSteps" => v = w
  BY DEF IInv, StepsComeFirst, InsertSteps
<1>3. /\ ~HasRow(req'[w]) /\ ~Decided(req'[w])
      /\ req'[w].pc \notin {"insertSteps", "saveEvent"}
  BY <1>1 DEF HasRow, Decided, Idle
<1>4. SettledBehind'
  <2>1. row.exists => \A n \in Int : n \notin 1..(row.order - 1)
    BY <1>2 DEF TypeOK, Row
  <2> QED
    BY <1>1, <1>2, <2>1, ConstantsAssumption DEF SettledBehind
<1>5. ApprovedEventTruthful'
  BY <1>1, <1>2 DEF ApprovedEventTruthful, NoApproval
<1>6. SnapshotsBehind'
  <2>1. ASSUME NEW v \in Workers, HasRow(req[v]), NEW n \in Int
        PROVE  n \notin 1..(req[v].row.order - 1)
    BY <1>2, <2>1 DEF TypeOK, Request, Row
  <2> QED
    BY <1>1, <1>3, <2>1, ConstantsAssumption DEF SnapshotsBehind
<1>7. ApprovalsCover'
  BY <1>1, <1>2, <1>3 DEF ApprovalsCover, NoApproval
<1>8. SkipsAreDone'
  BY <1>1, <1>3 DEF IInv, SkipsAreDone
<1>9. StepsComeFirst'
  BY <1>1, <1>2, <1>3 DEF StepsComeFirst
<1>10. BeforeCreation'
  BY <1>1, <1>2 DEF BeforeCreation
<1> QED
  BY <1>4, <1>5, <1>6, <1>7, <1>8, <1>9, <1>10 DEF IInv

\* The UPDATE that ends a transition.  Only an approval moves the order, and it
\* moves it past an order only if it covers it and has nothing left to skip.
LEMMA UpdateKeepsIInv ==
  ASSUME TypeOK, IInv, NEW w \in Workers, UpdateRow(w)
  PROVE  IInv'
<1> DEFINE q == req[w]
<1>0. /\ q \in Request /\ q.pc = "settle" /\ q.toSkip = {}
      /\ HasRow(q) /\ Decided(q)
  BY DEF TypeOK, UpdateRow, HasRow, Decided
<1>1. /\ req'[w] = [q EXCEPT !.pc = "saveEvent"]
      /\ \A v \in Workers : v # w => req'[v] = req[v]
      /\ UNCHANGED <<created, steps, outbox>>
  BY DEF TypeOK, UpdateRow
<1>2. /\ req'[w].pc = "saveEvent" /\ req'[w].op = q.op /\ req'[w].row = q.row
      /\ req'[w].target = q.target /\ req'[w].toSkip = {} /\ req'[w].steps = q.steps
      /\ HasRow(req'[w]) /\ Decided(req'[w])
  BY <1>0, <1>1 DEF Request, HasRow, Decided
<1>3. row' = IF ~row.exists THEN row
             ELSE [row EXCEPT !.status = NextStatus(q),
                              !.order = IF q.op = "approve" THEN NextOrder(q) ELSE @]
  BY DEF UpdateRow
<1>4. \A s \in Steps : Settled(s) => Settled(s)'
  BY <1>1 DEF Settled
<1>5. \A s \in Steps : StepOrder[s] \in 1..(q.row.order - 1) => Settled(s)
  BY <1>0 DEF IInv, SnapshotsBehind
<1>6. q.op = "approve" /\ Resolved(q) =>
        \A s \in Steps : StepOrder[s] = q.row.order => Settled(s)
  BY <1>0 DEF IInv, ApprovalsCover
<1>7. SettledBehind'
  <2> SUFFICES ASSUME row'.exists
               PROVE  \A s \in Steps :
                        /\ StepOrder[s] \in 1..(row'.order - 1) => Settled(s)
                        /\ row'.status = "APPROVED" /\ StepOrder[s] >= 1 => Settled(s)
    BY <1>4 DEF SettledBehind
  <2>1. /\ row.exists /\ row'.status = NextStatus(q)
        /\ row'.order = IF q.op = "approve" THEN NextOrder(q) ELSE row.order
    BY <1>3 DEF TypeOK, Row
  <2>2. CASE q.op # "approve"
    BY <2>1, <2>2 DEF NextStatus, IInv, SettledBehind
  <2>3. CASE q.op = "approve" /\ ~Resolved(q)
    BY <1>5, <2>1, <2>3 DEF NextStatus, NextOrder
  <2>4. CASE q.op = "approve" /\ Resolved(q)
    <3>1. q.row.order \in Nat /\ \A s \in Steps : StepOrder[s] \in Int
      BY <1>0, ConstantsAssumption DEF Request, Row
    <3>2. \A s \in Steps : StepOrder[s] \in 1..q.row.order => Settled(s)
      BY <1>5, <1>6, <2>4, <3>1
    <3>3. row'.order = q.row.order + 1 \/ row'.order = q.row.order
      BY <2>1, <2>4 DEF NextOrder
    <3>4. row'.status = "APPROVED" => \A s \in Steps : StepOrder[s] <= q.row.order
      BY <2>1, <2>4, <3>1, ConstantsAssumption DEF NextStatus, FinalOrder
    <3> QED
      BY <3>1, <3>2, <3>3, <3>4
  <2> QED
    BY <2>2, <2>3, <2>4
<1>8. ApprovedEventTruthful'
  BY <1>1 DEF IInv, ApprovedEventTruthful, Settled
<1>9. SnapshotsBehind'
  BY <1>1, <1>2, <1>4, <1>5 DEF IInv, SnapshotsBehind
<1>10. ApprovalsCover'
  <2>1. Resolved(req'[w]) <=> Resolved(q)
    BY <1>2 DEF Resolved, PendingSiblings, PendingSteps, CurrentSteps
  <2> SUFFICES ASSUME NEW v \in Workers, Decided(req'[v]), req'[v].op = "approve",
                      Resolved(req'[v]), NEW s \in Steps,
                      StepOrder[s] = req'[v].row.order
               PROVE  \/ req'[v].pc = "markStep" /\ s = req'[v].target
                      \/ s \in req'[v].toSkip \/ Settled(s)'
    BY DEF ApprovalsCover
  <2>2. CASE v = w
    BY <1>2, <1>4, <1>6, <2>1, <2>2
  <2>3. CASE v # w
    BY <1>1, <1>4, <2>3 DEF IInv, ApprovalsCover
  <2> QED
    BY <2>2, <2>3
<1>11. SkipsAreDone'
  BY <1>1, <1>2 DEF IInv, SkipsAreDone
<1>12. NoApproval => NoApproval'
  BY <1>0, <1>1, <1>2 DEF NoApproval
<1>13. StepsComeFirst'
  <2> SUFFICES ASSUME NEW c \in Workers, req[c].pc = "insertSteps"
               PROVE  /\ created /\ steps = NoSteps /\ NoApproval'
                      /\ row'.exists => row'.order <= 1 /\ row'.status # "APPROVED"
                      /\ \A v \in Workers :
                           /\ HasRow(req'[v]) => req'[v].row.order <= 1
                           /\ req'[v].pc = "insertSteps" => v = c
    BY <1>1, <1>2 DEF StepsComeFirst
  <2>1. /\ created /\ steps = NoSteps /\ NoApproval
        /\ row.exists => row.order <= 1 /\ row.status # "APPROVED"
        /\ \A v \in Workers : /\ HasRow(req[v]) => req[v].row.order <= 1
                              /\ req[v].pc = "insertSteps" => v = c
    BY DEF IInv, StepsComeFirst
  <2>2. q.op # "approve"
    BY <1>0, <2>1 DEF NoApproval
  <2>3. row'.exists => row'.order <= 1 /\ row'.status # "APPROVED"
    BY <1>3, <2>1, <2>2 DEF TypeOK, Row, NextStatus
  <2> QED
    BY <1>0, <1>1, <1>2, <1>12, <2>1, <2>3
<1>14. BeforeCreation'
  BY <1>0, <1>1 DEF IInv, BeforeCreation
<1> QED
  BY <1>7, <1>8, <1>9, <1>10, <1>11, <1>13, <1>14 DEF IInv

\* The event goes out after its row was written: an approved event is saved by a
\* handler that covers the last order.
LEMMA SaveKeepsIInv ==
  ASSUME TypeOK, IInv, NEW w \in Workers, SaveEvent(w)
  PROVE  IInv'
<1> DEFINE q == req[w]
<1>0. /\ q \in Request /\ q.pc = "saveEvent" /\ q.toSkip = {}
      /\ HasRow(q) /\ Decided(q)
  BY DEF TypeOK, SaveEvent, HasRow, Decided, IInv, SkipsAreDone
<1>1. /\ req'[w] = Idle
      /\ \A v \in Workers : v # w => req'[v] = req[v]
      /\ UNCHANGED <<row, created, steps>>
  BY DEF TypeOK, SaveEvent
<1>2. /\ ~HasRow(req'[w]) /\ ~Decided(req'[w])
      /\ req'[w].pc \notin {"insertSteps", "saveEvent"}
  BY <1>1 DEF HasRow, Decided, Idle
<1>3. /\ Len(outbox') = Len(outbox) + 1
      /\ \A i \in 1..Len(outbox') :
           outbox'[i] = IF i <= Len(outbox) THEN outbox[i] ELSE EventOf(q)
  BY <1>0, DecisionType DEF TypeOK, SaveEvent
<1>4. EventOf(q).kind = "approved" =>
        q.op = "approve" /\ Resolved(q) /\ FinalOrder(q)
  BY DEF EventOf, EventKind, NextStatus
<1>5. SettledBehind'
  BY <1>1 DEF IInv, SettledBehind, Settled
<1>6. ApprovedEventTruthful'
  <2>1. ASSUME EventOf(q).kind = "approved", NEW s \in Steps, StepOrder[s] >= 1
        PROVE  Settled(s)
    <3>1. StepOrder[s] \in Int /\ q.row.order \in Nat /\ StepOrder[s] <= q.row.order
      BY <1>0, <1>4, <2>1, ConstantsAssumption DEF FinalOrder, Request, Row
    <3>2. CASE StepOrder[s] = q.row.order
      BY <1>0, <1>4, <2>1, <3>2 DEF IInv, ApprovalsCover
    <3>3. CASE StepOrder[s] # q.row.order
      <4>1. StepOrder[s] \in 1..(q.row.order - 1)
        BY <2>1, <3>1, <3>3
      <4> QED
        BY <1>0, <4>1 DEF IInv, SnapshotsBehind
    <3> QED
      BY <3>2, <3>3
  <2>2. Len(outbox) \in Nat
    BY DEF TypeOK
  <2> QED
    BY <1>1, <1>3, <2>1, <2>2 DEF IInv, ApprovedEventTruthful, Settled
<1>7. SnapshotsBehind' /\ SkipsAreDone'
  BY <1>1, <1>2 DEF IInv, SnapshotsBehind, SkipsAreDone, Settled
<1>8. ApprovalsCover'
  BY <1>1, <1>2 DEF IInv, ApprovalsCover, Settled
<1>9. NoApproval => NoApproval'
  <2> SUFFICES ASSUME NoApproval PROVE NoApproval'
    OBVIOUS
  <2>1. EventOf(q).kind # "approved"
    BY <1>0, <1>4 DEF NoApproval
  <2>2. Len(outbox) \in Nat
    BY DEF TypeOK
  <2> QED
    BY <1>1, <1>2, <1>3, <2>1, <2>2 DEF NoApproval
<1>10. StepsComeFirst'
  BY <1>1, <1>2, <1>9 DEF IInv, StepsComeFirst
<1>11. BeforeCreation'
  BY <1>0, <1>1 DEF IInv, BeforeCreation
<1> QED
  BY <1>5, <1>6, <1>7, <1>8, <1>10, <1>11 DEF IInv

\* The handler that approves covers its order: what is pending in what it has
\* just read is the step it acts on, or is among the steps it will skip.
LEMMA ApproveCovers ==
  ASSUME TypeOK, NEW w \in Workers, NEW t \in Steps, NEW q,
         q = [[Loaded(w) EXCEPT !.target = t] EXCEPT
                !.pc = "markStep",
                !.toSkip = IF StepPolicy[t] = "ANY_CAN_APPROVE"
                           THEN PendingSiblings([Loaded(w) EXCEPT !.target = t])
                           ELSE {}],
         Resolved(q),
         NEW s \in Steps, StepOrder[s] = q.row.order, s # t, ~Settled(s)
  PROVE  s \in q.toSkip
<1> DEFINE p == [Loaded(w) EXCEPT !.target = t]
<1>1. /\ p \in Request /\ p.target = t /\ p.steps = steps /\ p.row = req[w].row
  BY DEF TypeOK, Loaded, Request
<1>2. /\ q.target = t /\ q.steps = steps /\ q.row = p.row
      /\ q.toSkip = IF StepPolicy[t] = "ANY_CAN_APPROVE" THEN PendingSiblings(p) ELSE {}
  BY <1>1 DEF Request
<1>3. s \in PendingSiblings(q) /\ s \in PendingSiblings(p)
  BY <1>1, <1>2 DEF PendingSiblings, PendingSteps, CurrentSteps, Settled
<1>4. StepPolicy[t] = "ANY_CAN_APPROVE"
  BY <1>2, <1>3 DEF Resolved
<1> QED
  BY <1>2, <1>3, <1>4

\* Every statement of every handler preserves the invariant.
LEMMA IInvStep ==
  ASSUME TypeOK, IInv, [Next]_vars
  PROVE  IInv'
<1>1. CASE UNCHANGED vars
  BY <1>1 DEF vars, IInv, SettledBehind, ApprovedEventTruthful, SnapshotsBehind,
              ApprovalsCover, SkipsAreDone, StepsComeFirst, BeforeCreation,
              NoApproval, Settled
<1>2. ASSUME NEW w \in Workers, Handler(w)
      PROVE  IInv'
  <2>0. /\ req[w] \in Request /\ Loaded(w) \in Request
        /\ Idle \in Request /\ ~HasRow(Idle) /\ Idle.pc # "insertSteps"
    BY EmptyType DEF TypeOK, Loaded, Request, Idle, HasRow
  <2>1. CASE CreateRow(w)
    BY <2>1, CreateKeepsIInv
  <2>2. CASE InsertSteps(w)
    BY <2>2, InsertKeepsIInv
  <2>3. CASE InsertStepsFails(w)
    BY <2>0, <2>3, QuitKeepsIInv DEF InsertStepsFails
  <2>4. ASSUME NEW o \in Transitions, ReadRow(w, o)
        PROVE  IInv'
    BY <2>4, ReadKeepsIInv
  <2>5. CASE DecideSubmit(w) \/ DecideCancel(w)
    <3> DEFINE q == [Loaded(w) EXCEPT !.pc = "settle"]
    <3>1. /\ q \in Request /\ q.pc = "settle" /\ q.op = req[w].op /\ q.row = req[w].row
      BY <2>0 DEF Request, PCs, Loaded
    <3>2. Proceed(w, q) /\ req[w].pc = "readSteps" /\ req[w].op # "approve"
      BY <2>5 DEF DecideSubmit, DecideCancel, Reading
    <3> HIDE DEF q
    <3> QED
      BY <3>1, <3>2, DecideKeepsIInv
  <2>6. CASE DecideApprove(w)
    <3>1. PICK t \in PendingSteps(Loaded(w)) :
            LET q == [Loaded(w) EXCEPT !.target = t] IN
            Proceed(w, [q EXCEPT !.pc = "markStep",
                                 !.toSkip = IF StepPolicy[t] = "ANY_CAN_APPROVE"
                                            THEN PendingSiblings(q) ELSE {}])
      BY <2>6 DEF DecideApprove
    <3> DEFINE p == [Loaded(w) EXCEPT !.target = t]
               S == IF StepPolicy[t] = "ANY_CAN_APPROVE" THEN PendingSiblings(p) ELSE {}
               q == [p EXCEPT !.pc = "markStep", !.toSkip = S]
    <3>2. t \in Steps /\ S \in SUBSET Steps /\ ~Settled(t)
      BY DEF PendingSteps, CurrentSteps, PendingSiblings, Loaded, Settled, TypeOK, Request
    <3>3. /\ q \in Request /\ q.pc = "markStep" /\ q.op = req[w].op
          /\ q.row = req[w].row /\ q.target = t
      <4> HIDE DEF S
      <4> QED
        BY <2>0, <3>2 DEF Request, PCs, Loaded
    <3>4. ASSUME Resolved(q), NEW s \in Steps, StepOrder[s] = q.row.order,
                 s # q.target, ~Settled(s)
          PROVE  s \in q.toSkip
      BY <3>2, <3>3, <3>4, ApproveCovers
    <3>5. Proceed(w, q) /\ req[w].pc = "readSteps"
      BY <2>6, <3>1 DEF DecideApprove, Reading
    <3>6. steps # NoSteps
      BY <3>2 DEF Settled, NoSteps
    <3> HIDE DEF q
    <3> QED
      BY <3>3, <3>4, <3>5, <3>6, DecideKeepsIInv
  <2>7. CASE DecideReject(w)
    <3>1. PICK t \in CurrentSteps(Loaded(w)) \cup {NoStep} :
            LET q == [Loaded(w) EXCEPT !.target = t] IN
            Proceed(w, [q EXCEPT !.pc = IF t = NoStep THEN "settle" ELSE "markStep",
                                 !.toSkip = PendingSiblings(q)])
      BY <2>7 DEF DecideReject
    <3> DEFINE p == [Loaded(w) EXCEPT !.target = t]
               S == PendingSiblings(p)
               c == IF t = NoStep THEN "settle" ELSE "markStep"
               q == [p EXCEPT !.pc = c, !.toSkip = S]
    <3>2. t \in Steps \cup {NoStep} /\ S \in SUBSET Steps /\ c \in {"settle", "markStep"}
      BY DEF PendingSteps, CurrentSteps, PendingSiblings
    <3>3. /\ q \in Request /\ q.pc = c /\ q.op = req[w].op /\ q.row = req[w].row
      <4> HIDE DEF S, c
      <4> QED
        BY <2>0, <3>2 DEF Request, PCs, Loaded
    <3>4. Proceed(w, q) /\ req[w].pc = "readSteps" /\ req[w].op = "reject"
      BY <2>7, <3>1 DEF DecideReject, Reading
    <3> HIDE DEF q
    <3> QED
      BY <3>2, <3>3, <3>4, DecideKeepsIInv
  <2>8. CASE Refuse(w)
    BY <2>0, <2>8, QuitKeepsIInv DEF Refuse, Proceed
  <2>9. CASE MarkStep(w)
    <3> DEFINE q == [req[w] EXCEPT !.pc = "settle"]
               st == IF req[w].op = "approve" THEN "APPROVED" ELSE "REJECTED"
    <3>1. /\ q \in Request /\ q.pc = "settle" /\ q.op = req[w].op
          /\ q.row = req[w].row /\ q.steps = req[w].steps
          /\ q.target = req[w].target /\ q.toSkip = req[w].toSkip
      BY <2>0 DEF Request, PCs
    <3>2. Resolved(q) <=> Resolved(req[w])
      BY <3>1 DEF Resolved, PendingSiblings, PendingSteps, CurrentSteps
    <3>3. /\ SetStep(req[w].target, st) /\ req' = [req EXCEPT ![w] = q]
          /\ UNCHANGED <<row, created, outbox>> /\ Decided(req[w])
      BY <2>9 DEF MarkStep, Decided
    <3>4. st \in StepStatus \ {"PENDING", "ABSENT"} /\ req[w].target \in Steps \cup {NoStep}
      BY <2>0 DEF StepStatus, Request
    <3> HIDE DEF q, st
    <3> QED
      BY <3>1, <3>2, <3>3, <3>4, VerdictKeepsIInv
  <2>10. CASE SkipSibling(w)
    <3>1. PICK s \in req[w].toSkip : /\ SetStep(s, "SKIPPED")
                                     /\ req' = [req EXCEPT ![w].toSkip = @ \ {s}]
      BY <2>10 DEF SkipSibling
    <3> DEFINE q == [req[w] EXCEPT !.toSkip = req[w].toSkip \ {s}]
    <3>2. /\ q \in Request /\ q.pc = req[w].pc /\ q.op = req[w].op
          /\ q.row = req[w].row /\ q.steps = req[w].steps
          /\ q.target = req[w].target /\ q.toSkip = req[w].toSkip \ {s}
      BY <2>0 DEF Request
    <3>3. Resolved(q) <=> Resolved(req[w])
      BY <3>2 DEF Resolved, PendingSiblings, PendingSteps, CurrentSteps
    <3>4. /\ req' = [req EXCEPT ![w] = q] /\ Decided(req[w]) /\ req[w].pc = "settle"
          /\ UNCHANGED <<row, created, outbox>>
      BY <2>10, <3>1 DEF SkipSibling, Decided
    <3>5. "SKIPPED" \in StepStatus \ {"PENDING", "ABSENT"} /\ s \in Steps \cup {NoStep}
      BY <2>0 DEF StepStatus, Request
    <3>6. \A t \in Steps : t \in req[w].toSkip => t = s \/ t \in q.toSkip
      BY <3>2
    <3>7. q.pc = "settle" /\ req[w].pc # "markStep"
      BY <3>2, <3>4
    <3> HIDE DEF q
    <3> QED
      BY <3>1, <3>2, <3>3, <3>4, <3>5, <3>6, <3>7, VerdictKeepsIInv
  <2>11. CASE UpdateRow(w)
    BY <2>11, UpdateKeepsIInv
  <2>12. CASE SaveEvent(w)
    BY <2>12, SaveKeepsIInv
  <2>13. ASSUME NEW o \in {"deleteOutbox", "deleteRow"}, NEW q \in Request, q.pc = o
         PROVE  ~HasRow(q) /\ q.pc # "insertSteps"
    BY <2>13 DEF HasRow
  <2>14. CASE DeleteSteps(w)
    <3> DEFINE q == [req[w] EXCEPT !.pc = "deleteOutbox", !.op = "purge"]
    <3>1. q \in Request /\ q.pc = "deleteOutbox" /\ req' = [req EXCEPT ![w] = q]
      BY <2>0, <2>14 DEF DeleteSteps, Request, PCs, AllOps
    <3> HIDE DEF q
    <3> QED
      BY <2>13, <2>14, <3>1, QuitKeepsIInv DEF DeleteSteps
  <2>15. CASE DeleteOutbox(w)
    <3> DEFINE q == [req[w] EXCEPT !.pc = "deleteRow"]
    <3>1. q \in Request /\ q.pc = "deleteRow" /\ req' = [req EXCEPT ![w] = q]
      BY <2>0, <2>15 DEF DeleteOutbox, Request, PCs
    <3> HIDE DEF q
    <3> QED
      BY <2>13, <2>15, <3>1, QuitKeepsIInv DEF DeleteOutbox
  <2>16. CASE DeleteRow(w)
    BY <2>0, <2>16, QuitKeepsIInv DEF DeleteRow
  <2>17. CASE Abandon(w)
    BY <2>0, <2>17, QuitKeepsIInv DEF Abandon
  <2> QED
    BY <1>2, <2>1, <2>2, <2>3, <2>4, <2>5, <2>6, <2>7, <2>8, <2>9, <2>10, <2>11,
       <2>12, <2>14, <2>15, <2>16, <2>17 DEF Handler
<1> QED
  BY <1>1, <1>2 DEF Next

\* The invariant holds in every reachable state.
THEOREM Invariant == Spec => []IInv
<1>1. Init => IInv
  <2> SUFFICES ASSUME Init PROVE IInv
    OBVIOUS
  <2>1. /\ \A w \in Workers : /\ ~HasRow(req[w]) /\ ~Decided(req[w])
                             /\ req[w].pc \notin {"insertSteps", "saveEvent"}
        /\ ~row.exists /\ Len(outbox) = 0 /\ steps = NoSteps
    BY DEF Init, Idle, NoRow, HasRow, Decided
  <2> QED
    BY <2>1 DEF IInv, SettledBehind, ApprovedEventTruthful, SnapshotsBehind,
                ApprovalsCover, SkipsAreDone, StepsComeFirst, BeforeCreation, NoApproval
<1>2. TypeOK /\ IInv /\ [Next]_vars => IInv'
  BY IInvStep
<1> QED
  BY <1>1, <1>2, TypeCorrect, PTL DEF Spec

\* However the handlers interleave and wherever they are cut short, no approval
\* order is ever left behind with a reviewer still pending, and an approved
\* workflow has no pending step.
THEOREM NoOrderLeftBehind == Spec => []SettledBehind
<1>1. IInv => SettledBehind
  BY DEF IInv
<1> QED
  BY <1>1, Invariant, PTL

\* A workflow.approved.v1 event in the outbox is true of the steps for good.
THEOREM ApprovedEventsAreTruthful == Spec => []ApprovedEventTruthful
<1>1. IInv => ApprovedEventTruthful
  BY DEF IInv
<1> QED
  BY <1>1, Invariant, PTL

-----------------------------------------------------------------------------
(* Every transition is announced, as long as no handler has been cut short *)
(* and nobody deletes the workflow.  A handler that moves the row holds    *)
(* the event of that move from then on, and hands it to the outbox; what   *)
(* it read of the order was announced already when it read it.             *)

Undisturbed ==
  row.exists /\ abandons = 0 /\ \A w \in Workers : req[w].op # "purge"

\* there is an event of the status, or of the order's resolution
Said(status) ==
  \/ \E i \in 1..Len(outbox) : outbox[i].cur = status
  \/ \E w \in Workers : req[w].pc = "saveEvent" /\ EventOf(req[w]).cur = status

Resolves(e, n) == e.kind = "step_approved" /\ e.order = n /\ e.resolved
Passed(n) ==
  \/ \E i \in 1..Len(outbox) : Resolves(outbox[i], n)
  \/ \E w \in Workers : req[w].pc = "saveEvent" /\ Resolves(EventOf(req[w]), n)

\* the row is announced, and so is the row of every snapshot
Told ==
  Undisturbed =>
    /\ \A status \in Status \ {"DRAFT"} : row.status = status => Said(status)
    /\ \A n \in Nat \ {0} : n < row.order => Passed(n)
    /\ \A w \in Workers, n \in Nat \ {0} :
         HasRow(req[w]) /\ n < req[w].row.order => Passed(n)

\* a delete is under way until it is over or cut short
DeletesAtWork ==
  \A w \in Workers : req[w].op = "purge" <=> req[w].pc \in {"deleteOutbox", "deleteRow"}

Story == Told /\ DeletesAtWork

\* one handler's statement
Alone(w) == \A v \in Workers : v # w => req'[v] = req[v]

\* What is announced stays so when a handler acts that has no event to save.
LEMMA ToldStays ==
  ASSUME NEW w \in Workers, Alone(w), req[w].pc # "saveEvent", outbox' = outbox
  PROVE  /\ \A status \in Status : Said(status) => Said(status)'
         /\ \A n \in Nat : Passed(n) => Passed(n)'
<1>1. ASSUME NEW status \in Status, Said(status)
      PROVE  Said(status)'
  <2>1. CASE \E i \in 1..Len(outbox) : outbox[i].cur = status
    BY <2>1 DEF Said
  <2>2. CASE \E v \in Workers : req[v].pc = "saveEvent" /\ EventOf(req[v]).cur = status
    <3>1. PICK v \in Workers : req[v].pc = "saveEvent" /\ EventOf(req[v]).cur = status
      BY <2>2
    <3>2. req'[v] = req[v]
      BY <3>1 DEF Alone
    <3>3. req'[v].pc = "saveEvent" /\ EventOf(req'[v]).cur = status
      BY <3>1, <3>2
    <3> QED
      BY <3>3 DEF Said
  <2> QED
    BY <1>1, <2>1, <2>2 DEF Said
<1>2. ASSUME NEW n \in Nat, Passed(n)
      PROVE  Passed(n)'
  <2>1. CASE \E i \in 1..Len(outbox) : Resolves(outbox[i], n)
    BY <2>1 DEF Passed
  <2>2. CASE \E v \in Workers : req[v].pc = "saveEvent" /\ Resolves(EventOf(req[v]), n)
    <3>1. PICK v \in Workers : req[v].pc = "saveEvent" /\ Resolves(EventOf(req[v]), n)
      BY <2>2
    <3>2. req'[v] = req[v]
      BY <3>1 DEF Alone
    <3>3. req'[v].pc = "saveEvent" /\ Resolves(EventOf(req'[v]), n)
      BY <3>1, <3>2
    <3> QED
      BY <3>3 DEF Passed
  <2> QED
    BY <1>2, <2>1, <2>2 DEF Passed
<1> QED
  BY <1>1, <1>2

\* A statement that leaves row and outbox alone, of a handler that has no event to
\* save, keeps the story: a snapshot it takes is the row.
LEMMA ReadingKeepsStory ==
  ASSUME TypeOK, TypeOK', Story, NEW w \in Workers, Alone(w),
         req[w].pc # "saveEvent", outbox' = outbox, row' = row, abandons' = abandons,
         req'[w].op # "purge", req'[w].pc \notin {"deleteOutbox", "deleteRow"},
         req[w].op = "purge" => req[w].pc = "idle",
         HasRow(req'[w]) => \/ HasRow(req[w]) /\ req'[w].row = req[w].row
                            \/ req'[w].row = row
  PROVE  Story'
<1>1. DeletesAtWork'
  BY DEF Story, DeletesAtWork, Alone
<1>2. req[w].op # "purge"
  BY DEF Story, DeletesAtWork
<1>3. Undisturbed' => Undisturbed
  BY <1>2 DEF Undisturbed, Alone
<1>4. Told'
  <2> SUFFICES ASSUME Undisturbed'
               PROVE  /\ \A status \in Status \ {"DRAFT"} : row.status = status => Said(status)'
                      /\ \A n \in Nat \ {0} : n < row.order => Passed(n)'
                      /\ \A v \in Workers, n \in Nat \ {0} :
                           HasRow(req'[v]) /\ n < req'[v].row.order => Passed(n)'
    BY DEF Told
  <2>1. /\ \A status \in Status \ {"DRAFT"} : row.status = status => Said(status)
        /\ \A n \in Nat \ {0} : n < row.order => Passed(n)
        /\ \A v \in Workers, n \in Nat \ {0} :
             HasRow(req[v]) /\ n < req[v].row.order => Passed(n)
    BY <1>3 DEF Story, Told
  <2> QED
    BY <2>1, ToldStays DEF Alone
<1> QED
  BY <1>1, <1>4 DEF Story

\* While a handler is cut short or a delete is under way nothing is claimed.
LEMMA DisturbedKeepsStory ==
  ASSUME Story, NEW w \in Workers, Alone(w), ~Undisturbed',
         req'[w].op = "purge" <=> req'[w].pc \in {"deleteOutbox", "deleteRow"}
  PROVE  Story'
BY DEF Story, Told, DeletesAtWork, Alone

\* A new workflow has nothing to announce.
LEMMA CreateKeepsStory ==
  ASSUME TypeOK, Story, IInv, NEW w \in Workers, CreateRow(w)
  PROVE  Story'
<1>1. /\ Alone(w) /\ req'[w].pc = "insertSteps" /\ req'[w].op = "create"
      /\ row'.status = "DRAFT" /\ row'.order = 1 /\ ~created
  BY DEF CreateRow, Alone, TypeOK, Request
<1>2. \A v \in Workers : ~HasRow(req'[v])
  BY <1>1 DEF IInv, BeforeCreation, HasRow, Alone
<1>3. DeletesAtWork'
  BY <1>1 DEF Story, DeletesAtWork, Alone
<1>4. Told'
  BY <1>1, <1>2 DEF Told
<1> QED
  BY <1>3, <1>4 DEF Story

\* The event of a transition says what the UPDATE of the row has made of it.
LEMMA UpdateKeepsStory ==
  ASSUME TypeOK, Story, NEW w \in Workers, UpdateRow(w)
  PROVE  Story'
<1> DEFINE q == req[w]
           p == req'[w]
<1>1. q \in Request /\ q.pc = "settle" /\ HasRow(q)
  BY DEF TypeOK, UpdateRow, HasRow
<1>2. /\ Alone(w) /\ p.pc = "saveEvent" /\ p.op = q.op /\ p.row = q.row
      /\ p.target = q.target /\ p.steps = q.steps
      /\ outbox' = outbox /\ abandons' = abandons
  BY <1>1 DEF UpdateRow, Alone, TypeOK, Request
<1>3. Resolved(p) <=> Resolved(q)
  BY <1>2 DEF Resolved, PendingSiblings, PendingSteps, CurrentSteps
<1>4. NextStatus(p) = NextStatus(q) /\ NextStatus(q) \in Status
  BY <1>1, <1>2, <1>3, DecisionType DEF NextStatus, FinalOrder
<1>5. EventOf(p).cur = NextStatus(q)
  BY <1>4 DEF EventOf
<1>6. DeletesAtWork'
  BY <1>1, <1>2 DEF Story, DeletesAtWork, Alone
<1>7. ASSUME Undisturbed'
      PROVE  /\ Undisturbed /\ row'.status = NextStatus(q)
             /\ row'.order = IF q.op = "approve" THEN NextOrder(q) ELSE row.order
  <2>1. row.exists
    BY <1>7 DEF Undisturbed, UpdateRow
  <2>2. Undisturbed
    BY <1>2, <1>7, <2>1 DEF Undisturbed, Alone
  <2> QED
    BY <2>1, <2>2 DEF UpdateRow, TypeOK, Row
<1>8. ASSUME Undisturbed', NEW n \in Nat \ {0}, n < row'.order
      PROVE  Passed(n)'
  <2>1. CASE q.op # "approve"
    BY <1>1, <1>2, <1>7, <1>8, <2>1, ToldStays DEF Story, Told
  <2>2. CASE n < q.row.order
    BY <1>1, <1>2, <1>7, <1>8, <2>2, ToldStays DEF Story, Told
  <2>3. CASE q.op = "approve" /\ ~(n < q.row.order)
    <3>1. q.row.order \in Nat
      BY <1>1 DEF Request, Row
    <3>2. Resolved(q) /\ ~FinalOrder(q) /\ n = q.row.order
      BY <1>7, <1>8, <2>3, <3>1 DEF NextOrder
    <3>3. NextStatus(p) = "PENDING"
      BY <1>4, <2>3, <3>2 DEF NextStatus
    <3>4. EventKind(p) = "step_approved"
      BY <1>2, <2>3, <3>3 DEF EventKind
    <3>5. Resolves(EventOf(p), n)
      BY <1>2, <1>3, <2>3, <3>2, <3>4 DEF Resolves, EventOf
    <3> QED
      BY <1>2, <3>5 DEF Passed
  <2> QED
    BY <2>1, <2>2, <2>3
<1>9. Told'
  <2> SUFFICES ASSUME Undisturbed'
               PROVE  /\ \A status \in Status \ {"DRAFT"} : row'.status = status => Said(status)'
                      /\ \A n \in Nat \ {0} : n < row'.order => Passed(n)'
                      /\ \A v \in Workers, n \in Nat \ {0} :
                           HasRow(req'[v]) /\ n < req'[v].row.order => Passed(n)'
    BY DEF Told
  <2>1. ASSUME NEW status \in Status, row'.status = status
        PROVE  Said(status)'
    BY <1>2, <1>5, <1>7, <2>1 DEF Said
  <2>2. ASSUME NEW v \in Workers, NEW n \in Nat \ {0}, HasRow(req'[v]), n < req'[v].row.order
        PROVE  Passed(n)'
    <3>1. HasRow(req[v]) /\ n < req[v].row.order
      BY <1>1, <1>2, <2>2 DEF Alone
    <3> QED
      BY <1>1, <1>2, <1>7, <3>1, ToldStays DEF Story, Told
  <2> QED
    BY <1>8, <2>1, <2>2
<1> QED
  BY <1>6, <1>9 DEF Story

\* saveToOutbox: the event changes hands.
LEMMA SaveKeepsStory ==
  ASSUME TypeOK, Story, NEW w \in Workers, SaveEvent(w)
  PROVE  Story'
<1> DEFINE new == EventOf(req[w])
<1>1. /\ Alone(w) /\ req'[w] = Idle /\ req[w].pc = "saveEvent"
      /\ row' = row /\ abandons' = abandons
  BY DEF SaveEvent, Alone, TypeOK
<1>2. /\ outbox \in Seq(Event) /\ Len(outbox) \in Nat
      /\ Len(outbox') = Len(outbox) + 1 /\ outbox'[Len(outbox) + 1] = new
      /\ \A i \in 1..Len(outbox) : outbox'[i] = outbox[i]
  BY DEF SaveEvent, TypeOK
<1>3. /\ Len(outbox) + 1 \in 1..Len(outbox')
      /\ \A i \in 1..Len(outbox) : i \in 1..Len(outbox')
  BY <1>2
<1> HIDE DEF new
<1>4. ASSUME NEW status \in Status, Said(status)
      PROVE  Said(status)'
  <2>1. CASE \E i \in 1..Len(outbox) : outbox[i].cur = status
    BY <1>2, <1>3, <2>1 DEF Said
  <2>2. ASSUME NEW v \in Workers, req[v].pc = "saveEvent", EventOf(req[v]).cur = status
        PROVE  Said(status)'
    <3>1. CASE v = w
      BY <1>2, <1>3, <2>2, <3>1 DEF Said, new
    <3>2. CASE v # w
      <4>1. req'[v].pc = "saveEvent" /\ EventOf(req'[v]).cur = status
        BY <1>1, <2>2, <3>2 DEF Alone
      <4> QED
        BY <4>1 DEF Said
    <3> QED
      BY <3>1, <3>2
  <2> QED
    BY <1>4, <2>1, <2>2 DEF Said
<1>5. ASSUME NEW n \in Nat, Passed(n)
      PROVE  Passed(n)'
  <2>1. CASE \E i \in 1..Len(outbox) : Resolves(outbox[i], n)
    BY <1>2, <1>3, <2>1 DEF Passed
  <2>2. ASSUME NEW v \in Workers, req[v].pc = "saveEvent", Resolves(EventOf(req[v]), n)
        PROVE  Passed(n)'
    <3>1. CASE v = w
      BY <1>2, <1>3, <2>2, <3>1 DEF Passed, new
    <3>2. CASE v # w
      <4>1. req'[v].pc = "saveEvent" /\ Resolves(EventOf(req'[v]), n)
        BY <1>1, <2>2, <3>2 DEF Alone
      <4> QED
        BY <4>1 DEF Passed
    <3> QED
      BY <3>1, <3>2
  <2> QED
    BY <1>5, <2>1, <2>2 DEF Passed
<1>6. /\ req[w].op # "purge" /\ Idle.op # "purge" /\ ~HasRow(Idle)
      /\ Idle.pc = "idle"
  BY <1>1 DEF Story, DeletesAtWork, Idle, HasRow
<1>7. Undisturbed' => Undisturbed
  BY <1>1, <1>6 DEF Undisturbed, Alone
<1>8. DeletesAtWork'
  BY <1>1, <1>6 DEF Story, DeletesAtWork, Alone
<1>9. Told'
  <2> SUFFICES ASSUME Undisturbed'
               PROVE  /\ \A status \in Status \ {"DRAFT"} : row.status = status => Said(status)'
                      /\ \A n \in Nat \ {0} : n < row.order => Passed(n)'
                      /\ \A v \in Workers, n \in Nat \ {0} :
                           HasRow(req'[v]) /\ n < req'[v].row.order => Passed(n)'
    BY <1>1 DEF Told
  <2>1. /\ \A status \in Status \ {"DRAFT"} : row.status = status => Said(status)
        /\ \A n \in Nat \ {0} : n < row.order => Passed(n)
        /\ \A v \in Workers, n \in Nat \ {0} :
             HasRow(req[v]) /\ n < req[v].row.order => Passed(n)
    BY <1>7 DEF Story, Told
  <2> QED
    BY <1>1, <1>4, <1>5, <1>6, <2>1 DEF Alone
<1> QED
  BY <1>8, <1>9 DEF Story

\* Every statement of every handler keeps the story.
LEMMA StoryStep ==
  ASSUME TypeOK, TypeOK', IInv, Story, [Next]_vars
  PROVE  Story'
<1>1. CASE UNCHANGED vars
  BY <1>1 DEF vars, Story, Told, Undisturbed, Said, Passed, DeletesAtWork
<1>2. ASSUME NEW w \in Workers, Handler(w)
      PROVE  Story'
  <2>0. req[w] \in Request /\ Idle.op # "purge" /\ Idle.pc = "idle" /\ ~HasRow(Idle) /\ abandons \in Nat
    BY DEF TypeOK, Idle, HasRow
  <2>1. CASE CreateRow(w)
    BY <2>1, CreateKeepsStory
  <2>2. CASE InsertSteps(w) \/ InsertStepsFails(w) \/ Refuse(w)
    <3>1. /\ Alone(w) /\ req'[w] = Idle /\ req[w].pc \in {"insertSteps", "readSteps"}
          /\ outbox' = outbox /\ row' = row /\ abandons' = abandons
      BY <2>2 DEF InsertSteps, InsertStepsFails, Refuse, Proceed, Alone, TypeOK
    <3>2. req[w].op # "purge"
      BY <3>1 DEF Story, DeletesAtWork
    <3> QED
      BY <2>0, <3>1, <3>2, ReadingKeepsStory
  <2>3. ASSUME NEW o \in Transitions, ReadRow(w, o)
        PROVE  Story'
    <3>1. /\ Alone(w) /\ req'[w].op = o /\ req'[w].row = row /\ req[w].pc = "idle"
          /\ req'[w].pc = "readSteps"
          /\ outbox' = outbox /\ row' = row /\ abandons' = abandons
      BY <2>0, <2>3 DEF ReadRow, Alone, TypeOK, Request
    <3>2. o # "purge"
      BY DEF Transitions
    <3> QED
      BY <3>1, <3>2, ReadingKeepsStory
  <2>4. ASSUME NEW q, Proceed(w, q), req[w].pc = "readSteps", q.op = req[w].op,
               q.row = req[w].row, q.pc \in {"markStep", "settle"}
        PROVE  Story'
    <3>1. /\ Alone(w) /\ req'[w] = q
          /\ outbox' = outbox /\ row' = row /\ abandons' = abandons
      BY <2>4 DEF Proceed, Alone, TypeOK
    <3>2. req[w].op # "purge" /\ HasRow(req[w])
      BY <2>4 DEF Story, DeletesAtWork, HasRow
    <3> QED
      BY <2>4, <3>1, <3>2, ReadingKeepsStory
  <2>5. CASE DecideSubmit(w) \/ DecideCancel(w)
    <3>1. Proceed(w, [Loaded(w) EXCEPT !.pc = "settle"]) /\ req[w].pc = "readSteps"
      BY <2>5 DEF DecideSubmit, DecideCancel, Reading
    <3>2. /\ [Loaded(w) EXCEPT !.pc = "settle"].pc = "settle"
          /\ [Loaded(w) EXCEPT !.pc = "settle"].op = req[w].op
          /\ [Loaded(w) EXCEPT !.pc = "settle"].row = req[w].row
      BY <2>0 DEF Loaded, Request
    <3> QED
      BY <2>4, <3>1, <3>2
  <2>6. CASE DecideApprove(w)
    <3>1. PICK t \in Steps, S \in SUBSET Steps :
            Proceed(w, [[Loaded(w) EXCEPT !.target = t] EXCEPT !.pc = "markStep", !.toSkip = S])
      BY <2>6 DEF DecideApprove, PendingSteps, CurrentSteps, PendingSiblings
    <3> DEFINE q == [[Loaded(w) EXCEPT !.target = t] EXCEPT !.pc = "markStep", !.toSkip = S]
    <3>2. /\ q.pc = "markStep" /\ q.op = req[w].op /\ q.row = req[w].row
          /\ req[w].pc = "readSteps"
      BY <2>0, <2>6 DEF Loaded, Request, DecideApprove, Reading
    <3> QED
      BY <2>4, <3>1, <3>2
  <2>7. CASE DecideReject(w)
    <3>1. PICK t \in Steps \cup {NoStep}, p \in {"markStep", "settle"}, S \in SUBSET Steps :
            Proceed(w, [[Loaded(w) EXCEPT !.target = t] EXCEPT !.pc = p, !.toSkip = S])
      BY <2>7 DEF DecideReject, PendingSteps, CurrentSteps, PendingSiblings, PCs
    <3> DEFINE q == [[Loaded(w) EXCEPT !.target = t] EXCEPT !.pc = p, !.toSkip = S]
    <3>2. /\ q.pc \in {"markStep", "settle"} /\ q.op = req[w].op /\ q.row = req[w].row
          /\ req[w].pc = "readSteps"
      BY <2>0, <2>7 DEF Loaded, Request, DecideReject, Reading
    <3> QED
      BY <2>4, <3>1, <3>2
  <2>8. CASE MarkStep(w) \/ SkipSibling(w)
    <3>1. /\ Alone(w) /\ req[w].pc \in {"markStep", "settle"} /\ req'[w].pc = "settle"
          /\ req'[w].op = req[w].op /\ req'[w].row = req[w].row
          /\ outbox' = outbox /\ row' = row /\ abandons' = abandons
      BY <2>0, <2>8 DEF MarkStep, SkipSibling, Alone, TypeOK, Request
    <3>2. req[w].op # "purge" /\ HasRow(req[w])
      BY <3>1 DEF Story, DeletesAtWork, HasRow
    <3> QED
      BY <3>1, <3>2, ReadingKeepsStory
  <2>9. CASE UpdateRow(w)
    BY <2>9, UpdateKeepsStory
  <2>10. CASE SaveEvent(w)
    BY <2>10, SaveKeepsStory
  <2>11. CASE DeleteSteps(w)
    <3>1. Alone(w) /\ req'[w].op = "purge" /\ req'[w].pc = "deleteOutbox"
      BY <2>0, <2>11 DEF DeleteSteps, Alone, TypeOK, Request
    <3> QED
      BY <3>1, DisturbedKeepsStory DEF Undisturbed
  <2>12. CASE DeleteOutbox(w)
    <3>1. Alone(w) /\ req'[w].op = req[w].op /\ req'[w].pc = "deleteRow"
      BY <2>0, <2>12 DEF DeleteOutbox, Alone, TypeOK, Request
    <3>2. req[w].op = "purge"
      BY <2>12 DEF DeleteOutbox, Story, DeletesAtWork
    <3> QED
      BY <3>1, <3>2, DisturbedKeepsStory DEF Undisturbed
  <2>13. CASE DeleteRow(w)
    <3>1. Alone(w) /\ req'[w] = Idle /\ ~row'.exists
      BY <2>13 DEF DeleteRow, Alone, TypeOK, NoRow
    <3> QED
      BY <2>0, <3>1, DisturbedKeepsStory DEF Undisturbed
  <2>14. CASE Abandon(w)
    <3>1. Alone(w) /\ req'[w] = Idle /\ abandons' # 0
      BY <2>0, <2>14 DEF Abandon, Alone, TypeOK
    <3> QED
      BY <2>0, <3>1, DisturbedKeepsStory DEF Undisturbed
  <2> QED
    BY <1>2, <2>1, <2>2, <2>3, <2>5, <2>6, <2>7, <2>8, <2>9, <2>10, <2>11, <2>12,
       <2>13, <2>14 DEF Handler
<1> QED
  BY <1>1, <1>2 DEF Next

\* The story is an invariant of the handlers.
THEOREM StoryInvariant == Spec => []Story
<1>1. Init => Story
  <2> SUFFICES ASSUME Init PROVE Story
    OBVIOUS
  <2>1. ~row.exists /\ \A w \in Workers : req[w].pc = "idle" /\ req[w].op = "create"
    BY DEF Init, Idle, NoRow
  <2> QED
    BY <2>1 DEF Story, Told, Undisturbed, DeletesAtWork
<1>2. TypeOK /\ TypeOK' /\ IInv /\ Story /\ [Next]_vars => Story'
  BY StoryStep
<1> QED
  BY <1>1, <1>2, TypeCorrect, Invariant, PTL DEF Spec

\* Whatever handlers interleave, as long as none is cut short and nobody deletes the
\* workflow: its status, and every order it has passed, has its event in the outbox
\* or in the hands of the handler that is about to save it.
THEOREM TransitionsAreAnnounced == Spec => []TransitionsAnnounced
<1>1. TypeOK /\ Story => TransitionsAnnounced
  <2> SUFFICES ASSUME TypeOK, Told, Undisturbed
               PROVE  /\ row.status # "DRAFT" => Announced(LAMBDA e : e.cur = row.status)
                      /\ \A n \in 1..(row.order - 1) :
                           Announced(LAMBDA e : e.kind = "step_approved" /\ e.order = n /\ e.resolved)
    BY DEF TransitionsAnnounced, Story, Undisturbed
  <2>1. row.status \in Status /\ row.order \in Nat
    BY DEF TypeOK, Row
  <2>2. row.status # "DRAFT" => Announced(LAMBDA e : e.cur = row.status)
    BY <2>1 DEF Told, Said, Announced
  <2>3. ASSUME NEW n \in 1..(row.order - 1)
        PROVE  Announced(LAMBDA e : e.kind = "step_approved" /\ e.order = n /\ e.resolved)
    <3>1. n \in Nat \ {0} /\ n < row.order
      BY <2>1
    <3>2. Passed(n)
      BY <3>1 DEF Told
    <3> QED
      BY <3>2 DEF Passed, Resolves, Announced
  <2> QED
    BY <2>2, <2>3
<1> QED
  BY <1>1, TypeCorrect, StoryInvariant, PTL

-----------------------------------------------------------------------------
(* Handlers that run one after the other.                                  *)

\* the deployment these proofs speak of: one handler at a time, never cut short
OneHandler == (\E w : Workers = {w}) /\ MaxAbandons = 0

-----------------------------------------------------------------------------
(* The invariant of a handler that runs alone: what it read is still true  *)
(* but for what it has written itself.                                     *)

\* the siblings the handler decided to skip
Skips(q) ==
  IF q.op = "reject" \/ (q.op = "approve" /\ StepPolicy[q.target] = "ANY_CAN_APPROVE")
  THEN PendingSiblings(q) ELSE {}

Verdict(op) == IF op = "approve" THEN "APPROVED" ELSE "REJECTED"

\* a step as the handler has left it so far
Written(q, t) ==
  IF t = q.target /\ q.pc # "markStep" THEN Verdict(q.op)
  ELSE IF t \in Skips(q) /\ t \notin q.toSkip THEN "SKIPPED" ELSE q.steps[t]

\* the row as it is read, and as the UPDATE leaves it
RowIsRead(q) ==
  HasRow(q) =>
    /\ row.exists /\ q.row.exists
    /\ q.pc # "saveEvent" => row = q.row
    /\ q.pc = "saveEvent" =>
         /\ row.status = NextStatus(q)
         /\ row.order = IF q.op = "approve" THEN NextOrder(q) ELSE q.row.order

\* what the decision was made from
DecisionIsSound(q) ==
  Decided(q) =>
    /\ q.op \in Transitions
    /\ q.op = "submit" => q.row.status = "DRAFT" /\ q.target = NoStep
    /\ q.op = "cancel" => q.row.status \in {"DRAFT", "PENDING"} /\ q.target = NoStep
    /\ q.op = "approve" => q.row.status = "PENDING" /\ q.target \in PendingSteps(q)
    /\ q.op = "reject" => q.row.status = "PENDING"
                          /\ q.target \in CurrentSteps(q) \cup {NoStep}
    /\ q.pc = "markStep" => q.target # NoStep /\ q.toSkip = Skips(q)
    /\ q.toSkip \subseteq Skips(q)
    /\ \A t \in Steps : steps[t] = Written(q, t)

\* before the first statement, between handlers, and while creating or deleting
ElsewhereClean(q) ==
  /\ ~created => row = NoRow
  /\ q.pc = "idle" => q = Idle
  /\ q.pc = "readSteps" => q.target = NoStep /\ q.toSkip = {}
  /\ q.pc = "insertSteps" =>
       created /\ row = [exists |-> TRUE, status |-> "DRAFT", order |-> 1] /\ steps = NoSteps
  /\ q.pc \in {"deleteOutbox", "deleteRow"} => steps = NoSteps
  /\ q.pc = "deleteRow" => outbox = <<>>

AloneInv ==
  \A w \in Workers :
    RowIsRead(req[w]) /\ DecisionIsSound(req[w]) /\ ElsewhereClean(req[w])

-----------------------------------------------------------------------------
(* The abstract variables, by what the one handler is doing.               *)

LEMMA Mapped ==
  ASSUME NEW w, Workers = {w}
  PROVE  /\ MappedFlow = IF req[w].pc \in {"insertSteps", "deleteOutbox", "deleteRow"} THEN NoRow
                         ELSE IF req[w].pc \in {"markStep", "settle", "saveEvent"}
                              THEN req[w].row ELSE row
         /\ MappedVerdict = IF req[w].pc \in {"markStep", "settle", "saveEvent"}
                            THEN req[w].steps ELSE steps
         /\ MappedLog = IF req[w].pc \in {"deleteOutbox", "deleteRow"} THEN <<>> ELSE outbox
         /\ MappedUsed <=> (created /\ req[w].pc # "insertSteps")
         /\ MappedUsed \in BOOLEAN
<1>1. (\E v \in Workers : Writing(v)) <=> req[w].pc \in {"markStep", "settle", "saveEvent"}
  BY DEF Writing
<1>2. Writing(w) => (CHOOSE v \in Workers : Writing(v)) = w
  OBVIOUS
<1>3. (\E v \in Workers : Creating(v) \/ Purging(v))
        <=> req[w].pc \in {"insertSteps", "deleteOutbox", "deleteRow"}
  BY DEF Creating, Purging
<1>4. MappedFlow = IF req[w].pc \in {"insertSteps", "deleteOutbox", "deleteRow"} THEN NoRow
                   ELSE IF req[w].pc \in {"markStep", "settle", "saveEvent"}
                        THEN req[w].row ELSE row
  BY <1>1, <1>2, <1>3 DEF MappedFlow, Writing
<1>5. MappedVerdict = IF req[w].pc \in {"markStep", "settle", "saveEvent"}
                      THEN req[w].steps ELSE steps
  BY <1>1, <1>2 DEF MappedVerdict, Writing
<1>6. MappedLog = IF req[w].pc \in {"deleteOutbox", "deleteRow"} THEN <<>> ELSE outbox
  BY DEF MappedLog, Purging
<1>7. /\ MappedUsed <=> (created /\ req[w].pc # "insertSteps")
      /\ MappedUsed \in BOOLEAN
  BY DEF MappedUsed, Creating
<1> QED
  BY <1>4, <1>5, <1>6, <1>7

\* The same of the next state.
LEMMA MappedNext ==
  ASSUME NEW w, Workers = {w}
  PROVE  /\ MappedFlow' = IF req'[w].pc \in {"insertSteps", "deleteOutbox", "deleteRow"} THEN NoRow
                          ELSE IF req'[w].pc \in {"markStep", "settle", "saveEvent"}
                               THEN req'[w].row ELSE row'
         /\ MappedVerdict' = IF req'[w].pc \in {"markStep", "settle", "saveEvent"}
                             THEN req'[w].steps ELSE steps'
         /\ MappedLog' = IF req'[w].pc \in {"deleteOutbox", "deleteRow"} THEN <<>> ELSE outbox'
         /\ MappedUsed' <=> (created' /\ req'[w].pc # "insertSteps")
         /\ MappedUsed' \in BOOLEAN
<1>1. (\E v \in Workers : Writing(v)')
        <=> req'[w].pc \in {"markStep", "settle", "saveEvent"}
  BY DEF Writing
<1>2. Writing(w)' => (CHOOSE v \in Workers : Writing(v)') = w
  OBVIOUS
<1>3. (\E v \in Workers : Creating(v)' \/ Purging(v)')
        <=> req'[w].pc \in {"insertSteps", "deleteOutbox", "deleteRow"}
  BY DEF Creating, Purging
<1>4. MappedFlow' = IF req'[w].pc \in {"insertSteps", "deleteOutbox", "deleteRow"} THEN NoRow
                    ELSE IF req'[w].pc \in {"markStep", "settle", "saveEvent"}
                         THEN req'[w].row ELSE row'
  BY <1>1, <1>2, <1>3 DEF MappedFlow, Writing
<1>5. MappedVerdict' = IF req'[w].pc \in {"markStep", "settle", "saveEvent"}
                       THEN req'[w].steps ELSE steps'
  BY <1>1, <1>2 DEF MappedVerdict, Writing
<1>6. MappedLog' = IF req'[w].pc \in {"deleteOutbox", "deleteRow"} THEN <<>> ELSE outbox'
  BY DEF MappedLog, Purging
<1>7. /\ MappedUsed' <=> (created' /\ req'[w].pc # "insertSteps")
      /\ MappedUsed' \in BOOLEAN
  BY DEF MappedUsed, Creating
<1> QED
  BY <1>4, <1>5, <1>6, <1>7

-----------------------------------------------------------------------------
(* The invariant is inductive.                                             *)

\* What a handler computes from its snapshot does not depend on how far it is.
LEMMA SameDecision ==
  ASSUME NEW q, NEW p, p.op = q.op, p.row = q.row, p.steps = q.steps, p.target = q.target
  PROVE  /\ CurrentSteps(p) = CurrentSteps(q) /\ PendingSteps(p) = PendingSteps(q)
         /\ PendingSiblings(p) = PendingSiblings(q) /\ Skips(p) = Skips(q)
         /\ Resolved(p) <=> Resolved(q)
         /\ NextStatus(p) = NextStatus(q) /\ NextOrder(p) = NextOrder(q)
<1>1. /\ CurrentSteps(p) = CurrentSteps(q) /\ PendingSteps(p) = PendingSteps(q)
      /\ PendingSiblings(p) = PendingSiblings(q)
  BY DEF CurrentSteps, PendingSteps, PendingSiblings
<1>2. Skips(p) = Skips(q) /\ (Resolved(p) <=> Resolved(q))
  BY <1>1 DEF Skips, Resolved
<1>3. FinalOrder(p) <=> FinalOrder(q)
  BY DEF FinalOrder
<1>4. NextStatus(p) = NextStatus(q) /\ NextOrder(p) = NextOrder(q)
  BY <1>2, <1>3 DEF NextStatus, NextOrder
<1> QED
  BY <1>1, <1>2, <1>4

\* The handler is done, or was never there.
LEMMA IdleKeepsAlone ==
  ASSUME NEW w, Workers = {w}, req'[w] = Idle, ~created' => row' = NoRow
  PROVE  AloneInv'
<1>1. req'[w].pc = "idle"
  BY DEF Idle
<1>2. RowIsRead(req[w])'
  BY <1>1 DEF RowIsRead, HasRow
<1>3. DecisionIsSound(req[w])'
  BY <1>1 DEF DecisionIsSound, Decided
<1>4. ElsewhereClean(req[w])'
  BY <1>1 DEF ElsewhereClean
<1> QED
  BY <1>2, <1>3, <1>4 DEF AloneInv

\* It has decided.
LEMMA DecideKeepsAlone ==
  ASSUME NEW w, Workers = {w}, TypeOK, AloneInv, req[w].pc = "readSteps",
         UNCHANGED <<row, created, steps, outbox>>,
         req'[w].row = req[w].row, req'[w].steps = steps, req'[w].op \in Transitions,
         req'[w].pc \in {"markStep", "settle"},
         req'[w].pc = "settle" <=> req'[w].target = NoStep,
         req'[w].toSkip = Skips(req'[w]),
         req'[w].op = "submit" => req'[w].row.status = "DRAFT" /\ req'[w].target = NoStep,
         req'[w].op = "cancel" => /\ req'[w].row.status \in {"DRAFT", "PENDING"}
                                  /\ req'[w].target = NoStep,
         req'[w].op = "approve" => /\ req'[w].row.status = "PENDING"
                                   /\ req'[w].target \in PendingSteps(req'[w]),
         req'[w].op = "reject" => /\ req'[w].row.status = "PENDING"
                                  /\ req'[w].target \in CurrentSteps(req'[w]) \cup {NoStep}
  PROVE  AloneInv'
<1>1. RowIsRead(req[w])'
  BY DEF AloneInv, RowIsRead, HasRow
<1>2. \A t \in Steps : steps'[t] = Written(req'[w], t)
  BY ConstantsAssumption DEF Written
<1>3. DecisionIsSound(req[w])'
  BY <1>2 DEF DecisionIsSound, Decided
<1>4. ElsewhereClean(req[w])'
  BY DEF AloneInv, ElsewhereClean
<1> QED
  BY <1>1, <1>3, <1>4 DEF AloneInv

\* It has written one more verdict.
LEMMA VerdictKeepsAlone ==
  ASSUME NEW w, Workers = {w}, TypeOK, AloneInv, MarkStep(w) \/ SkipSibling(w)
  PROVE  AloneInv'
<1> DEFINE q == req[w]
           p == req'[w]
<1>0. q \in Request /\ Decided(q) /\ HasRow(q) /\ steps \in [Steps -> StepStatus]
  BY DEF TypeOK, MarkStep, SkipSibling, Decided, HasRow
<1>1. /\ p.row = q.row /\ p.op = q.op /\ p.target = q.target /\ p.steps = q.steps
      /\ p.pc = "settle" /\ q.pc \in {"markStep", "settle"}
      /\ row' = row /\ created' = created /\ outbox' = outbox
  BY <1>0 DEF MarkStep, SkipSibling, TypeOK, Request
<1>2. /\ CurrentSteps(p) = CurrentSteps(q) /\ PendingSteps(p) = PendingSteps(q)
      /\ PendingSiblings(p) = PendingSiblings(q) /\ Skips(p) = Skips(q)
  BY <1>1, SameDecision
<1>3. RowIsRead(req[w])'
  BY <1>0, <1>1 DEF AloneInv, RowIsRead, HasRow
<1>4. ElsewhereClean(req[w])'
  BY <1>0, <1>1 DEF AloneInv, ElsewhereClean
<1>5. DecisionIsSound(q)
  BY DEF AloneInv
<1>6. p.toSkip \subseteq Skips(p) /\ \A t \in Steps : steps'[t] = Written(p, t)
  <2>1. CASE MarkStep(w)
    <3>1. /\ q.op \in {"approve", "reject"} /\ q.target \in CurrentSteps(q)
          /\ q.target \in Steps /\ q.toSkip = Skips(q) /\ p.toSkip = q.toSkip
          /\ q.pc = "markStep"
      BY <1>0, <1>5, <2>1 DEF DecisionIsSound, MarkStep, Transitions, PendingSteps,
                              CurrentSteps, TypeOK, Request
    <3>2. \A t \in Steps : steps[t] = q.steps[t]
      BY <1>0, <1>5, <3>1 DEF DecisionIsSound, Written
    <3>3. steps[q.target] # "ABSENT"
      BY <3>1, <3>2 DEF CurrentSteps
    <3>4. \A t \in Steps : steps'[t] = IF t = q.target THEN Verdict(q.op) ELSE steps[t]
      BY <1>0, <2>1, <3>1, <3>3 DEF MarkStep, SetStep, Verdict
    <3> QED
      BY <1>1, <1>2, <3>1, <3>2, <3>4 DEF Written
  <2>2. CASE SkipSibling(w)
    <3>1. PICK s \in q.toSkip : SetStep(s, "SKIPPED") /\ p.toSkip = q.toSkip \ {s}
      BY <1>0, <2>2 DEF SkipSibling, TypeOK, Request
    <3>2. q.pc = "settle" /\ q.toSkip \subseteq Skips(q)
      BY <1>0, <1>5, <2>2 DEF SkipSibling, DecisionIsSound
    <3>3. s \in PendingSiblings(q) /\ s \in Steps /\ s # q.target /\ q.steps[s] = "PENDING"
      BY <1>0, <3>1, <3>2 DEF Skips, PendingSiblings, PendingSteps, CurrentSteps
    <3>4. \A t \in Steps : steps[t] = Written(q, t)
      BY <1>0, <1>5 DEF DecisionIsSound
    <3>5. steps[s] = "PENDING"
      BY <3>1, <3>3, <3>4 DEF Written
    <3>6. \A t \in Steps : steps'[t] = IF t = s THEN "SKIPPED" ELSE steps[t]
      BY <1>0, <3>1, <3>3, <3>5 DEF SetStep
    <3> QED
      BY <1>1, <1>2, <3>1, <3>2, <3>3, <3>4, <3>6 DEF Written
  <2> QED
    BY <2>1, <2>2
<1>7. DecisionIsSound(req[w])'
  BY <1>0, <1>1, <1>2, <1>5, <1>6 DEF DecisionIsSound
<1> QED
  BY <1>3, <1>4, <1>7 DEF AloneInv

\* It has written the row.
LEMMA UpdateKeepsAlone ==
  ASSUME NEW w, Workers = {w}, TypeOK, AloneInv, UpdateRow(w)
  PROVE  AloneInv'
<1> DEFINE q == req[w]
           p == req'[w]
<1>0. q \in Request /\ Decided(q) /\ HasRow(q) /\ q.pc = "settle" /\ q.toSkip = {}
  BY DEF TypeOK, UpdateRow, Decided, HasRow
<1>1. /\ p.row = q.row /\ p.op = q.op /\ p.target = q.target /\ p.steps = q.steps
      /\ p.pc = "saveEvent" /\ p.toSkip = q.toSkip
      /\ steps' = steps /\ created' = created /\ outbox' = outbox
  BY <1>0 DEF UpdateRow, TypeOK, Request
<1>2. /\ CurrentSteps(p) = CurrentSteps(q) /\ PendingSteps(p) = PendingSteps(q)
      /\ Skips(p) = Skips(q)
      /\ NextStatus(p) = NextStatus(q) /\ NextOrder(p) = NextOrder(q)
  BY <1>1, SameDecision
<1>3. row = q.row /\ row.exists
  BY <1>0 DEF AloneInv, RowIsRead
<1>4. /\ row'.exists /\ row'.status = NextStatus(q)
      /\ row'.order = IF q.op = "approve" THEN NextOrder(q) ELSE q.row.order
  BY <1>3 DEF UpdateRow, TypeOK, Row
<1>5. RowIsRead(req[w])'
  BY <1>1, <1>2, <1>3, <1>4 DEF RowIsRead
<1>6. DecisionIsSound(q)
  BY DEF AloneInv
<1>7. \A t \in Steps : steps'[t] = Written(p, t)
  BY <1>0, <1>1, <1>2, <1>6 DEF DecisionIsSound, Written
<1>8. DecisionIsSound(req[w])'
  BY <1>0, <1>1, <1>2, <1>6, <1>7 DEF DecisionIsSound
<1>9. ElsewhereClean(req[w])'
  BY <1>0, <1>1, <1>3 DEF AloneInv, ElsewhereClean, NoRow
<1> QED
  BY <1>5, <1>8, <1>9 DEF AloneInv

\* A handler's decision, in the terms the lemma on decisions needs.
LEMMA DecisionMade ==
  ASSUME NEW w, Workers = {w}, TypeOK, AloneInv,
         DecideSubmit(w) \/ DecideCancel(w) \/ DecideApprove(w) \/ DecideReject(w)
  PROVE  AloneInv'
<1> DEFINE q == req[w]
           p == req'[w]
<1>0. /\ q \in Request /\ q.pc = "readSteps" /\ q.target = NoStep /\ q.toSkip = {}
      /\ UNCHANGED <<row, created, steps, outbox>>
      /\ steps \in [Steps -> StepStatus]
  BY DEF TypeOK, AloneInv, ElsewhereClean, DecideSubmit, DecideCancel, DecideApprove,
         DecideReject, Reading, Proceed
<1>1. /\ Loaded(w).row = q.row /\ Loaded(w).steps = steps /\ Loaded(w).op = q.op
      /\ Loaded(w).target = NoStep /\ Loaded(w).toSkip = {} /\ Loaded(w) \in Request
  BY <1>0 DEF Loaded, Request
<1>2. CASE DecideSubmit(w) \/ DecideCancel(w)
  <2>1. /\ p.row = q.row /\ p.steps = steps /\ p.op = q.op /\ p.pc = "settle"
        /\ p.target = NoStep /\ p.toSkip = {} /\ q.op \in {"submit", "cancel"}
        /\ q.op = "submit" => q.row.status = "DRAFT"
        /\ q.op = "cancel" => q.row.status \in {"DRAFT", "PENDING"}
    BY <1>0, <1>1, <1>2 DEF DecideSubmit, DecideCancel, Reading, Proceed, TypeOK, Request
  <2>2. Skips(p) = {}
    BY <2>1 DEF Skips
  <2> QED
    BY <1>0, <2>1, <2>2, DecideKeepsAlone DEF Transitions
<1>3. CASE DecideApprove(w)
  <2>1. PICK t \in PendingSteps(Loaded(w)) :
          LET r == [Loaded(w) EXCEPT !.target = t] IN
          Proceed(w, [r EXCEPT !.pc = "markStep",
                               !.toSkip = IF StepPolicy[t] = "ANY_CAN_APPROVE"
                                          THEN PendingSiblings(r) ELSE {}])
    BY <1>3 DEF DecideApprove
  <2> DEFINE r == [Loaded(w) EXCEPT !.target = t]
             S == IF StepPolicy[t] = "ANY_CAN_APPROVE" THEN PendingSiblings(r) ELSE {}
  <2>2. t \in Steps /\ t # NoStep /\ q.op = "approve" /\ q.row.status = "PENDING"
    BY <1>3, ConstantsAssumption DEF PendingSteps, CurrentSteps, DecideApprove, Reading
  <2>3. r.row = q.row /\ r.steps = steps /\ r.op = q.op /\ r.target = t /\ r \in Request
    BY <1>1, <2>2 DEF Request
  <2>4. PendingSteps(r) = PendingSteps(Loaded(w))
    BY <1>1, <2>3 DEF PendingSteps, CurrentSteps
  <2> HIDE DEF r
  <2>5. req' = [req EXCEPT ![w] = [r EXCEPT !.pc = "markStep", !.toSkip = S]]
    BY <2>1 DEF Proceed, r
  <2> HIDE DEF S
  <2>6. /\ p.row = r.row /\ p.steps = r.steps /\ p.op = r.op /\ p.target = r.target
        /\ p.pc = "markStep" /\ p.toSkip = S
    BY <2>3, <2>5 DEF TypeOK, Request
  <2>7. /\ PendingSteps(p) = PendingSteps(r) /\ PendingSiblings(p) = PendingSiblings(r)
    BY <2>6, SameDecision
  <2>8. Skips(p) = S
    BY <2>2, <2>3, <2>6, <2>7 DEF Skips, S
  <2> QED
    BY <1>0, <2>1, <2>2, <2>3, <2>4, <2>6, <2>7, <2>8, DecideKeepsAlone DEF Transitions
<1>4. CASE DecideReject(w)
  <2>1. PICK t \in CurrentSteps(Loaded(w)) \cup {NoStep} :
          LET r == [Loaded(w) EXCEPT !.target = t] IN
          Proceed(w, [r EXCEPT !.pc = IF t = NoStep THEN "settle" ELSE "markStep",
                               !.toSkip = PendingSiblings(r)])
    BY <1>4 DEF DecideReject
  <2> DEFINE r == [Loaded(w) EXCEPT !.target = t]
             S == PendingSiblings(r)
             c == IF t = NoStep THEN "settle" ELSE "markStep"
  <2>2. t \in Steps \cup {NoStep} /\ q.op = "reject" /\ q.row.status = "PENDING"
    BY <1>4 DEF CurrentSteps, DecideReject, Reading
  <2>3. r.row = q.row /\ r.steps = steps /\ r.op = q.op /\ r.target = t /\ r \in Request
    BY <1>1, <2>2 DEF Request
  <2>4. CurrentSteps(r) = CurrentSteps(Loaded(w))
    BY <1>1, <2>3 DEF CurrentSteps
  <2> HIDE DEF r
  <2>5. req' = [req EXCEPT ![w] = [r EXCEPT !.pc = c, !.toSkip = S]]
    BY <2>1 DEF Proceed, r
  <2> HIDE DEF S, c
  <2>6. /\ p.row = r.row /\ p.steps = r.steps /\ p.op = r.op /\ p.target = r.target
        /\ p.pc = c /\ p.toSkip = S
    BY <2>3, <2>5 DEF TypeOK, Request
  <2>7. /\ CurrentSteps(p) = CurrentSteps(r) /\ PendingSiblings(p) = PendingSiblings(r)
    BY <2>6, SameDecision
  <2>8. Skips(p) = S
    BY <2>2, <2>3, <2>6, <2>7 DEF Skips, S
  <2>9. c \in {"markStep", "settle"} /\ (c = "settle" <=> t = NoStep)
    BY DEF c
  <2> QED
    BY <1>0, <2>1, <2>2, <2>3, <2>4, <2>6, <2>7, <2>8, <2>9,
       DecideKeepsAlone DEF Transitions
<1> QED
  BY <1>2, <1>3, <1>4

\* Every statement of a handler that runs alone keeps the invariant.
LEMMA AloneStep ==
  ASSUME NEW w, Workers = {w}, MaxAbandons = 0, TypeOK, IInv, Story, AloneInv, [Next]_vars
  PROVE  AloneInv'
<1> DEFINE q == req[w]
           p == req'[w]
<1>0. /\ q \in Request /\ RowIsRead(q) /\ DecisionIsSound(q) /\ ElsewhereClean(q)
      /\ Idle.pc = "idle" /\ ~HasRow(Idle)
  BY DEF TypeOK, AloneInv, Idle, HasRow
<1>1. CASE UNCHANGED vars
  BY <1>1 DEF vars, AloneInv, RowIsRead, DecisionIsSound, ElsewhereClean, Written
<1>2. CASE Handler(w)
  <2>1. CASE CreateRow(w)
    <3>1. /\ p.pc = "insertSteps" /\ created' /\ steps' = steps
          /\ row' = [exists |-> TRUE, status |-> "DRAFT", order |-> 1]
      BY <1>0, <2>1 DEF CreateRow, TypeOK, Request
    <3>2. steps = NoSteps
      BY <2>1 DEF CreateRow, IInv, BeforeCreation
    <3>3. ElsewhereClean(req[w])'
      BY <3>1, <3>2 DEF ElsewhereClean
    <3> QED
      BY <3>1, <3>3 DEF AloneInv, RowIsRead, DecisionIsSound, HasRow, Decided
  <2>2. CASE InsertSteps(w) \/ InsertStepsFails(w) \/ Refuse(w) \/ SaveEvent(w)
    <3>1. p = Idle /\ row' = row /\ created' = created
      BY <2>2 DEF InsertSteps, InsertStepsFails, Refuse, Proceed, SaveEvent, TypeOK
    <3> QED
      BY <1>0, <3>1, IdleKeepsAlone DEF ElsewhereClean
  <2>3. ASSUME NEW o \in Transitions, ReadRow(w, o)
        PROVE  AloneInv'
    <3>1. /\ p.pc = "readSteps" /\ p.row = row /\ row.exists /\ row' = row
          /\ p.target = q.target /\ p.toSkip = q.toSkip /\ q.pc = "idle"
          /\ created' = created
      BY <1>0, <2>3 DEF ReadRow, TypeOK, Request
    <3>2. p.target = NoStep /\ p.toSkip = {}
      BY <1>0, <3>1 DEF ElsewhereClean, Idle
    <3>3. RowIsRead(req[w])'
      BY <3>1 DEF RowIsRead
    <3>4. ElsewhereClean(req[w])'
      BY <1>0, <3>1, <3>2 DEF ElsewhereClean
    <3> QED
      BY <3>1, <3>3, <3>4 DEF AloneInv, DecisionIsSound, Decided
  <2>4. CASE DecideSubmit(w) \/ DecideCancel(w) \/ DecideApprove(w) \/ DecideReject(w)
    BY <2>4, DecisionMade
  <2>5. CASE MarkStep(w) \/ SkipSibling(w)
    BY <2>5, VerdictKeepsAlone
  <2>6. CASE UpdateRow(w)
    BY <2>6, UpdateKeepsAlone
  <2>7. CASE DeleteSteps(w)
    <3>1. /\ p.pc = "deleteOutbox" /\ steps' = NoSteps /\ row' = row /\ created' = created
      BY <1>0, <2>7 DEF DeleteSteps, TypeOK, Request
    <3>2. ElsewhereClean(req[w])'
      BY <1>0, <3>1 DEF ElsewhereClean
    <3> QED
      BY <3>1, <3>2 DEF AloneInv, RowIsRead, DecisionIsSound, HasRow, Decided
  <2>8. CASE DeleteOutbox(w)
    <3>1. /\ p.pc = "deleteRow" /\ steps' = steps /\ row' = row /\ created' = created
          /\ outbox' = <<>> /\ q.pc = "deleteOutbox"
      BY <1>0, <2>8 DEF DeleteOutbox, TypeOK, Request
    <3>2. ElsewhereClean(req[w])'
      BY <1>0, <3>1 DEF ElsewhereClean
    <3> QED
      BY <3>1, <3>2 DEF AloneInv, RowIsRead, DecisionIsSound, HasRow, Decided
  <2>9. CASE DeleteRow(w)
    <3>1. p = Idle /\ row' = NoRow
      BY <2>9 DEF DeleteRow, TypeOK
    <3> QED
      BY <3>1, IdleKeepsAlone
  <2>10. CASE Abandon(w)
    BY <2>10 DEF Abandon, TypeOK
  <2> QED
    BY <1>2, <2>1, <2>2, <2>3, <2>4, <2>5, <2>6, <2>7, <2>8, <2>9, <2>10 DEF Handler
<1> QED
  BY <1>1, <1>2 DEF Next

\* A handler that runs alone always finds its snapshot as it left it.
THEOREM AloneInvariant ==
  ASSUME OneHandler
  PROVE  Spec => []AloneInv
<1>0. PICK w : Workers = {w} /\ MaxAbandons = 0
  BY DEF OneHandler
<1>1. Init => AloneInv
  <2> SUFFICES ASSUME Init PROVE AloneInv
    OBVIOUS
  <2>1. req[w] = Idle /\ row = NoRow
    BY <1>0 DEF Init
  <2> QED
    BY <1>0, <2>1 DEF AloneInv, RowIsRead, DecisionIsSound, ElsewhereClean, HasRow,
       Decided, Idle
<1>2. TypeOK /\ IInv /\ Story /\ AloneInv /\ [Next]_vars => AloneInv'
  BY <1>0, AloneStep
<1> QED
  BY <1>1, <1>2, TypeCorrect, Invariant, StoryInvariant, PTL DEF Spec

-----------------------------------------------------------------------------
(* The refinement: saving the event is the atomic operation, everything    *)
(* before it leaves the process as it was.                                 *)

\* What the process sees of a handler that saves its event.
LEMMA SavedAs ==
  ASSUME NEW w, Workers = {w}, TypeOK, IInv, AloneInv, SaveEvent(w)
  PROVE  /\ MappedFlow = req[w].row /\ MappedVerdict = req[w].steps /\ MappedLog = outbox
         /\ MappedUsed' = MappedUsed
         /\ MappedFlow' = row /\ MappedVerdict' = steps
         /\ MappedLog' = Append(outbox, EventOf(req[w]))
         /\ req[w] \in Request /\ req[w].row.exists /\ row.exists /\ row \in Row
         /\ row.status = NextStatus(req[w])
         /\ row.order = IF req[w].op = "approve" THEN NextOrder(req[w]) ELSE req[w].row.order
         /\ req[w].toSkip = {} /\ req[w].pc = "saveEvent" /\ DecisionIsSound(req[w])
         /\ steps \in [Steps -> StepStatus]
         /\ \A t \in Steps : steps[t] = Written(req[w], t)
         /\ Process!Awaited = PendingSteps(req[w]) /\ Process!Level = CurrentSteps(req[w])
<1> DEFINE q == req[w]
<1>1. /\ q \in Request /\ q.pc = "saveEvent" /\ req'[w].pc = "idle" /\ row \in Row
      /\ row' = row /\ created' = created /\ steps' = steps
      /\ outbox' = Append(outbox, EventOf(q)) /\ steps \in [Steps -> StepStatus]
  BY DEF SaveEvent, TypeOK, Idle
<1>2. RowIsRead(q) /\ DecisionIsSound(q) /\ HasRow(q) /\ Decided(q)
  BY <1>1 DEF AloneInv, HasRow, Decided
<1>3. /\ MappedFlow = q.row /\ MappedVerdict = q.steps /\ MappedLog = outbox
  BY <1>1, Mapped
<1>4. /\ MappedFlow' = row' /\ MappedVerdict' = steps' /\ MappedLog' = outbox'
  BY <1>1, MappedNext
<1>a. MappedUsed' = MappedUsed
  BY <1>1, Mapped, MappedNext
<1>5. /\ q.row.exists /\ row.exists /\ row.status = NextStatus(q)
      /\ row.order = IF q.op = "approve" THEN NextOrder(q) ELSE q.row.order
  BY <1>1, <1>2 DEF RowIsRead
<1>6. \A t \in Steps : steps[t] = Written(q, t)
  BY <1>2 DEF DecisionIsSound
<1>7. q.toSkip = {}
  BY <1>1 DEF IInv, SkipsAreDone
<1>8. Process!Level = CurrentSteps(q)
  BY <1>3 DEF Process!Level, CurrentSteps
<1>9. Process!Awaited = PendingSteps(q)
  BY <1>3, <1>8 DEF Process!Awaited, PendingSteps
<1> QED
  BY <1>1, <1>2, <1>3, <1>4, <1>a, <1>5, <1>6, <1>7, <1>8, <1>9

\* A row that exists, by what differs from another one.
LEMMA RowFrom ==
  ASSUME NEW p \in Row, NEW r \in Row, p.exists, r.exists
  PROVE  r = [p EXCEPT !.status = r.status, !.order = r.order]
<1>1. p.exists = TRUE /\ r.exists = TRUE
  BY DEF Row
<1> QED
  BY <1>1 DEF Row

\* An event, by what its transition says.
LEMMA EventFrom ==
  ASSUME NEW q, NEW k, NEW st, NEW n, NEW b \in BOOLEAN,
         EventKind(q) = k, NextStatus(q) = st,
         n = IF q.op = "cancel" THEN 0 ELSE q.row.order,
         (q.op = "approve" /\ Resolved(q)) <=> b
  PROVE  EventOf(q) = [kind |-> k, prev |-> q.row.status, cur |-> st, order |-> n, resolved |-> b]
<1>1. (q.op = "approve" /\ Resolved(q)) = b
  OBVIOUS
<1> QED
  BY <1>1 DEF EventOf

\* Every transition is the one the process makes.
LEMMA SavedMoves ==
  ASSUME NEW w, Workers = {w}, TypeOK, IInv, AloneInv, SaveEvent(w),
         NEW k, NEW n, NEW b \in BOOLEAN, EventKind(req[w]) = k,
         n = IF req[w].op = "cancel" THEN 0 ELSE req[w].row.order,
         (req[w].op = "approve" /\ Resolved(req[w])) <=> b
  PROVE  Process!Move(k, NextStatus(req[w]),
                      IF req[w].op = "approve" THEN NextOrder(req[w]) ELSE req[w].row.order,
                      n, b)
<1> DEFINE q == req[w]
<1>1. /\ MappedFlow = q.row /\ MappedLog = outbox /\ MappedUsed' = MappedUsed
      /\ MappedFlow' = row /\ MappedLog' = Append(outbox, EventOf(q))
      /\ q \in Request /\ q.row.exists /\ row.exists /\ row \in Row
      /\ row.status = NextStatus(q)
      /\ row.order = IF q.op = "approve" THEN NextOrder(q) ELSE q.row.order
  BY SavedAs
<1>2. q.row \in Row
  BY <1>1 DEF Request
<1>3. row = [q.row EXCEPT !.status = row.status, !.order = row.order]
  BY <1>1, <1>2, RowFrom
<1>4. EventOf(q) = [kind |-> k, prev |-> q.row.status, cur |-> NextStatus(q), order |-> n,
                    resolved |-> b]
  BY EventFrom
<1>5. MappedFlow' = [MappedFlow EXCEPT !.status = NextStatus(q),
                     !.order = IF q.op = "approve" THEN NextOrder(q) ELSE q.row.order]
  BY <1>1, <1>3
<1>6. MappedLog' = Append(MappedLog, [kind |-> k, prev |-> MappedFlow.status,
                                      cur |-> NextStatus(q), order |-> n, resolved |-> b])
  BY <1>1, <1>4
<1> QED
  BY <1>1, <1>5, <1>6 DEF Process!Move

\* An approval that is saved is the process's Approve.
LEMMA ApprovalIsApprove ==
  ASSUME NEW w, Workers = {w}, TypeOK, IInv, AloneInv, SaveEvent(w), req[w].op = "approve"
  PROVE  Process!Approve(req[w].target)
<1> DEFINE q == req[w]
           s == q.target
           skipped == IF StepPolicy[s] = "ANY_CAN_APPROVE" THEN Process!Awaited \ {s} ELSE {}
           over == Process!Awaited \ skipped = {s}
<1>1. /\ MappedFlow = q.row /\ MappedVerdict = q.steps /\ MappedVerdict' = steps
      /\ q \in Request /\ q.row.exists /\ q.toSkip = {} /\ q.pc = "saveEvent"
      /\ DecisionIsSound(q) /\ steps \in [Steps -> StepStatus]
      /\ \A t \in Steps : steps[t] = Written(q, t)
      /\ Process!Awaited = PendingSteps(q)
  BY SavedAs
<1>2. q.row.status = "PENDING" /\ s \in PendingSteps(q) /\ s \in Steps
  BY <1>1 DEF DecisionIsSound, Decided, PendingSteps, CurrentSteps
<1>3. Skips(q) = skipped
  BY <1>1 DEF Skips, PendingSiblings
<1>4. over <=> Resolved(q)
  BY <1>1, <1>2 DEF Resolved, PendingSiblings
<1>5. steps = [t \in Steps |-> CASE t = s -> "APPROVED"
                                 [] t \in skipped -> "SKIPPED"
                                 [] OTHER -> MappedVerdict[t]]
  <2>1. \A t \in Steps : steps[t] = CASE t = s -> "APPROVED"
                                      [] t \in skipped -> "SKIPPED"
                                      [] OTHER -> q.steps[t]
    <3>1. s \notin skipped
      OBVIOUS
    <3> HIDE DEF skipped
    <3> QED
      BY <1>1, <1>3, <3>1 DEF Written, Verdict
  <2>2. steps = [t \in Steps |-> steps[t]]
    BY <1>1
  <2> HIDE DEF skipped
  <2> QED
    BY <2>1, <2>2, <1>1
<1>6. IF over /\ q.row.order >= TotalSteps
      THEN Process!Move("approved", "APPROVED", q.row.order, q.row.order, TRUE)
      ELSE Process!Move("step_approved", "PENDING",
                        IF over THEN q.row.order + 1 ELSE q.row.order, q.row.order, over)
  <2> HIDE DEF over
  <2>1. CASE over /\ q.row.order >= TotalSteps
    <3>1. EventKind(q) = "approved" /\ NextStatus(q) = "APPROVED" /\ NextOrder(q) = q.row.order
          /\ Resolved(q)
      BY <2>1, <1>4 DEF EventKind, NextStatus, NextOrder, FinalOrder
    <3>2. Process!Move("approved", NextStatus(q),
                       IF q.op = "approve" THEN NextOrder(q) ELSE q.row.order, q.row.order, TRUE)
      BY <3>1, SavedMoves
    <3> QED
      BY <2>1, <3>1, <3>2
  <2>2. CASE over /\ ~(q.row.order >= TotalSteps)
    <3>1. EventKind(q) = "step_approved" /\ NextStatus(q) = "PENDING"
          /\ NextOrder(q) = q.row.order + 1 /\ Resolved(q)
      BY <2>2, <1>4 DEF EventKind, NextStatus, NextOrder, FinalOrder
    <3>2. Process!Move("step_approved", NextStatus(q),
                       IF q.op = "approve" THEN NextOrder(q) ELSE q.row.order, q.row.order, TRUE)
      BY <3>1, SavedMoves
    <3>3. over = TRUE
      BY <2>2 DEF over
    <3> QED
      BY <2>2, <3>1, <3>2, <3>3
  <2>3. CASE ~over
    <3>1. EventKind(q) = "step_approved" /\ NextStatus(q) = "PENDING"
          /\ NextOrder(q) = q.row.order /\ ~Resolved(q)
      BY <2>3, <1>4 DEF EventKind, NextStatus, NextOrder, FinalOrder
    <3>2. Process!Move("step_approved", NextStatus(q),
                       IF q.op = "approve" THEN NextOrder(q) ELSE q.row.order, q.row.order, FALSE)
      BY <3>1, SavedMoves
    <3>3. over = FALSE
      BY <2>3 DEF over
    <3> QED
      BY <2>3, <3>1, <3>2, <3>3
  <2> QED
    BY <2>1, <2>2, <2>3
<1> QED
  BY <1>1, <1>2, <1>5, <1>6 DEF Process!Approve

\* A rejection that is saved is the process's Reject of the step it names, or
\* of none.
LEMMA RejectionIsReject ==
  ASSUME NEW w, Workers = {w}, TypeOK, IInv, AloneInv, SaveEvent(w), req[w].op = "reject"
  PROVE  \E S \in {{}} \cup {{s} : s \in Process!Level} : Process!Reject(S)
<1> DEFINE q == req[w]
           S == IF q.target = NoStep THEN {} ELSE {q.target}
<1>1. /\ MappedFlow = q.row /\ MappedVerdict = q.steps /\ MappedVerdict' = steps
      /\ q \in Request /\ q.row.exists /\ q.toSkip = {} /\ q.pc = "saveEvent"
      /\ DecisionIsSound(q) /\ steps \in [Steps -> StepStatus]
      /\ \A t \in Steps : steps[t] = Written(q, t)
      /\ Process!Awaited = PendingSteps(q) /\ Process!Level = CurrentSteps(q)
  BY SavedAs
<1>2. q.row.status = "PENDING" /\ q.target \in CurrentSteps(q) \cup {NoStep}
  BY <1>1 DEF DecisionIsSound, Decided
<1>3. NoStep \notin Steps /\ CurrentSteps(q) \subseteq Steps
  BY ConstantsAssumption DEF CurrentSteps
<1>4. S \in {{}} \cup {{s} : s \in Process!Level}
  BY <1>1, <1>2
<1>5. \A t \in Steps : (t = q.target <=> t \in S)
                       /\ (t \in Skips(q) <=> t \in Process!Awaited \ S)
  BY <1>1, <1>2, <1>3 DEF Skips, PendingSiblings
<1>6. steps = [t \in Steps |-> CASE t \in S -> "REJECTED"
                                 [] t \in Process!Awaited \ S -> "SKIPPED"
                                 [] OTHER -> MappedVerdict[t]]
  <2> HIDE DEF S
  <2>1. \A t \in Steps : steps[t] = CASE t \in S -> "REJECTED"
                                      [] t \in Process!Awaited \ S -> "SKIPPED"
                                      [] OTHER -> q.steps[t]
    BY <1>1, <1>5 DEF Written, Verdict
  <2>2. steps = [t \in Steps |-> steps[t]]
    BY <1>1
  <2> QED
    BY <2>1, <2>2, <1>1
<1>7. Process!Move("rejected", "REJECTED", q.row.order, q.row.order, FALSE)
  <2>1. EventKind(q) = "rejected" /\ NextStatus(q) = "REJECTED"
    BY DEF EventKind, NextStatus
  <2>2. Process!Move("rejected", NextStatus(q),
                     IF q.op = "approve" THEN NextOrder(q) ELSE q.row.order, q.row.order, FALSE)
    BY <2>1, SavedMoves
  <2> QED
    BY <2>1, <2>2
<1>8. Process!Reject(S)
  <2> HIDE DEF S
  <2> QED
    BY <1>1, <1>2, <1>6, <1>7 DEF Process!Reject
<1> QED
  BY <1>4, <1>8

\* A submission and a cancellation change no step.
LEMMA OtherSaves ==
  ASSUME NEW w, Workers = {w}, TypeOK, IInv, AloneInv, SaveEvent(w),
         req[w].op \in {"submit", "cancel"}
  PROVE  Process!Submit \/ Process!Cancel
<1> DEFINE q == req[w]
<1>1. /\ MappedFlow = q.row /\ MappedVerdict = q.steps /\ MappedVerdict' = steps
      /\ q \in Request /\ q.row.exists /\ q.toSkip = {} /\ q.pc = "saveEvent"
      /\ DecisionIsSound(q) /\ steps \in [Steps -> StepStatus]
      /\ \A t \in Steps : steps[t] = Written(q, t)
  BY SavedAs
<1>2. /\ q.op = "submit" => q.row.status = "DRAFT"
      /\ q.op = "cancel" => q.row.status \in {"DRAFT", "PENDING"}
      /\ q.target = NoStep
  BY <1>1 DEF DecisionIsSound, Decided
<1>3. steps = q.steps
  <2>1. \A t \in Steps : steps[t] = q.steps[t]
    BY <1>1, <1>2, ConstantsAssumption DEF Written, Skips
  <2> QED
    BY <2>1, <1>1 DEF Request
<1>4. CASE q.op = "submit"
  <2>1. EventKind(q) = "submitted" /\ NextStatus(q) = "PENDING"
    BY <1>4 DEF EventKind, NextStatus
  <2>2. Process!Move("submitted", NextStatus(q),
                     IF q.op = "approve" THEN NextOrder(q) ELSE q.row.order, q.row.order, FALSE)
    BY <1>4, <2>1, SavedMoves
  <2>3. Process!Move("submitted", "PENDING", q.row.order, q.row.order, FALSE)
    BY <1>4, <2>1, <2>2
  <2> QED
    BY <1>1, <1>2, <1>3, <1>4, <2>3 DEF Process!Submit
<1>5. CASE q.op = "cancel"
  <2>1. EventKind(q) = "cancelled" /\ NextStatus(q) = "CANCELLED"
    BY <1>5 DEF EventKind, NextStatus
  <2>2. Process!Move("cancelled", NextStatus(q),
                     IF q.op = "approve" THEN NextOrder(q) ELSE q.row.order, 0, FALSE)
    BY <1>5, <2>1, SavedMoves
  <2>3. Process!Move("cancelled", "CANCELLED", q.row.order, 0, FALSE)
    BY <1>5, <2>1, <2>2
  <2> QED
    BY <1>1, <1>2, <1>3, <1>5, <2>3 DEF Process!Cancel
<1> QED
  BY <1>4, <1>5

\* Every statement of the one handler is a step of the process or none.
LEMMA StatementRefines ==
  ASSUME NEW w, Workers = {w}, MaxAbandons = 0, TypeOK, IInv, AloneInv, [Next]_vars
  PROVE  Process!ANext \/ UNCHANGED Process!avars
<1> DEFINE q == req[w]
           p == req'[w]
<1>0. /\ q \in Request /\ created \in BOOLEAN /\ abandons \in 0..0
      /\ req \in [Workers -> Request] /\ Idle.pc = "idle"
      /\ RowIsRead(q) /\ ElsewhereClean(q)
  BY DEF TypeOK, AloneInv, Idle
<1>1. CASE UNCHANGED vars
  <2>1. p = q /\ row' = row /\ steps' = steps /\ outbox' = outbox /\ created' = created
    BY <1>1 DEF vars
  <2> QED
    BY <2>1, Mapped, MappedNext DEF Process!avars
<1>2. CASE Handler(w)
  <2>1. CASE CreateRow(w)
    <3>1. /\ q.pc = "idle" /\ p.pc = "insertSteps" /\ ~created /\ row = NoRow
          /\ steps' = steps /\ outbox' = outbox
      BY <1>0, <2>1 DEF CreateRow, ElsewhereClean
    <3>2. MappedUsed' = MappedUsed
      BY <3>1, Mapped, MappedNext
    <3> QED
      BY <3>1, <3>2, Mapped, MappedNext DEF Process!avars
  <2>2. CASE InsertSteps(w) \/ InsertStepsFails(w)
    <3>1. /\ q.pc = "insertSteps" /\ p.pc = "idle" /\ created /\ created' = created
          /\ row = [exists |-> TRUE, status |-> "DRAFT", order |-> 1] /\ row' = row
          /\ steps' \in {[s \in Steps |-> "PENDING"], NoSteps} /\ outbox' = outbox
      BY <1>0, <2>2 DEF InsertSteps, InsertStepsFails, ElsewhereClean
    <3>2. ~MappedUsed /\ MappedUsed' = TRUE
      BY <3>1, Mapped, MappedNext
    <3>3. /\ MappedFlow' = [exists |-> TRUE, status |-> "DRAFT", order |-> 1]
          /\ MappedVerdict' \in {[s \in Steps |-> "PENDING"], Process!NoVerdict}
          /\ MappedLog' = MappedLog
      BY <3>1, Mapped, MappedNext DEF NoSteps, Process!NoVerdict
    <3>4. Process!Create
      BY <3>2, <3>3 DEF Process!Create
    <3> QED
      BY <3>4 DEF Process!ANext
  <2>3. CASE (\E o \in Transitions : ReadRow(w, o)) \/ Refuse(w)
    <3>1. /\ q.pc \in {"idle", "readSteps"} /\ p.pc \in {"idle", "readSteps"}
          /\ row' = row /\ steps' = steps /\ outbox' = outbox /\ created' = created
      <4>1. CASE Refuse(w)
        BY <1>0, <4>1 DEF Refuse, Proceed
      <4>2. CASE \E o \in Transitions : ReadRow(w, o)
        <5>1. PICK o \in Transitions : ReadRow(w, o)
          BY <4>2
        <5>2. p.pc = "readSteps"
          BY <1>0, <5>1 DEF ReadRow, Request
        <5> QED
          BY <5>1, <5>2 DEF ReadRow
      <4> QED
        BY <2>3, <4>1, <4>2
    <3>2. MappedUsed' = MappedUsed
      BY <3>1, Mapped, MappedNext
    <3> QED
      BY <3>1, <3>2, Mapped, MappedNext DEF Process!avars
  <2>4. CASE DecideSubmit(w) \/ DecideCancel(w) \/ DecideApprove(w) \/ DecideReject(w)
    <3>1. /\ q.pc = "readSteps" /\ p.pc \in {"markStep", "settle"}
          /\ p.row = q.row /\ p.steps = steps
          /\ row' = row /\ steps' = steps /\ outbox' = outbox /\ created' = created
      <4>1. Loaded(w).pc = q.pc /\ Loaded(w).row = q.row /\ Loaded(w).steps = steps
            /\ DOMAIN Loaded(w) = {"pc", "op", "row", "steps", "target", "toSkip"}
        BY <1>0 DEF Loaded, Request
      <4>2. CASE DecideSubmit(w) \/ DecideCancel(w)
        BY <1>0, <4>1, <4>2 DEF DecideSubmit, DecideCancel, Reading, Proceed
      <4>3. CASE DecideApprove(w)
        BY <1>0, <4>1, <4>3 DEF DecideApprove, Reading, Proceed
      <4>4. CASE DecideReject(w)
        BY <1>0, <4>1, <4>4 DEF DecideReject, Reading, Proceed
      <4> QED
        BY <2>4, <4>2, <4>3, <4>4
    <3>2. row = q.row
      BY <1>0, <3>1 DEF RowIsRead, HasRow
    <3>3. MappedUsed' = MappedUsed
      BY <3>1, Mapped, MappedNext
    <3> QED
      BY <3>1, <3>2, <3>3, Mapped, MappedNext DEF Process!avars
  <2>5. CASE MarkStep(w) \/ SkipSibling(w) \/ UpdateRow(w)
    <3>1. /\ q.pc \in {"markStep", "settle"} /\ p.pc \in {"settle", "saveEvent"}
          /\ p.row = q.row /\ p.steps = q.steps /\ outbox' = outbox /\ created' = created
      <4>1. CASE MarkStep(w)
        BY <1>0, <4>1 DEF MarkStep, Request
      <4>2. CASE SkipSibling(w)
        BY <1>0, <4>2 DEF SkipSibling, Request
      <4>3. CASE UpdateRow(w)
        BY <1>0, <4>3 DEF UpdateRow, Request
      <4> QED
        BY <2>5, <4>1, <4>2, <4>3
    <3>2. MappedUsed' = MappedUsed
      BY <3>1, Mapped, MappedNext
    <3> QED
      BY <3>1, <3>2, Mapped, MappedNext DEF Process!avars
  <2>6. CASE SaveEvent(w)
    <3>1. q.op \in Transitions
      <4>1. DecisionIsSound(q) /\ q.pc = "saveEvent"
        BY <2>6, SavedAs
      <4> QED
        BY <4>1 DEF DecisionIsSound, Decided
    <3>2. CASE q.op = "approve"
      <4>1. Process!Approve(q.target)
        BY <2>6, <3>2, ApprovalIsApprove
      <4>2. q.target \in Steps
        <5>1. DecisionIsSound(q) /\ q.pc = "saveEvent"
          BY <2>6, SavedAs
        <5> QED
          BY <3>2, <5>1 DEF DecisionIsSound, Decided, PendingSteps, CurrentSteps
      <4> QED
        BY <4>1, <4>2 DEF Process!ANext
    <3>3. CASE q.op = "reject"
      <4>1. \E S \in {{}} \cup {{s} : s \in Process!Level} : Process!Reject(S)
        BY <2>6, <3>3, RejectionIsReject
      <4> QED
        BY <4>1 DEF Process!ANext
    <3>4. CASE q.op \in {"submit", "cancel"}
      <4>1. Process!Submit \/ Process!Cancel
        BY <2>6, <3>4, OtherSaves
      <4> QED
        BY <4>1 DEF Process!ANext
    <3> QED
      BY <3>1, <3>2, <3>3, <3>4 DEF Transitions
  <2>7. CASE DeleteSteps(w)
    <3>1. /\ q.pc = "idle" /\ p.pc = "deleteOutbox" /\ steps' = NoSteps /\ created' = created
      BY <1>0, <2>7 DEF DeleteSteps
    <3>2. MappedUsed' = MappedUsed
      BY <3>1, Mapped, MappedNext
    <3>3. MappedFlow' = Process!NoFlow /\ MappedVerdict' = Process!NoVerdict /\ MappedLog' = <<>>
      BY <3>1, MappedNext DEF NoSteps, NoRow, Process!NoVerdict, Process!NoFlow
    <3>4. Process!Purge
      BY <3>2, <3>3 DEF Process!Purge
    <3> QED
      BY <3>4 DEF Process!ANext
  <2>8. CASE DeleteOutbox(w)
    <3>1. /\ q.pc = "deleteOutbox" /\ p.pc = "deleteRow" /\ steps' = steps /\ created' = created
      BY <1>0, <2>8 DEF DeleteOutbox
    <3>2. MappedUsed' = MappedUsed
      BY <3>1, Mapped, MappedNext
    <3> QED
      BY <3>1, <3>2, Mapped, MappedNext DEF Process!avars
  <2>9. CASE DeleteRow(w)
    <3>1. /\ q.pc = "deleteRow" /\ p.pc = "idle" /\ steps' = steps /\ created' = created
          /\ row' = NoRow /\ outbox = <<>> /\ outbox' = outbox
      BY <1>0, <2>9 DEF DeleteRow, ElsewhereClean
    <3>2. MappedUsed' = MappedUsed
      BY <3>1, Mapped, MappedNext
    <3> QED
      BY <3>1, <3>2, Mapped, MappedNext DEF Process!avars
  <2>10. ~Abandon(w)
    BY <1>0 DEF Abandon
  <2> QED
    BY <1>2, <2>1, <2>2, <2>3, <2>4, <2>5, <2>6, <2>7, <2>8, <2>9, <2>10 DEF Handler
<1> QED
  BY <1>1, <1>2 DEF Next

\* The workflow starts as the process does.
LEMMA InitRefines ==
  ASSUME NEW w, Workers = {w}, Init
  PROVE  Process!AInit
<1>1. /\ req[w].pc = "idle" /\ row = NoRow /\ steps = NoSteps /\ outbox = <<>> /\ ~created
  BY DEF Init, Idle
<1>2. MappedUsed = FALSE
  BY <1>1, Mapped
<1> QED
  BY <1>1, <1>2, Mapped DEF Process!AInit, Process!NoFlow, Process!NoVerdict, NoRow, NoSteps

\* With one handler at a time and none cut short, a sequence of separate
\* statements is a transaction: the service implements the atomic process.
THEOREM ServiceImplementsProcess ==
  ASSUME OneHandler
  PROVE  Spec => ImplementsApprovalProcess
<1>0. PICK w : Workers = {w} /\ MaxAbandons = 0
  BY DEF OneHandler
<1>1. Init => Process!AInit
  BY <1>0, InitRefines
<1>2. TypeOK /\ IInv /\ AloneInv /\ [Next]_vars => [Process!ANext]_(Process!avars)
  BY <1>0, StatementRefines
<1>3. Spec => []AloneInv
  BY AloneInvariant
<1> QED
  BY <1>1, <1>2, <1>3, TypeCorrect, Invariant, PTL
  DEF Spec, ImplementsApprovalProcess, Process!ASpec

-----------------------------------------------------------------------------
(* The atomic process, for every step plan: its events chain, an approved  *)
(* flow was approved by everyone who had to, and, if no order is left out  *)
(* of the plan, a flow that waits awaits somebody.                         *)

\* A move leaves the flow where it says and chains its event.
LEMMA MoveChains ==
  ASSUME Process!AType, Process!Chain, NEW k \in Process!EventKinds, NEW st \in Process!FlowStatus, NEW n \in 1..TotalSteps,
         NEW m \in Int, NEW b \in BOOLEAN, Process!Move(k, st, n, m, b)
  PROVE  /\ MappedFlow' = [exists |-> MappedFlow.exists, status |-> st, order |-> n]
         /\ MappedLog' \in Seq(Process!Entry) /\ MappedUsed' = MappedUsed
         /\ Process!Chain'
<1> DEFINE e == [kind |-> k, prev |-> MappedFlow.status, cur |-> st, order |-> m, resolved |-> b]
<1>1. /\ MappedFlow' = [MappedFlow EXCEPT !.status = st, !.order = n] /\ MappedUsed' = MappedUsed
      /\ MappedLog' = Append(MappedLog, e)
  BY DEF Process!Move
<1>2. MappedFlow' = [exists |-> MappedFlow.exists, status |-> st, order |-> n]
  BY <1>1 DEF Process!AType
<1>3. e \in Process!Entry /\ e.cur = st /\ e.prev = MappedFlow.status
  BY DEF Process!AType, Process!Entry
<1>4. MappedLog' \in Seq(Process!Entry) /\ Len(MappedLog') = Len(MappedLog) + 1 /\ MappedLog'[Len(MappedLog) + 1] = e
      /\ \A i \in 1..Len(MappedLog) : MappedLog'[i] = MappedLog[i]
  <2> HIDE DEF e
  <2> QED
    BY <1>1, <1>3 DEF Process!AType
<1>5. Len(MappedLog) \in Nat
  BY DEF Process!AType
<1>6. \A i \in 1..Len(MappedLog') : MappedLog'[i].prev = IF i = 1 THEN "DRAFT" ELSE MappedLog'[i - 1].cur
  <2> HIDE DEF e
  <2> TAKE i \in 1..Len(MappedLog')
  <2>1. CASE i = Len(MappedLog) + 1
    <3>1. CASE Len(MappedLog) = 0
      BY <1>3, <1>4, <2>1, <3>1 DEF Process!Chain
    <3>2. CASE Len(MappedLog) # 0
      <4>1. i # 1 /\ i - 1 = Len(MappedLog) /\ i - 1 \in 1..Len(MappedLog)
        BY <1>5, <2>1, <3>2
      <4>2. MappedLog'[i - 1] = MappedLog[Len(MappedLog)]
        BY <1>4, <4>1
      <4> QED
        BY <1>3, <1>4, <2>1, <3>2, <4>1, <4>2 DEF Process!Chain
    <3> QED
      BY <3>1, <3>2
  <2>2. CASE i \in 1..Len(MappedLog)
    <3>1. MappedLog'[i] = MappedLog[i] /\ (i # 1 => i - 1 \in 1..Len(MappedLog) /\ MappedLog'[i - 1] = MappedLog[i - 1])
      BY <1>4, <1>5, <2>2
    <3> QED
      BY <2>2, <3>1 DEF Process!Chain
  <2> QED
    BY <1>4, <1>5, <2>1, <2>2
<1>7. MappedFlow'.status = IF Len(MappedLog') = 0 THEN "DRAFT" ELSE MappedLog'[Len(MappedLog')].cur
  BY <1>2, <1>3, <1>4, <1>5
<1> QED
  BY <1>1, <1>2, <1>4, <1>6, <1>7 DEF Process!Chain

\* One reviewer approves.
LEMMA ApproveKeeps ==
  ASSUME Process!Plan, Process!AInv, NEW s \in Steps, Process!Approve(s)
  PROVE  /\ Process!AInv'
         /\ Process!NoGaps /\ Process!SomebodyAwaited => Process!SomebodyAwaited'
<1> DEFINE skipped == IF StepPolicy[s] = "ANY_CAN_APPROVE" THEN Process!Awaited \ {s} ELSE {}
           over    == Process!Awaited \ skipped = {s}
           final   == over /\ MappedFlow.order >= TotalSteps
<1>1. /\ MappedFlow.exists /\ MappedFlow.status = "PENDING" /\ s \in Process!Awaited
      /\ MappedVerdict' = [t \in Steps |-> CASE t = s -> "APPROVED"
                                       [] t \in skipped -> "SKIPPED"
                                       [] OTHER -> MappedVerdict[t]]
      /\ IF final
         THEN Process!Move("approved", "APPROVED", MappedFlow.order, MappedFlow.order, TRUE)
         ELSE Process!Move("step_approved", "PENDING",
                   IF over THEN MappedFlow.order + 1 ELSE MappedFlow.order, MappedFlow.order, over)
  BY DEF Process!Approve
<1>2. /\ Process!AType /\ Process!Chain /\ MappedFlow.order \in 1..TotalSteps /\ MappedVerdict \in [Steps -> Process!Verdicts]
      /\ TotalSteps \in Nat /\ MappedUsed
  BY <1>1 DEF Process!AInv, Process!AType, Process!Plan, Process!Unborn, Process!NoFlow
<1>3. /\ s \notin skipped /\ skipped \subseteq Process!Awaited
      /\ Process!Awaited = {t \in Steps : StepOrder[t] = MappedFlow.order /\ MappedVerdict[t] = "PENDING"}
  BY DEF Process!Awaited, Process!Level
<1>4. /\ MappedVerdict'[s] = "APPROVED"
      /\ \A t \in skipped : MappedVerdict'[t] = "SKIPPED"
      /\ \A t \in Steps \ {s} : t \notin skipped => MappedVerdict'[t] = MappedVerdict[t]
      /\ MappedVerdict' \in [Steps -> Process!Verdicts]
  <2> HIDE DEF skipped
  <2> QED
    BY <1>1, <1>2, <1>3 DEF Process!Verdicts
<1>5. /\ MappedFlow' = [exists |-> MappedFlow.exists, status |-> IF final THEN "APPROVED" ELSE "PENDING",
                  order |-> IF over /\ ~final THEN MappedFlow.order + 1 ELSE MappedFlow.order]
      /\ MappedLog' \in Seq(Process!Entry) /\ MappedUsed' = MappedUsed /\ Process!Chain'
  <2>1. over \in BOOLEAN /\ (over /\ ~final => MappedFlow.order + 1 \in 1..TotalSteps)
    BY <1>2
  <2> HIDE DEF over
  <2>2. CASE final
    <3>1. Process!Move("approved", "APPROVED", MappedFlow.order, MappedFlow.order, TRUE)
      BY <1>1, <2>2
    <3>2. MappedFlow.order \in Int /\ "APPROVED" \in Process!FlowStatus /\ "approved" \in Process!EventKinds
      BY <1>2 DEF Process!FlowStatus, Process!EventKinds
    <3>3. /\ MappedFlow' = [exists |-> MappedFlow.exists, status |-> "APPROVED", order |-> MappedFlow.order]
          /\ MappedLog' \in Seq(Process!Entry) /\ MappedUsed' = MappedUsed /\ Process!Chain'
      BY <1>2, <3>1, <3>2, MoveChains
    <3> QED
      BY <2>2, <3>3
  <2>3. CASE ~final
    <3> DEFINE n == IF over THEN MappedFlow.order + 1 ELSE MappedFlow.order
    <3>1. n \in 1..TotalSteps /\ MappedFlow.order \in Int /\ "PENDING" \in Process!FlowStatus
          /\ "step_approved" \in Process!EventKinds
      BY <1>2, <2>1, <2>3 DEF Process!FlowStatus, Process!EventKinds
    <3>2. Process!Move("step_approved", "PENDING", n, MappedFlow.order, over)
      BY <1>1, <2>3
    <3> HIDE DEF n
    <3>3. /\ MappedFlow' = [exists |-> MappedFlow.exists, status |-> "PENDING", order |-> n]
          /\ MappedLog' \in Seq(Process!Entry) /\ MappedUsed' = MappedUsed /\ Process!Chain'
      BY <1>2, <2>1, <3>1, <3>2, MoveChains
    <3> QED
      BY <2>3, <3>3 DEF n
  <2> QED
    BY <2>2, <2>3
<1>6. /\ MappedFlow'.exists /\ MappedFlow'.order \in 1..TotalSteps /\ MappedUsed'
      /\ MappedFlow'.status = IF final THEN "APPROVED" ELSE "PENDING"
      /\ MappedFlow'.order = IF over /\ ~final THEN MappedFlow.order + 1 ELSE MappedFlow.order
  BY <1>1, <1>2, <1>5
<1>7. Process!AType'
  BY <1>2, <1>4, <1>5, <1>6 DEF Process!AType, Process!FlowStatus
<1>8. Process!Unborn'
  BY <1>6 DEF Process!Unborn
<1>9. Process!AllOrNone'
  <2>1. \A t \in Steps : MappedVerdict[t] # "ABSENT"
    BY <1>1, <1>3 DEF Process!AInv, Process!AllOrNone, Process!NoVerdict
  <2>2. \A t \in Steps : MappedVerdict'[t] # "ABSENT"
    BY <1>4, <2>1
  <2> QED
    BY <2>2 DEF Process!AllOrNone
<1>10. \A t \in Steps : Process!Agreed(t) => Process!Agreed(t)'
  BY <1>3, <1>4 DEF Process!Agreed
<1>11. over => \A t \in Steps : StepOrder[t] = MappedFlow.order /\ MappedVerdict[t] # "ABSENT" => Process!Agreed(t)'
  <2> SUFFICES ASSUME over, NEW t \in Steps, StepOrder[t] = MappedFlow.order, MappedVerdict[t] # "ABSENT"
               PROVE  Process!Agreed(t)'
    OBVIOUS
  <2>1. CASE t = s
    BY <1>4, <2>1 DEF Process!Agreed
  <2>2. CASE t \in skipped
    <3>1. StepPolicy[s] = "ANY_CAN_APPROVE" /\ MappedVerdict'[t] = "SKIPPED"
      BY <1>4, <2>2
    <3> QED
      BY <1>3, <1>4, <3>1 DEF Process!Agreed
  <2>3. CASE t # s /\ t \notin skipped
    <3>1. t \notin Process!Awaited
      BY <2>3
    <3>2. MappedVerdict[t] = "APPROVED"
      BY <1>1, <1>3, <3>1 DEF Process!AInv, Process!InTurn
    <3> QED
      BY <1>4, <2>3, <3>2 DEF Process!Agreed
  <2> QED
    BY <2>1, <2>2, <2>3
<1>12. Process!InTurn'
  <2> SUFFICES ASSUME NEW t \in Steps, MappedVerdict'[t] # "ABSENT"
               PROVE  /\ StepOrder[t] \in 1..(MappedFlow'.order - 1) => Process!Agreed(t)'
                      /\ MappedFlow'.status = "APPROVED" /\ StepOrder[t] >= 1 => Process!Agreed(t)'
                      /\ MappedFlow'.status # "APPROVED" /\ StepOrder[t] = MappedFlow'.order
                           => MappedVerdict'[t] \in {"PENDING", "APPROVED"}
                      /\ MappedFlow'.status # "APPROVED" /\ StepOrder[t] > MappedFlow'.order
                           => MappedVerdict'[t] = "PENDING"
    BY DEF Process!InTurn
  <2>1. MappedVerdict[t] # "ABSENT" /\ StepOrder[t] \in Int /\ StepOrder[t] <= TotalSteps
    BY <1>1, <1>3, <1>4 DEF Process!Plan
  <2>2. /\ StepOrder[t] \in 1..(MappedFlow.order - 1) => Process!Agreed(t)
        /\ StepOrder[t] = MappedFlow.order => MappedVerdict[t] \in {"PENDING", "APPROVED"}
        /\ StepOrder[t] > MappedFlow.order => MappedVerdict[t] = "PENDING"
    BY <1>1, <2>1 DEF Process!AInv, Process!InTurn
  <2>3. t \in skipped => StepOrder[t] = MappedFlow.order
    BY <1>3
  <2>4. StepOrder[s] = MappedFlow.order
    BY <1>1, <1>3
  <2>5. ~over /\ t \in skipped => FALSE
    BY <1>1
  <2> HIDE DEF skipped, over
  <2>6. CASE over
    BY <1>2, <1>4, <1>6, <1>10, <1>11, <2>1, <2>2, <2>3, <2>4, <2>6
  <2>7. CASE ~over
    BY <1>2, <1>4, <1>6, <1>10, <2>1, <2>2, <2>4, <2>5, <2>7
  <2> QED
    BY <2>6, <2>7
<1>13. Process!NoGaps /\ Process!SomebodyAwaited => Process!SomebodyAwaited'
  <2> SUFFICES ASSUME Process!NoGaps, MappedFlow'.status \in {"DRAFT", "PENDING"}
               PROVE  \E t \in Steps : StepOrder[t] = MappedFlow'.order /\ MappedVerdict'[t] = "PENDING"
    BY DEF Process!SomebodyAwaited
  <2>1. CASE over
    <3>1. MappedFlow'.order = MappedFlow.order + 1 /\ MappedFlow'.order \in 1..TotalSteps
      <4> HIDE DEF over
      <4> QED
        BY <1>6, <2>1
    <3>2. PICK t \in Steps : StepOrder[t] = MappedFlow.order + 1
      BY <3>1 DEF Process!NoGaps
    <3>3. \A u \in Steps : MappedVerdict[u] # "ABSENT"
      BY <1>1, <1>3 DEF Process!AInv, Process!AllOrNone, Process!NoVerdict
    <3>4. MappedVerdict[t] = "PENDING"
      BY <1>1, <1>2, <3>2, <3>3 DEF Process!AInv, Process!InTurn
    <3>5. t # s /\ t \notin skipped
      BY <1>1, <1>2, <1>3, <3>2
    <3> QED
      BY <1>4, <3>1, <3>2, <3>4, <3>5
  <2>2. CASE ~over
    <3>1. PICK t \in Process!Awaited \ skipped : t # s
      BY <1>1, <1>3, <2>2
    <3>2. MappedVerdict'[t] = MappedVerdict[t]
      BY <1>3, <1>4, <3>1
    <3>3. MappedFlow'.order = MappedFlow.order
      <4> HIDE DEF over
      <4> QED
        BY <1>6, <2>2
    <3> QED
      BY <1>3, <3>1, <3>2, <3>3
  <2> QED
    BY <2>1, <2>2
<1> QED
  BY <1>5, <1>7, <1>8, <1>9, <1>12, <1>13 DEF Process!AInv

\* A reviewer rejects, or nobody does: the flow ends, and no longer has to be
\* agreed to.
LEMMA RejectKeeps ==
  ASSUME Process!Plan, Process!AInv, NEW S \in SUBSET Process!Level, Process!Reject(S)
  PROVE  Process!AInv' /\ Process!SomebodyAwaited'
<1>1. /\ MappedFlow.exists /\ MappedFlow.status = "PENDING"
      /\ MappedVerdict' = [t \in Steps |-> CASE t \in S -> "REJECTED"
                                       [] t \in Process!Awaited \ S -> "SKIPPED"
                                       [] OTHER -> MappedVerdict[t]]
      /\ Process!Move("rejected", "REJECTED", MappedFlow.order, MappedFlow.order, FALSE)
  BY DEF Process!Reject
<1>2. /\ Process!AType /\ Process!Chain /\ MappedFlow.order \in 1..TotalSteps /\ MappedFlow.order \in Int
      /\ MappedVerdict \in [Steps -> Process!Verdicts] /\ MappedUsed
      /\ "REJECTED" \in Process!FlowStatus /\ "rejected" \in Process!EventKinds
  BY <1>1 DEF Process!AInv, Process!AType, Process!Plan, Process!Unborn, Process!NoFlow,
     Process!FlowStatus, Process!EventKinds
<1>3. \A t \in Steps : MappedVerdict'[t] \in {"REJECTED", "SKIPPED", MappedVerdict[t]}
  BY <1>1
<1>4. /\ MappedFlow' = [exists |-> MappedFlow.exists, status |-> "REJECTED", order |-> MappedFlow.order]
      /\ MappedLog' \in Seq(Process!Entry) /\ MappedUsed' = MappedUsed /\ Process!Chain'
  BY <1>1, <1>2, MoveChains
<1>5. MappedFlow'.exists /\ MappedFlow'.status = "REJECTED" /\ MappedFlow'.order \in 1..TotalSteps /\ MappedUsed'
  BY <1>1, <1>2, <1>4
<1>6. MappedVerdict' \in [Steps -> Process!Verdicts]
  <2>1. MappedVerdict' = [t \in Steps |-> MappedVerdict'[t]]
    BY <1>1
  <2> QED
    BY <1>2, <1>3, <2>1 DEF Process!Verdicts
<1>7. Process!AType'
  BY <1>2, <1>4, <1>5, <1>6 DEF Process!AType
<1>8. Process!AllOrNone'
  <2>1. CASE MappedVerdict = Process!NoVerdict
    <3>1. \A t \in Steps : t \notin Process!Level /\ t \notin Process!Awaited /\ t \notin S
      BY <2>1 DEF Process!NoVerdict, Process!Awaited, Process!Level
    <3>2. \A t \in Steps : MappedVerdict'[t] = MappedVerdict[t]
      BY <1>1, <3>1
    <3>3. \A t \in Steps : MappedVerdict'[t] = "ABSENT"
      BY <2>1, <3>2 DEF Process!NoVerdict
    <3> QED
      BY <1>6, <3>3 DEF Process!AllOrNone, Process!NoVerdict
  <2>2. CASE \A t \in Steps : MappedVerdict[t] # "ABSENT"
    BY <1>3, <2>2 DEF Process!AllOrNone
  <2> QED
    BY <2>1, <2>2 DEF Process!AInv, Process!AllOrNone
<1> QED
  BY <1>4, <1>5, <1>7, <1>8 DEF Process!AInv, Process!Unborn, Process!InTurn,
     Process!SomebodyAwaited

\* Nobody's verdict changes: the flow is submitted or cancelled.
LEMMA OtherMoveKeeps ==
  ASSUME Process!Plan, Process!AInv, Process!Submit \/ Process!Cancel
  PROVE  Process!AInv' /\ (Process!SomebodyAwaited => Process!SomebodyAwaited')
<1>1. /\ MappedFlow.exists /\ MappedVerdict' = MappedVerdict
      /\ \/ MappedFlow.status = "DRAFT" /\ Process!Move("submitted", "PENDING", MappedFlow.order, MappedFlow.order, FALSE)
         \/ Process!Move("cancelled", "CANCELLED", MappedFlow.order, 0, FALSE)
  BY DEF Process!Submit, Process!Cancel
<1>2. /\ Process!AType /\ Process!Chain /\ MappedFlow.order \in 1..TotalSteps /\ MappedFlow.order \in Int /\ MappedUsed
      /\ {"PENDING", "CANCELLED"} \subseteq Process!FlowStatus /\ FALSE \in BOOLEAN /\ 0 \in Int
      /\ {"submitted", "cancelled"} \subseteq Process!EventKinds
  BY <1>1 DEF Process!AInv, Process!AType, Process!Plan, Process!Unborn, Process!NoFlow,
     Process!FlowStatus, Process!EventKinds
<1>3. CASE MappedFlow.status = "DRAFT" /\ Process!Move("submitted", "PENDING", MappedFlow.order, MappedFlow.order, FALSE)
  <2>1. /\ MappedFlow' = [exists |-> MappedFlow.exists, status |-> "PENDING", order |-> MappedFlow.order]
        /\ MappedLog' \in Seq(Process!Entry) /\ MappedUsed' = MappedUsed /\ Process!Chain'
    BY <1>2, <1>3, MoveChains
  <2>2. /\ MappedFlow'.exists /\ MappedFlow'.status = "PENDING" /\ MappedFlow'.order = MappedFlow.order /\ MappedUsed'
        /\ MappedFlow.status = "DRAFT"
    BY <1>1, <1>2, <1>3, <2>1
  <2>3. Process!AType'
    BY <1>1, <1>2, <2>1 DEF Process!AType
  <2>4. Process!InTurn' /\ Process!AllOrNone'
    BY <1>1, <2>2 DEF Process!AInv, Process!InTurn, Process!AllOrNone, Process!Agreed,
       Process!NoVerdict
  <2>5. Process!SomebodyAwaited => Process!SomebodyAwaited'
    BY <1>1, <2>2 DEF Process!SomebodyAwaited, Process!NoVerdict
  <2> QED
    BY <2>1, <2>2, <2>3, <2>4, <2>5 DEF Process!AInv, Process!Unborn
<1>4. CASE Process!Move("cancelled", "CANCELLED", MappedFlow.order, 0, FALSE)
  <2>1. /\ MappedFlow' = [exists |-> MappedFlow.exists, status |-> "CANCELLED", order |-> MappedFlow.order]
        /\ MappedLog' \in Seq(Process!Entry) /\ MappedUsed' = MappedUsed /\ Process!Chain'
    <3>1. "CANCELLED" \in Process!FlowStatus /\ "cancelled" \in Process!EventKinds
      BY <1>2
    <3> QED
      BY <1>2, <1>4, <3>1, MoveChains
  <2>2. /\ MappedFlow'.exists /\ MappedFlow'.status = "CANCELLED" /\ MappedFlow'.order = MappedFlow.order /\ MappedUsed'
    BY <1>1, <1>2, <2>1
  <2>3. Process!AType'
    BY <1>1, <1>2, <2>1 DEF Process!AType
  <2>4. Process!AllOrNone'
    BY <1>1 DEF Process!AInv, Process!AllOrNone, Process!NoVerdict
  <2> QED
    BY <2>1, <2>2, <2>3, <2>4 DEF Process!AInv, Process!Unborn, Process!InTurn,
       Process!SomebodyAwaited
<1> QED
  BY <1>1, <1>3, <1>4

\* A flow begins, or is deleted.
LEMMA FreshKeeps ==
  ASSUME Process!Plan, Process!AInv, Process!Create \/ Process!Purge
  PROVE  Process!AInv' /\ (Process!NoGaps => Process!SomebodyAwaited')
<1>1. /\ \/ MappedUsed' = TRUE /\ MappedFlow'.exists = TRUE /\ ~MappedUsed
         \/ MappedUsed' = MappedUsed /\ MappedFlow' = Process!NoFlow /\ MappedVerdict' = Process!NoVerdict
      /\ MappedFlow' \in [exists : BOOLEAN, status : Process!FlowStatus, order : 1..TotalSteps]
      /\ MappedFlow'.status = "DRAFT" /\ MappedFlow'.order = 1
      /\ MappedVerdict' \in {[s \in Steps |-> "PENDING"], Process!NoVerdict} /\ MappedLog' = <<>>
  <2>1. CASE Process!Create
    <3>1. MappedLog = <<>>
      BY <2>1 DEF Process!Create, Process!AInv, Process!Unborn
    <3> QED
      <4>1. MappedUsed' = TRUE /\ ~MappedUsed /\ MappedLog' = <<>>
        BY <2>1, <3>1 DEF Process!Create
      <4>2. MappedFlow' = [exists |-> TRUE, status |-> "DRAFT", order |-> 1]
            /\ MappedVerdict' \in {[s \in Steps |-> "PENDING"], Process!NoVerdict}
        BY <2>1 DEF Process!Create
      <4>3. 1 \in 1..TotalSteps
        BY DEF Process!Plan
      <4> QED
        BY <4>1, <4>2, <4>3 DEF Process!FlowStatus
  <2>2. CASE Process!Purge
    BY <2>2 DEF Process!Purge, Process!NoFlow, Process!Plan, Process!FlowStatus
  <2> QED
    BY <2>1, <2>2
<1>2. MappedUsed' \in BOOLEAN
  BY <1>1 DEF Process!AInv, Process!AType
<1>3. Process!AType'
  BY <1>1, <1>2 DEF Process!AType, Process!NoVerdict, Process!Verdicts
<1>4. Process!Unborn' /\ Process!Chain'
  BY <1>1 DEF Process!Unborn, Process!Chain, Process!NoVerdict, Process!NoFlow
<1>5. Process!AllOrNone' /\ Process!InTurn'
  BY <1>1 DEF Process!AllOrNone, Process!InTurn, Process!NoVerdict
<1>6. Process!NoGaps => Process!SomebodyAwaited'
  BY <1>1 DEF Process!NoGaps, Process!SomebodyAwaited, Process!NoVerdict, Process!Plan
<1> QED
  BY <1>3, <1>4, <1>5, <1>6 DEF Process!AInv

LEMMA ProcessInit ==
  ASSUME Process!Plan, Process!AInit
  PROVE  Process!AInv /\ Process!SomebodyAwaited
<1>1. MappedFlow \in [exists : BOOLEAN, status : Process!FlowStatus, order : 1..TotalSteps]
      /\ MappedFlow.status = "DRAFT" /\ MappedFlow.order = 1
  BY DEF Process!AInit, Process!NoFlow, Process!Plan, Process!FlowStatus
<1>2. Process!AType
  <2>1. MappedLog \in Seq(Process!Entry) /\ MappedUsed \in BOOLEAN
    <3>1. MappedLog = <<>> /\ MappedUsed = FALSE
      BY DEF Process!AInit
    <3>2. MappedLog \in Seq(Process!Entry)
      BY <3>1
    <3>3. MappedUsed \in BOOLEAN
      BY <3>1, Zenon
    <3> QED
      BY <3>2, <3>3
  <2>2. MappedVerdict \in [Steps -> Process!Verdicts]
    BY DEF Process!AInit, Process!NoVerdict, Process!Verdicts
  <2> QED
    BY <1>1, <2>1, <2>2 DEF Process!AType
<1> QED
  BY <1>1, <1>2 DEF Process!AInit, Process!AInv, Process!Unborn, Process!Chain,
     Process!AllOrNone, Process!InTurn, Process!SomebodyAwaited, Process!NoVerdict

LEMMA ProcessStep ==
  ASSUME Process!Plan, Process!AInv, [Process!ANext]_(Process!avars)
  PROVE  Process!AInv' /\ (Process!NoGaps /\ Process!SomebodyAwaited => Process!SomebodyAwaited')
<1>1. CASE UNCHANGED Process!avars
  <2>1. MappedFlow' = MappedFlow /\ MappedVerdict' = MappedVerdict /\ MappedLog' = MappedLog /\ MappedUsed' = MappedUsed
    BY <1>1 DEF Process!avars
  <2>2. Process!AType' /\ Process!Unborn'
    BY <2>1 DEF Process!AInv, Process!AType, Process!Unborn, Process!NoVerdict
  <2>3. Process!Chain' /\ Process!AllOrNone' /\ Process!InTurn'
    BY <2>1 DEF Process!AInv, Process!Chain, Process!AllOrNone, Process!InTurn,
       Process!Agreed, Process!NoVerdict
  <2>4. Process!SomebodyAwaited => Process!SomebodyAwaited'
    BY <2>1 DEF Process!SomebodyAwaited, Process!NoVerdict
  <2> QED
    BY <2>2, <2>3, <2>4 DEF Process!AInv
<1>2. CASE Process!Create \/ Process!Purge
  BY <1>2, FreshKeeps
<1>3. CASE Process!Submit \/ Process!Cancel
  BY <1>3, OtherMoveKeeps
<1>4. CASE \E s \in Steps : Process!Approve(s)
  BY <1>4, ApproveKeeps
<1>5. CASE \E S \in {{}} \cup {{s} : s \in Process!Level} : Process!Reject(S)
  <2>1. PICK S \in SUBSET Process!Level : Process!Reject(S)
    BY <1>5
  <2> QED
    BY <2>1, RejectKeeps
<1> QED
  BY <1>1, <1>2, <1>3, <1>4, <1>5 DEF Process!ANext

\* The atomic process, whatever the plan: its invariant, and that somebody is
\* awaited when the plan leaves no order out.
THEOREM ProcessInvariant ==
  ASSUME Process!Plan
  PROVE  Process!ASpec => []Process!AInv
<1>1. Process!AInit => Process!AInv
  BY ProcessInit
<1>2. Process!AInv /\ [Process!ANext]_(Process!avars) => Process!AInv'
  BY ProcessStep
<1> QED
  BY <1>1, <1>2, PTL DEF Process!ASpec

-----------------------------------------------------------------------------
(* What the process guarantees is therefore true of the workflow whenever  *)
(* no handler is at work.                                                  *)

LEMMA StoredPlan == Process!Plan
  BY ConstantsAssumption DEF Process!Plan

\* The invariant of the process holds of what it sees of the workflow.
LEMMA ProcessHolds ==
  ASSUME OneHandler
  PROVE  Spec => []Process!AInv
<1>0. PICK w : Workers = {w} /\ MaxAbandons = 0
  BY DEF OneHandler
<1>1. Init => Process!AInv
  BY <1>0, InitRefines, StoredPlan, ProcessInit
<1>2. TypeOK /\ IInv /\ AloneInv /\ Process!AInv /\ [Next]_vars => Process!AInv'
  <2> SUFFICES ASSUME TypeOK, IInv, AloneInv, Process!AInv, [Next]_vars PROVE Process!AInv'
    OBVIOUS
  <2>1. [Process!ANext]_(Process!avars)
    BY <1>0, StatementRefines
  <2> QED
    BY <2>1, StoredPlan, ProcessStep
<1>3. Spec => []AloneInv
  BY AloneInvariant
<1> QED
  BY <1>1, <1>2, <1>3, TypeCorrect, Invariant, PTL DEF Spec

\* The same of somebody being awaited, if the plan leaves no order out.
LEMMA AwaitingHolds ==
  ASSUME OneHandler, Process!NoGaps
  PROVE  Spec => []Process!SomebodyAwaited
<1>0. PICK w : Workers = {w} /\ MaxAbandons = 0
  BY DEF OneHandler
<1>1. Init => Process!SomebodyAwaited
  BY <1>0, InitRefines, StoredPlan, ProcessInit
<1>2. TypeOK /\ IInv /\ AloneInv /\ Process!AInv /\ Process!SomebodyAwaited /\ [Next]_vars
        => Process!SomebodyAwaited'
  <2> SUFFICES ASSUME TypeOK, IInv, AloneInv, Process!AInv, Process!SomebodyAwaited, [Next]_vars
               PROVE  Process!SomebodyAwaited'
    OBVIOUS
  <2>1. [Process!ANext]_(Process!avars)
    BY <1>0, StatementRefines
  <2> QED
    BY <2>1, StoredPlan, ProcessStep
<1>3. Spec => []AloneInv
  BY AloneInvariant
<1>4. Spec => []Process!AInv
  BY ProcessHolds
<1> QED
  BY <1>1, <1>2, <1>3, <1>4, TypeCorrect, Invariant, PTL DEF Spec

\* When no handler is at work the process sees the workflow as it is.
LEMMA AtRest ==
  ASSUME OneHandler, Quiet
  PROVE  MappedFlow = row /\ MappedVerdict = steps /\ MappedLog = outbox
<1>0. PICK w : Workers = {w}
  BY DEF OneHandler
<1>1. req[w].pc = "idle"
  BY <1>0 DEF Quiet
<1> QED
  BY <1>0, <1>1, Mapped

\* Every event of a workflow handled by one handler at a time starts from the
\* status the event before it ended with.
THEOREM EventsAreChained ==
  ASSUME OneHandler
  PROVE  Spec => []EventsChain
<1>1. Story /\ Process!AInv => EventsChain
  <2> SUFFICES ASSUME Story, Process!AInv, row.exists, \A w \in Workers : req[w].op # "purge"
               PROVE  EventsChain
    BY DEF EventsChain
  <2>0. PICK w : Workers = {w}
    BY DEF OneHandler
  <2>1. MappedLog = outbox
    BY <2>0, Mapped DEF Story, DeletesAtWork
  <2>2. Process!Chain /\ Len(outbox) \in Nat
    BY <2>1 DEF Process!AInv, Process!AType
  <2>3. \A i \in 1..Len(outbox) :
          outbox[i].prev = IF i - 1 = 0 THEN "DRAFT" ELSE outbox[i - 1].cur
    BY <2>1, <2>2 DEF Process!Chain
  <2>4. Quiet => row.status = IF Len(outbox) = 0 THEN "DRAFT" ELSE outbox[Len(outbox)].cur
    BY <2>1, <2>2, AtRest DEF Process!Chain
  <2> QED
    BY <2>3, <2>4 DEF EventsChain
<1> QED
  BY <1>1, StoryInvariant, ProcessHolds, PTL

\* Whoever has to approve a workflow has, when it is approved: with one handler
\* at a time, for every plan of steps.
THEOREM ApprovalIsUnanimous ==
  ASSUME OneHandler
  PROVE  Spec => []Unanimity
<1>1. TypeOK /\ Process!AInv => Unanimity
  <2> SUFFICES ASSUME TypeOK, Process!AInv, Quiet, row.status = "APPROVED", steps # NoSteps,
                      NEW s \in Steps, StepOrder[s] >= 1
               PROVE  \/ steps[s] = "APPROVED"
                      \/ /\ steps[s] = "SKIPPED"
                         /\ \E t \in Steps : /\ StepOrder[t] = StepOrder[s]
                                             /\ StepPolicy[t] = "ANY_CAN_APPROVE"
                                             /\ steps[t] = "APPROVED"
    BY DEF Unanimity
  <2>1. MappedFlow = row /\ MappedVerdict = steps
    BY AtRest
  <2>2. steps[s] # "ABSENT"
    BY <2>1 DEF Process!AInv, Process!AllOrNone, Process!NoVerdict, NoSteps
  <2>3. Process!Agreed(s)
    BY <2>1, <2>2 DEF Process!AInv, Process!InTurn
  <2> QED
    BY <2>1, <2>3 DEF Process!Agreed
<1> QED
  BY <1>1, TypeCorrect, ProcessHolds, PTL

\* A workflow that waits always waits for a reviewer, if its plan leaves no
\* order out; a plan with a gap does let a workflow wait for nobody.
THEOREM SomeReviewerIsAwaited ==
  ASSUME OneHandler, \A n \in 1..TotalSteps : \E s \in Steps : StepOrder[s] = n
  PROVE  Spec => []AwaitedStepExists
<1>0. Process!NoGaps
  BY DEF Process!NoGaps
<1>1. Process!SomebodyAwaited => AwaitedStepExists
  <2> SUFFICES ASSUME Process!SomebodyAwaited, Quiet, row.status = "PENDING", steps # NoSteps
               PROVE  \E s \in Steps : StepOrder[s] = row.order /\ ~Settled(s)
    BY DEF AwaitedStepExists
  <2>1. MappedFlow = row /\ MappedVerdict = steps
    BY AtRest
  <2> QED
    BY <2>1 DEF Process!SomebodyAwaited, Process!NoVerdict, NoSteps, Settled
<1>2. Spec => []Process!SomebodyAwaited
  BY <1>0, AwaitingHolds
<1> QED
  BY <1>1, <1>2, PTL

\* The status that ends a workflow is final when handlers do not overlap.
THEOREM TerminalStatusIsFinal ==
  ASSUME OneHandler
  PROVE  Spec => TerminalIsFinal
<1>0. PICK w : Workers = {w} /\ MaxAbandons = 0
  BY DEF OneHandler
<1>1. TypeOK /\ AloneInv /\ [Next]_vars =>
        [row.exists /\ row'.exists /\ row.status \in Terminal => row'.status = row.status]_vars
  <2> SUFFICES ASSUME TypeOK, AloneInv, Next, row.exists, row'.exists, row.status \in Terminal
               PROVE  row'.status = row.status
    OBVIOUS
  <2> DEFINE q == req[w]
  <2>0. /\ Handler(w) /\ RowIsRead(q) /\ DecisionIsSound(q) /\ ElsewhereClean(q)
    BY <1>0 DEF Next, AloneInv
  <2>1. ~CreateRow(w)
    BY <2>0 DEF CreateRow, ElsewhereClean, NoRow
  <2>2. ~DeleteRow(w)
    BY DEF DeleteRow, NoRow
  <2>3. ~UpdateRow(w)
    <3> SUFFICES ASSUME UpdateRow(w) PROVE FALSE
      OBVIOUS
    <3>1. q.pc = "settle"
      BY DEF UpdateRow
    <3>2. row = q.row
      BY <2>0, <3>1 DEF RowIsRead, HasRow
    <3>3. q.row.status \in {"DRAFT", "PENDING"}
      BY <2>0, <3>1 DEF DecisionIsSound, Decided, Transitions
    <3> QED
      BY <3>2, <3>3 DEF Terminal
  <2>4. row' = row
    BY <2>0, <2>1, <2>2, <2>3
    DEF Handler, InsertSteps, InsertStepsFails, ReadRow, Proceed, DecideSubmit, DecideCancel,
        DecideApprove, DecideReject, Refuse, MarkStep, SkipSibling, SaveEvent, DeleteSteps,
        DeleteOutbox, Abandon
  <2> QED
    BY <2>4
<1>2. Spec => []AloneInv
  BY AloneInvariant
<1> QED
  BY <1>1, <1>2, TypeCorrect, PTL DEF Spec, TerminalIsFinal
=============================================================================
