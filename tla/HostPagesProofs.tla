--------------------------- MODULE HostPagesProofs ---------------------------
(***************************************************************************)
(* Machine-checked proofs about HostPages and its widget, for any number   *)
(* of workflows, tenants, users and requests in flight, every step plan    *)
(* and every bound: what a tab approves was offered, nobody is shown       *)
(* waiting at a level that is passed, and the preview plays by the rules   *)
(* of workflow-api.                                                        *)
(***************************************************************************)
EXTENDS HostPages, FiniteSetTheorems, TLAPS

-----------------------------------------------------------------------------
(* The least and the greatest of a set.  The library defines Min and Max   *)
(* as choices; here is when there is something to choose.                  *)

HasLeast(S) == \E x \in S : \A y \in S : x =< y
HasGreatest(S) == \E x \in S : \A y \in S : x >= y

\* A finite set of integers has a least and a greatest element: a smallest set without
\* one would have both once any of its members is taken away.
LEMMA ExtremesExist ==
  ASSUME NEW S, IsFiniteSet(S), S \subseteq Int, S # {}
  PROVE  HasLeast(S) /\ HasGreatest(S)
<1> DEFINE Bad == {A \in SUBSET S : A # {} /\ ~(HasLeast(A) /\ HasGreatest(A))}
<1>1. SUFFICES Bad # {} => FALSE
  OBVIOUS
<1>2. SUFFICES ASSUME Bad # {} PROVE FALSE
  OBVIOUS
<1>3. IsWellFoundedOn(StrictSubsetOrdering(S), FiniteSubsetsOf(S))
  BY FS_StrictSubsetOrderingWellFounded
<1>4. Bad \subseteq FiniteSubsetsOf(S)
  BY FS_Subset DEF FiniteSubsetsOf
<1>5. PICK A \in Bad : \A B \in Bad : ~(<<B, A>> \in StrictSubsetOrdering(S))
  BY <1>2, <1>3, <1>4, WFMin
<1>6. PICK a \in A : TRUE
  OBVIOUS
<1>7. A \ {a} # {}
  BY <1>6 DEF HasLeast, HasGreatest
<1>8. A \ {a} \notin Bad
  BY <1>5, <1>6 DEF StrictSubsetOrdering
<1>9. HasLeast(A \ {a}) /\ HasGreatest(A \ {a})
  BY <1>7, <1>8
<1>10. PICK b \in A \ {a} : \A y \in A \ {a} : b >= y
  BY <1>9 DEF HasGreatest
<1>11. PICK c \in A \ {a} : \A y \in A \ {a} : c =< y
  BY <1>9 DEF HasLeast
<1>12. HasGreatest(A)
  BY <1>6, <1>10 DEF HasGreatest
<1>13. HasLeast(A)
  BY <1>6, <1>11 DEF HasLeast
<1> QED
  BY <1>12, <1>13

\* What Min is of a finite set of integers: its least element.
LEMMA MinIsLeast ==
  ASSUME NEW S, IsFiniteSet(S), S \subseteq Int, S # {}
  PROVE  Min(S) \in S /\ \A y \in S : Min(S) <= y
BY ExtremesExist DEF Min, HasLeast

\* What Max is of a finite set of integers: its greatest element.
LEMMA MaxIsGreatest ==
  ASSUME NEW S, IsFiniteSet(S), S \subseteq Int, S # {}
  PROVE  Max(S) \in S /\ \A y \in S : Max(S) >= y
BY ExtremesExist DEF Max, HasGreatest

-----------------------------------------------------------------------------
(* Plans and snapshots.                                                    *)

\* The orders of a plan start at 1 and end at TotalSteps.
LEMMA PlanOrders ==
  ASSUME NEW id \in Ids
  PROVE  /\ DOMAIN Plan[id] \subseteq Int /\ IsFiniteSet(DOMAIN Plan[id])
         /\ 1 \in DOMAIN Plan[id]
         /\ \A i \in DOMAIN Plan[id] :
              /\ i >= 1
              /\ Plan[id][i].order \in Nat /\ 1 <= Plan[id][i].order
              /\ Plan[id][i].order <= TotalSteps(id)
              /\ Plan[id][i].any \in BOOLEAN
         /\ TotalSteps(id) \in Nat /\ 1 <= TotalSteps(id)
<1> DEFINE plan == Plan[id]
           orders == {plan[i].order : i \in DOMAIN plan}
           f == [i \in DOMAIN plan |-> plan[i].order]
<1>1. plan \in Seq(StepDef) /\ plan # <<>>
  BY WidgetAssumption
<1> HIDE DEF plan
<1>2. /\ DOMAIN plan = 1..Len(plan) /\ Len(plan) \in Int /\ 1 \in Int /\ 1 \in DOMAIN plan
      /\ \A i \in DOMAIN plan : plan[i] \in StepDef /\ i >= 1
  BY <1>1
<1>3. IsFiniteSet(DOMAIN plan)
  BY <1>2, FS_Interval
<1>4. \A i \in DOMAIN plan :
        plan[i].order \in Nat /\ 1 <= plan[i].order /\ plan[i].any \in BOOLEAN
  <2> SUFFICES ASSUME NEW i \in DOMAIN plan
               PROVE  plan[i].order \in Nat /\ 1 <= plan[i].order /\ plan[i].any \in BOOLEAN
    OBVIOUS
  <2>1. plan[i] \in StepDef
    BY <1>2
  <2> QED
    BY <2>1 DEF StepDef
<1>5. IsFiniteSet(orders)
  <2>1. f \in Surjection(DOMAIN plan, orders)
    BY DEF Surjection
  <2> QED
    BY <1>3, <2>1, FS_Surjection
<1>6. orders \subseteq Int /\ orders # {}
  BY <1>2, <1>4
<1>7. TotalSteps(id) \in orders /\ \A y \in orders : TotalSteps(id) >= y
  BY <1>5, <1>6, MaxIsGreatest DEF TotalSteps, plan
<1> QED
  BY <1>2, <1>3, <1>4, <1>7 DEF plan

\* A snapshot and its parts.
LEMMA SnapshotParts ==
  ASSUME NEW wf \in Snapshot
  PROVE  /\ wf.id \in Ids /\ wf \in SnapshotOf(wf.id) /\ wf # None
         /\ wf.status \in States /\ wf.order \in 1..TotalSteps(wf.id)
         /\ wf.steps \in [DOMAIN Plan[wf.id] -> Verdicts]
<1>1. PICK id \in Ids : wf \in SnapshotOf(id)
  BY DEF Snapshot
<1>2. wf.id = id
  BY <1>1 DEF SnapshotOf
<1> QED
  BY <1>1, <1>2, WidgetAssumption DEF SnapshotOf

LEMMA SnapshotMade ==
  ASSUME NEW id \in Ids, NEW wf \in SnapshotOf(id)
  PROVE  wf \in Snapshot /\ wf # None /\ wf.id = id
<1>1. wf \in Snapshot
  BY DEF Snapshot
<1> QED
  BY <1>1, WidgetAssumption DEF SnapshotOf

-----------------------------------------------------------------------------
(* The invariant.                                                          *)

Actions == {"submit", "approve", "reject", "cancel"}

\* a step has its verdict
Done == {"APPROVED", "REJECTED", "SKIPPED"}

\* whoever is behind what a row says has a verdict among some steps, read then or later
Passed(wf, steps) ==
  \A i \in DOMAIN Plan[wf.id] :
    Plan[wf.id][i].order < wf.order \/ wf.status = "APPROVED" => steps[i] \in Done

\* the steps of a workflow are inserted together
AllAbsent(wf) == \A i \in DOMAIN Plan[wf.id] : wf.steps[i] = "ABSENT"
NoneAbsent(wf) == \A i \in DOMAIN Plan[wf.id] : wf.steps[i] # "ABSENT"

Good(wf) == Passed(wf, wf.steps) /\ (AllAbsent(wf) \/ NoneAbsent(wf))

\* what the preview may show after wf: the outcome of a decision it offered
Decision(wf, body) ==
  \E a \in Actions, k \in {0} \cup DOMAIN Plan[wf.id] :
    /\ a = "submit" => wf.status = "DRAFT"
    /\ a = "approve" => wf.status = "PENDING" /\ k \in CurrentPendingSteps(wf)
    /\ a = "reject" => wf.status = "PENDING"
    /\ a = "cancel" => wf.status \in {"DRAFT", "PENDING"}
    /\ body = MockAct(wf, a, k)

\* a request of the widget that is mounted, and one that keeps it acting
Mine(r) == r.mine /\ r.kind \in {"get", "post", "preview"}
Act(r) == r.mine /\ r.kind \in {"post", "preview"}

\* a request beside the targets that were shown and the widget
RequestInv(r, seen, w) ==
  /\ r.kind \in {"get", "post", "preview"} => r.id \in Workflows
  /\ r.kind = "create" /\ r.pc \in {"insert", "answered"} => r.id \in Workflows
  /\ r.kind = "post" => /\ r.action \in Actions
                        /\ r.action \in {"approve", "reject"} => r.target \in Targets
                        /\ r.action = "approve" /\ r.asker # "colleague" => r.target \in seen
  /\ r.pc \in {"decide", "mark", "update", "reread"} => r.kind = "post"
  /\ r.pc = "steps" => r.kind \in {"get", "post"}
  /\ r.pc = "insert" => r.kind = "create"
  /\ r.body # None => r.kind \in {"get", "post", "preview"}
  /\ r.body # None /\ r.kind # "preview" => r.body.id = r.id
  /\ r.body # None => r.pc \notin {"sent", "reread"}
  /\ r.body # None /\ r.pc = "answered" => Good(r.body)
  /\ r.kind = "preview" => r.body # None /\ r.pc = "answered"
  /\ Act(r) => w.acting
  /\ r.kind = "preview" /\ r.mine =>
       /\ w.mock /\ w.wf # None
       /\ w.wf.id = DemoId /\ r.body.id = DemoId => Decision(w.wf, r.body)

\* What a decision has read, beside the row as it is now: with what it has still to mark
\* and to skip, the level is over when it says so.
Writing(r, row) ==
  /\ Accepts(r.body, r.action, r.target)
  /\ \A k \in DOMAIN Plan[r.id] : r.body.steps[k] # "ABSENT" => row.steps[k] # "ABSENT"
  /\ r.toSkip \subseteq {k \in DOMAIN Plan[r.id] : r.body.steps[k] # "ABSENT"}
  /\ r.action = "approve" /\ Resolves(r.body, r.target.step) =>
       \A k \in DOMAIN Plan[r.id] :
         Plan[r.id][k].order = r.body.order =>
           \/ row.steps[k] \in Done \/ k \in r.toSkip
           \/ r.pc = "mark" /\ k = r.target.step

\* a request and its handler beside the database
HandlerInv(r, db) ==
  /\ r.pc \notin {"sent", "reread", "answered"} => r.id \in Workflows /\ db[r.id] # None
  /\ r.pc \in {"decide", "steps", "mark", "update"} =>
       r.body # None /\ Passed(r.body, db[r.id].steps)
  /\ r.pc \in {"mark", "update"} => Writing(r, db[r.id])
  /\ r.pc = "insert" => AllAbsent(db[r.id])

PendingInv(reqs, seen, w, db) ==
  /\ reqs \in Seq(Request)
  /\ \A i \in DOMAIN reqs : RequestInv(reqs[i], seen, w) /\ HandlerInv(reqs[i], db)
  /\ \A i, j \in DOMAIN reqs : Act(reqs[i]) /\ Act(reqs[j]) => i = j
  /\ \A i, j \in DOMAIN reqs :
       reqs[i].pc = "insert" /\ reqs[j].pc = "insert" /\ reqs[i].id = reqs[j].id => i = j

NoneMine(reqs) == \A i \in DOMAIN reqs : ~Mine(reqs[i])

WidgetInv(w) ==
  /\ w \in Widget /\ (w.screen = "workflow" <=> w.wf # None)
  /\ w.modal => w.wf # None /\ (w.wf.id = DemoId => w.wf.status = "PENDING")
  /\ w.wf # None => Good(w.wf)

ServerInv ==
  /\ server \in [Workflows -> Snapshot \cup {None}]
  /\ \A w \in Workflows : server[w] # None => server[w].id = w /\ Good(server[w])

RestInv ==
  /\ page \in {"expenses", "approvals"}
  /\ session \in [tenant : Tenants, user : Users]
  /\ host \in [rows : SUBSET Workflows, selected : Workflows \cup {None}, form : BOOLEAN]
  /\ Len(pending) <= MaxPending + 1
  /\ shown \subseteq Targets /\ approved \subseteq shown
  /\ inputs \in 0..MaxInputs /\ faults \in 0..MaxFaults

\* without a selection there is no widget, and nothing it has asked for matters
UnmountedInv == host.selected = None => widget = Mounted /\ NoneMine(pending)

IInv == /\ ServerInv /\ RestInv /\ WidgetInv(widget) /\ PendingInv(pending, shown, widget, server)
        /\ UnmountedInv

-----------------------------------------------------------------------------
(* What workflow-api and the preview make of a workflow.                   *)

\* An approval of step i, as both of them do it.
Approval(wf, body, i) ==
  LET any == Plan[wf.id][i].any
      over == any \/ Others(wf, i) = {}
  IN  /\ body.id = wf.id
      /\ body.status = IF over /\ wf.order >= TotalSteps(wf.id) THEN "APPROVED" ELSE "PENDING"
      /\ body.order = IF over /\ wf.order < TotalSteps(wf.id) THEN wf.order + 1 ELSE wf.order
      /\ \A j \in DOMAIN Plan[wf.id] :
           body.steps[j] = IF j = i THEN "APPROVED"
                           ELSE IF any /\ j \in Others(wf, i) THEN "SKIPPED" ELSE wf.steps[j]

\* Those that await a verdict are steps of the workflow.
LEMMA PendingAreSteps ==
  ASSUME NEW wf
  PROVE  /\ CurrentPendingSteps(wf) \subseteq DOMAIN Plan[wf.id]
         /\ \A i \in CurrentPendingSteps(wf) : wf.steps[i] = "PENDING"
         /\ \A i : Others(wf, i) \subseteq DOMAIN Plan[wf.id]
BY DEF CurrentPendingSteps, AtOrder, Others

\* workflow-api approves a step that awaits it.
LEMMA ServedApproves ==
  ASSUME NEW wf \in Snapshot, NEW target, wf.status = "PENDING", target.id = wf.id,
         target.step \in CurrentPendingSteps(wf)
  PROVE  /\ Served(wf, "approve", target) \in Snapshot
         /\ Approval(wf, Served(wf, "approve", target), target.step)
<1> DEFINE i == target.step
           any == Plan[wf.id][i].any
           over == any \/ Others(wf, i) = {}
           f == [j \in DOMAIN Plan[wf.id] |->
                   IF j = i THEN "APPROVED"
                   ELSE IF any /\ j \in Others(wf, i) THEN "SKIPPED" ELSE wf.steps[j]]
           st == IF over /\ wf.order >= TotalSteps(wf.id) THEN "APPROVED" ELSE "PENDING"
           n == IF over /\ wf.order < TotalSteps(wf.id) THEN wf.order + 1 ELSE wf.order
           body == [wf EXCEPT !.steps = f, !.status = st, !.order = n]
<1>1. /\ wf.id \in Ids /\ wf.order \in 1..TotalSteps(wf.id) /\ TotalSteps(wf.id) \in Int
      /\ wf.steps \in [DOMAIN Plan[wf.id] -> Verdicts] /\ wf \in SnapshotOf(wf.id)
  BY SnapshotParts, PlanOrders
<1>2. i \in DOMAIN Plan[wf.id]
  BY PendingAreSteps
<1>3. any \in BOOLEAN
  BY <1>1, <1>2, PlanOrders
<1>4. Served(wf, "approve", target) = body
  <2>1. Accepts(wf, "approve", target)
    BY DEF Accepts
  <2>2. Marked(wf, "approve", target) = {i}
    BY DEF Marked
  <2>3. \A j : j \in Skipped(wf, "approve", target) <=> any /\ j \in Others(wf, i)
    BY <1>3, <2>2 DEF Skipped, Others
  <2>4. Verdict("approve") = "APPROVED"
    BY DEF Verdict
  <2>5. NextStatus(wf, "approve", target) = st /\ NextOrder(wf, "approve", target) = n
    BY <1>3 DEF NextStatus, NextOrder, Resolves
  <2>6. [j \in DOMAIN wf.steps |->
           IF j \in Marked(wf, "approve", target) THEN Verdict("approve")
           ELSE IF j \in Skipped(wf, "approve", target) THEN "SKIPPED" ELSE wf.steps[j]] = f
    BY <1>1, <2>2, <2>3, <2>4
  <2> HIDE DEF f, st, n
  <2> QED
    BY <2>1, <2>5, <2>6 DEF Served
<1>5. f \in [DOMAIN Plan[wf.id] -> Verdicts] /\ st \in States /\ n \in 1..TotalSteps(wf.id)
  BY <1>1 DEF Verdicts, States
<1>6. \A j \in DOMAIN Plan[wf.id] :
        f[j] = IF j = i THEN "APPROVED"
               ELSE IF any /\ j \in Others(wf, i) THEN "SKIPPED" ELSE wf.steps[j]
  OBVIOUS
<1> HIDE DEF f, st, n
<1>7. /\ body \in Snapshot /\ body.id = wf.id
      /\ body.status = st /\ body.order = n /\ body.steps = f
  <2>1. /\ body \in SnapshotOf(wf.id)
        /\ body.id = wf.id /\ body.status = st /\ body.order = n /\ body.steps = f
    BY <1>1, <1>5 DEF SnapshotOf
  <2> HIDE DEF body
  <2> QED
    BY <1>1, <2>1, SnapshotMade
<1> HIDE DEF body
<1>8. Approval(wf, body, i)
  BY <1>6, <1>7 DEF Approval, st, n
<1> QED
  BY <1>4, <1>7, <1>8

\* workflow-api rejects a workflow that waits.
LEMMA ServedRejects ==
  ASSUME NEW wf \in Snapshot, NEW target, wf.status = "PENDING"
  PROVE  LET body == Served(wf, "reject", target) IN
         body # None /\ body.status = "REJECTED" /\ body.order = wf.order
<1> DEFINE f == [j \in DOMAIN wf.steps |->
                   IF j \in Marked(wf, "reject", target) THEN Verdict("reject")
                   ELSE IF j \in Skipped(wf, "reject", target) THEN "SKIPPED"
                   ELSE wf.steps[j]]
           body == [wf EXCEPT !.steps = f, !.status = "REJECTED", !.order = wf.order]
<1>1. /\ wf.id \in Ids /\ wf.order \in 1..TotalSteps(wf.id) /\ wf \in SnapshotOf(wf.id)
      /\ wf.steps \in [DOMAIN Plan[wf.id] -> Verdicts]
  BY SnapshotParts
<1>2. f \in [DOMAIN Plan[wf.id] -> Verdicts] /\ "REJECTED" \in States
  BY <1>1 DEF Verdict, Verdicts, States
<1>3. Served(wf, "reject", target) = body
  <2>1. Accepts(wf, "reject", target)
    BY DEF Accepts
  <2>2. /\ NextStatus(wf, "reject", target) = "REJECTED"
        /\ NextOrder(wf, "reject", target) = wf.order
    BY DEF NextStatus, NextOrder
  <2> QED
    BY <2>1, <2>2 DEF Served
<1> HIDE DEF f
<1>4. /\ body \in SnapshotOf(wf.id)
      /\ body.status = "REJECTED" /\ body.order = wf.order
  BY <1>1, <1>2 DEF SnapshotOf
<1> HIDE DEF body
<1>5. body # None
  BY <1>1, <1>4, SnapshotMade
<1> QED
  BY <1>3, <1>4, <1>5

\* Nothing is marked by a submission or a cancellation.
LEMMA ServedStatus ==
  ASSUME NEW wf \in Snapshot, NEW target, NEW a \in {"submit", "cancel"},
         Accepts(wf, a, target)
  PROVE  Served(wf, a, target) = [wf EXCEPT !.status = IF a = "submit" THEN "PENDING"
                                                       ELSE "CANCELLED"]
<1> DEFINE f == [j \in DOMAIN wf.steps |->
                   IF j \in Marked(wf, a, target) THEN Verdict(a)
                   ELSE IF j \in Skipped(wf, a, target) THEN "SKIPPED" ELSE wf.steps[j]]
           st == IF a = "submit" THEN "PENDING" ELSE "CANCELLED"
<1>1. wf.id \in Ids /\ wf \in SnapshotOf(wf.id) /\ wf.steps \in [DOMAIN Plan[wf.id] -> Verdicts]
  BY SnapshotParts
<1>2. Marked(wf, a, target) = {} /\ Skipped(wf, a, target) = {}
  BY DEF Marked, Skipped
<1>3. f = wf.steps
  BY <1>1, <1>2
<1>4. NextStatus(wf, a, target) = st /\ NextOrder(wf, a, target) = wf.order
  BY DEF NextStatus, NextOrder
<1>5. Served(wf, a, target) = [wf EXCEPT !.steps = f, !.status = st, !.order = wf.order]
  BY <1>4 DEF Served
<1> HIDE DEF f, st
<1>6. [wf EXCEPT !.steps = f, !.status = st, !.order = wf.order] = [wf EXCEPT !.status = st]
  BY <1>1, <1>3 DEF SnapshotOf
<1> QED
  BY <1>5, <1>6 DEF st

\* A change of status alone.
LEMMA StatusOnly ==
  ASSUME NEW wf \in Snapshot, NEW st \in States
  PROVE  LET body == [wf EXCEPT !.status = st] IN
         /\ body \in Snapshot /\ body # None
         /\ body.id = wf.id /\ body.status = st /\ body.order = wf.order /\ body.steps = wf.steps
<1>1. wf.id \in Ids /\ wf \in SnapshotOf(wf.id)
  BY SnapshotParts
<1>2. LET body == [wf EXCEPT !.status = st] IN
      /\ body \in SnapshotOf(wf.id)
      /\ body.id = wf.id /\ body.status = st /\ body.order = wf.order /\ body.steps = wf.steps
  BY <1>1 DEF SnapshotOf
<1> QED
  BY <1>1, <1>2, SnapshotMade

\* Nobody is left behind when the status changes, but for an approval.
LEMMA StatusIsGood ==
  ASSUME NEW wf \in Snapshot, NEW body, body.id = wf.id, body.order = wf.order,
         body.steps = wf.steps, body.status # "APPROVED", Good(wf)
  PROVE  Good(body)
BY DEF Good, Passed, AllAbsent, NoneAbsent

\* The preview approves a step.
LEMMA MockApproveFacts ==
  ASSUME NEW wf \in Snapshot, NEW i \in CurrentPendingSteps(wf), wf.status = "PENDING"
  PROVE  /\ MockApprove(wf, i) \in Snapshot /\ MockApprove(wf, i).id = wf.id
         /\ wf.id = DemoId => Approval(wf, MockApprove(wf, i), i)
         /\ Good(wf) => Good(MockApprove(wf, i))
<1> DEFINE over == Others(wf, i) = {}
           f == [wf.steps EXCEPT ![i] = "APPROVED"]
           st == IF over /\ wf.order >= TotalSteps(wf.id) THEN "APPROVED" ELSE wf.status
           n == IF over /\ wf.order < TotalSteps(wf.id) THEN wf.order + 1 ELSE wf.order
           body == [wf EXCEPT !.steps = f, !.status = st, !.order = n]
<1>1. /\ wf.id \in Ids /\ wf.order \in 1..TotalSteps(wf.id) /\ TotalSteps(wf.id) \in Int
      /\ wf.steps \in [DOMAIN Plan[wf.id] -> Verdicts] /\ wf \in SnapshotOf(wf.id)
  BY SnapshotParts, PlanOrders
<1>2. i \in DOMAIN Plan[wf.id] /\ "APPROVED" \in Verdicts
  BY PendingAreSteps DEF Verdicts
<1>3. /\ f \in [DOMAIN Plan[wf.id] -> Verdicts]
      /\ \A j \in DOMAIN Plan[wf.id] : f[j] = IF j = i THEN "APPROVED" ELSE wf.steps[j]
  BY <1>1, <1>2
<1>4. st \in States /\ n \in 1..TotalSteps(wf.id)
  BY <1>1 DEF States
<1>5. MockApprove(wf, i) = body
  <2>1. CASE ~over
    <3>1. MockApprove(wf, i) = [wf EXCEPT !.steps = f]
      BY <2>1 DEF MockApprove
    <3>2. st = wf.status /\ n = wf.order
      BY <2>1
    <3> HIDE DEF st, n, f, over
    <3>3. [wf EXCEPT !.steps = f] = body
      BY <1>1, <1>3, <3>2 DEF SnapshotOf
    <3> QED
      BY <3>1, <3>3
  <2>2. CASE over
    <3>1. MockApprove(wf, i)
            = [wf EXCEPT !.steps = f,
                         !.status = IF wf.order < TotalSteps(wf.id) THEN "PENDING" ELSE "APPROVED",
                         !.order = IF wf.order < TotalSteps(wf.id) THEN wf.order + 1 ELSE wf.order]
      BY <2>2 DEF MockApprove
    <3>2. /\ st = IF wf.order < TotalSteps(wf.id) THEN "PENDING" ELSE "APPROVED"
          /\ n = IF wf.order < TotalSteps(wf.id) THEN wf.order + 1 ELSE wf.order
      BY <1>1, <2>2
    <3> HIDE DEF st, n, f, over
    <3> QED
      BY <3>1, <3>2
  <2> QED
    BY <2>1, <2>2
<1>6. wf.id = DemoId => Plan[wf.id][i].any = FALSE
  BY <1>1, <1>2, PlanOrders, WidgetAssumption
<1> HIDE DEF f, st, n
<1>7. /\ body \in Snapshot /\ body.id = wf.id
      /\ body.status = st /\ body.order = n /\ body.steps = f
  <2>1. /\ body \in SnapshotOf(wf.id)
        /\ body.id = wf.id /\ body.status = st /\ body.order = n /\ body.steps = f
    BY <1>1, <1>3, <1>4 DEF SnapshotOf
  <2> HIDE DEF body
  <2> QED
    BY <1>1, <2>1, SnapshotMade
<1> HIDE DEF body
<1>8. wf.id = DemoId => Approval(wf, body, i)
  BY <1>3, <1>6, <1>7 DEF Approval, st, n
<1>9. ASSUME Good(wf) PROVE Good(body)
  <2>1. NoneAbsent(wf) /\ wf.steps[i] = "PENDING" /\ Plan[wf.id][i].order = wf.order
    BY <1>2, <1>9 DEF Good, AllAbsent, CurrentPendingSteps, AtOrder
  <2>2. NoneAbsent(body)
    BY <1>3, <1>7, <2>1 DEF NoneAbsent
  <2>3. ASSUME NEW k \in DOMAIN Plan[wf.id], Plan[wf.id][k].order < n \/ st = "APPROVED"
        PROVE  f[k] \in Done
    <3> DEFINE order == Plan[wf.id][k].order
    <3>1. order \in Int /\ order <= TotalSteps(wf.id) /\ wf.order \in Int
      BY <1>1, PlanOrders
    <3>2. order < wf.order => wf.steps[k] \in Done
      BY <1>9 DEF Good, Passed
    <3>3. over /\ order = wf.order /\ k # i => wf.steps[k] \in Done
      <4> SUFFICES ASSUME over, order = wf.order, k # i PROVE wf.steps[k] \in Done
        OBVIOUS
      <4>1. wf.steps[k] \in Verdicts /\ wf.steps[k] # "ABSENT"
        BY <1>1, <2>1 DEF NoneAbsent
      <4>2. wf.steps[k] # "PENDING"
        BY <4>1 DEF Others, CurrentPendingSteps, AtOrder
      <4> QED
        BY <4>1, <4>2 DEF Verdicts, Done
    <3>4. order < wf.order \/ (over /\ order = wf.order)
      BY <1>1, <2>3, <3>1 DEF st, n
    <3> HIDE DEF order, over
    <3> QED
      BY <1>3, <3>2, <3>3, <3>4 DEF Done
  <2> QED
    BY <1>7, <2>2, <2>3 DEF Good, Passed
<1> QED
  BY <1>5, <1>7, <1>8, <1>9

\* A decision of the preview leaves its workflow what it is, and nobody behind.
LEMMA MockFacts ==
  ASSUME NEW wf \in Snapshot, NEW a \in Actions, NEW k,
         a = "approve" => wf.status = "PENDING" /\ k \in CurrentPendingSteps(wf)
  PROVE  /\ MockAct(wf, a, k) \in Snapshot /\ MockAct(wf, a, k).id = wf.id
         /\ Good(wf) => Good(MockAct(wf, a, k))
<1>1. CASE a = "approve"
  BY <1>1, MockApproveFacts DEF MockAct
<1>2. CASE a \in {"submit", "reject", "cancel"}
  <2>1. PICK st \in {"PENDING", "REJECTED", "CANCELLED"} : MockAct(wf, a, k) = [wf EXCEPT !.status = st]
    BY <1>2 DEF MockAct
  <2>2. st \in States
    BY DEF States
  <2> DEFINE body == [wf EXCEPT !.status = st]
  <2>3. /\ body \in Snapshot /\ body.id = wf.id /\ body.status = st
        /\ body.order = wf.order /\ body.steps = wf.steps
    BY <2>2, StatusOnly
  <2>4. st # "APPROVED"
    OBVIOUS
  <2> HIDE DEF body
  <2>5. Good(wf) => Good(body)
    BY <2>3, <2>4, StatusIsGood
  <2> QED
    BY <2>1, <2>3, <2>5 DEF body
<1> QED
  BY <1>1, <1>2 DEF Actions

\* An approval has one outcome.
LEMMA ApprovalIsUnique ==
  ASSUME NEW wf \in Snapshot, NEW b1 \in Snapshot, NEW b2 \in Snapshot, NEW i,
         Approval(wf, b1, i), Approval(wf, b2, i)
  PROVE  b1 = b2
<1>1. b1.id = wf.id /\ b2.id = wf.id /\ b1.status = b2.status /\ b1.order = b2.order
  BY DEF Approval
<1>2. b1 \in SnapshotOf(wf.id) /\ b2 \in SnapshotOf(wf.id)
  BY <1>1, SnapshotParts
<1>3. /\ b1.steps \in [DOMAIN Plan[wf.id] -> Verdicts]
      /\ b2.steps \in [DOMAIN Plan[wf.id] -> Verdicts]
  BY <1>2 DEF SnapshotOf
<1>4. \A j \in DOMAIN Plan[wf.id] : b1.steps[j] = b2.steps[j]
  BY DEF Approval
<1>5. b1.steps = b2.steps
  BY <1>3, <1>4
<1> QED
  BY <1>1, <1>2, <1>5 DEF SnapshotOf

\* What a decision of the preview shows, workflow-api answers to a request it accepts, but
\* for the verdicts a rejection leaves.
LEMMA DecisionIsServed ==
  ASSUME NEW wf \in Snapshot, NEW body, wf.id = DemoId, Decision(wf, body)
  PROVE  \E a \in Actions, i \in DOMAIN Plan[DemoId] :
           LET answer == Served(wf, a, [id |-> DemoId, step |-> i]) IN
           /\ answer # None /\ body.status = answer.status /\ body.order = answer.order
           /\ a # "reject" => body = answer
<1>1. PICK a \in Actions, k \in {0} \cup DOMAIN Plan[wf.id] :
        /\ a = "submit" => wf.status = "DRAFT"
        /\ a = "approve" => wf.status = "PENDING" /\ k \in CurrentPendingSteps(wf)
        /\ a = "reject" => wf.status = "PENDING"
        /\ a = "cancel" => wf.status \in {"DRAFT", "PENDING"}
        /\ body = MockAct(wf, a, k)
  BY DEF Decision
<1>2. 1 \in DOMAIN Plan[DemoId] /\ DemoId \in Ids
  BY PlanOrders DEF Ids
<1> DEFINE answer(i) == Served(wf, a, [id |-> DemoId, step |-> i])
<1>3. CASE a = "approve"
  <2> DEFINE target == [id |-> DemoId, step |-> k]
  <2>1. target.id = wf.id /\ target.step = k /\ k \in DOMAIN Plan[DemoId]
    BY <1>1, <1>3, PendingAreSteps
  <2>2. answer(k) = Served(wf, "approve", target)
    BY <1>3
  <2>3. body = MockApprove(wf, k) /\ wf.status = "PENDING" /\ k \in CurrentPendingSteps(wf)
    BY <1>1, <1>3 DEF MockAct
  <2> HIDE DEF target, answer
  <2>4. answer(k) \in Snapshot /\ Approval(wf, answer(k), k)
    BY <2>1, <2>2, <2>3, ServedApproves
  <2>5. body \in Snapshot /\ Approval(wf, body, k)
    BY <2>3, MockApproveFacts
  <2>6. body = answer(k) /\ answer(k) # None
    BY <2>4, <2>5, ApprovalIsUnique, SnapshotParts
  <2> QED
    BY <2>1, <2>6 DEF answer
<1>4. CASE a = "reject"
  <2> DEFINE target == [id |-> DemoId, step |-> 1]
  <2>1. answer(1) = Served(wf, "reject", target) /\ wf.status = "PENDING"
    BY <1>1, <1>4
  <2>2. body = [wf EXCEPT !.status = "REJECTED"]
    BY <1>1, <1>4 DEF MockAct
  <2> HIDE DEF target, answer
  <2>3. answer(1) # None /\ answer(1).status = "REJECTED" /\ answer(1).order = wf.order
    BY <2>1, ServedRejects
  <2>5. "REJECTED" \in States
    BY DEF States
  <2>6. body.status = "REJECTED" /\ body.order = wf.order
    BY <2>2, <2>5, StatusOnly
  <2> QED
    BY <1>2, <1>4, <2>3, <2>6 DEF answer
<1>5. CASE a \in {"submit", "cancel"}
  <2> DEFINE st == IF a = "submit" THEN "PENDING" ELSE "CANCELLED"
  <2>1. body = [wf EXCEPT !.status = st] /\ answer(1) = [wf EXCEPT !.status = st]
    <3>1. Accepts(wf, a, [id |-> DemoId, step |-> 1])
      BY <1>1, <1>5 DEF Accepts
    <3> QED
      BY <1>1, <1>5, <3>1, ServedStatus DEF MockAct
  <2> HIDE DEF answer
  <2>2. st \in States
    BY DEF States
  <2>3. body # None /\ answer(1) = body
    BY <2>1, <2>2, StatusOnly
  <2> QED
    BY <1>2, <2>3 DEF answer
<1> QED
  BY <1>3, <1>4, <1>5 DEF Actions

-----------------------------------------------------------------------------
(* Requests in flight.                                                     *)

\* a request that asks and changes nothing else
Benign(r) ==
  /\ r.kind \in {"list", "get", "create"} /\ r.pc = "sent" /\ r.body = None
  /\ r.kind = "get" => r.id \in Workflows

LEMMA AskFacts ==
  ASSUME NEW kind \in {"list", "get", "create"}, NEW tenant \in Tenants,
         NEW id \in Workflows \cup {None}, kind = "get" => id \in Workflows
  PROVE  LET r == Ask(kind, tenant, id) IN r \in Request /\ Benign(r) /\ r.kind = kind
BY DEF Ask, Request, Benign

LEMMA FetchWorkflowsFacts ==
  ASSUME NEW tenant \in Tenants, NEW selected, NEW id \in Workflows \cup {None}
  PROVE  LET r == FetchWorkflows(tenant, selected, id) IN
         r \in Request /\ Benign(r) /\ r.kind = "list"
<1> DEFINE b == (selected = None)
           r == [Ask("list", tenant, id) EXCEPT !.unselected = b]
<1>1. b \in BOOLEAN
  OBVIOUS
<1> HIDE DEF b
<1>2. r \in Request /\ Benign(r) /\ r.kind = "list"
  BY <1>1 DEF Ask, Request, Benign
<1> QED
  BY <1>2 DEF FetchWorkflows, b

\* Another request joins those in flight.
LEMMA JoinKeeps ==
  ASSUME NEW reqs, NEW seen, NEW w, NEW db, PendingInv(reqs, seen, w, db), NEW r \in Request,
         RequestInv(r, seen, w), HandlerInv(r, db), r.pc # "insert",
         Act(r) => \A i \in DOMAIN reqs : ~Act(reqs[i])
  PROVE  /\ PendingInv(Append(reqs, r), seen, w, db)
         /\ Len(Append(reqs, r)) = Len(reqs) + 1
         /\ NoneMine(reqs) /\ ~Mine(r) => NoneMine(Append(reqs, r))
<1> DEFINE more == Append(reqs, r)
<1>1. /\ reqs \in Seq(Request) /\ DOMAIN reqs = 1..Len(reqs) /\ Len(reqs) \in Nat
      /\ \A i \in DOMAIN reqs : RequestInv(reqs[i], seen, w) /\ HandlerInv(reqs[i], db)
      /\ \A i, j \in DOMAIN reqs : Act(reqs[i]) /\ Act(reqs[j]) => i = j
      /\ \A i, j \in DOMAIN reqs :
           reqs[i].pc = "insert" /\ reqs[j].pc = "insert" /\ reqs[i].id = reqs[j].id => i = j
  BY DEF PendingInv
<1>2. /\ more \in Seq(Request) /\ Len(more) = Len(reqs) + 1
      /\ DOMAIN more = 1..(Len(reqs) + 1)
      /\ \A i \in DOMAIN more : more[i] = IF i = Len(reqs) + 1 THEN r ELSE reqs[i]
      /\ \A i \in DOMAIN more : i # Len(reqs) + 1 => i \in DOMAIN reqs
  BY <1>1
<1> HIDE DEF more
<1>3. \A i \in DOMAIN more : RequestInv(more[i], seen, w) /\ HandlerInv(more[i], db)
  BY <1>1, <1>2
<1>4. \A i, j \in DOMAIN more : Act(more[i]) /\ Act(more[j]) => i = j
  BY <1>1, <1>2
<1>5. \A i, j \in DOMAIN more :
        more[i].pc = "insert" /\ more[j].pc = "insert" /\ more[i].id = more[j].id => i = j
  BY <1>1, <1>2
<1>6. NoneMine(reqs) /\ ~Mine(r) => NoneMine(more)
  BY <1>2 DEF NoneMine
<1> QED
  BY <1>2, <1>3, <1>4, <1>5, <1>6 DEF PendingInv, more

LEMMA AppendKeeps ==
  ASSUME NEW reqs, NEW seen, NEW w, NEW db, PendingInv(reqs, seen, w, db),
         NEW r \in Request, Benign(r)
  PROVE  /\ PendingInv(Append(reqs, r), seen, w, db)
         /\ Len(Append(reqs, r)) = Len(reqs) + 1
         /\ NoneMine(reqs) /\ r.kind # "get" => NoneMine(Append(reqs, r))
<1>1. /\ RequestInv(r, seen, w) /\ HandlerInv(r, db) /\ ~Act(r) /\ r.pc # "insert"
      /\ r.kind # "get" => ~Mine(r)
  BY DEF RequestInv, HandlerInv, Benign, Act, Mine
<1> QED
  BY <1>1, JoinKeeps

\* The widget asks for its workflow, unless it shows the preview.
LEMMA FetchKeeps ==
  ASSUME NEW reqs, NEW seen, NEW w, NEW db, PendingInv(reqs, seen, w, db),
         NEW mock \in BOOLEAN, NEW tenant \in Tenants, NEW id \in Workflows
  PROVE  /\ PendingInv(reqs \o FetchWorkflow(mock, tenant, id), seen, w, db)
         /\ Len(reqs \o FetchWorkflow(mock, tenant, id)) <= Len(reqs) + 1
<1>1. reqs \in Seq(Request) /\ Len(reqs) \in Nat
  BY DEF PendingInv
<1>2. CASE mock
  <2>1. reqs \o FetchWorkflow(mock, tenant, id) = reqs
    BY <1>1, <1>2 DEF FetchWorkflow
  <2> QED
    BY <1>1, <2>1
<1>3. CASE ~mock
  <2> DEFINE r == Ask("get", tenant, id)
  <2>1. r \in Request /\ Benign(r)
    BY AskFacts
  <2> HIDE DEF r
  <2>2. reqs \o FetchWorkflow(mock, tenant, id) = Append(reqs, r)
    <3>1. FetchWorkflow(mock, tenant, id) = <<r>>
      BY <1>3 DEF FetchWorkflow, r
    <3> QED
      BY <1>1, <2>1, <3>1
  <2> QED
    BY <1>1, <2>1, <2>2, AppendKeeps
<1> QED
  BY <1>2, <1>3

LEMMA ConcatFacts ==
  ASSUME NEW s \in Seq(Request), NEW t \in Seq(Request)
  PROVE  /\ s \o t \in Seq(Request) /\ Len(s \o t) = Len(s) + Len(t)
         /\ \A j \in 1..(Len(s) + Len(t)) :
              (s \o t)[j] = IF j <= Len(s) THEN s[j] ELSE t[j - Len(s)]
OBVIOUS

\* A request is over.
LEMMA WithoutFacts ==
  ASSUME pending \in Seq(Request), NEW i \in DOMAIN pending
  PROVE  /\ Without(i) \in Seq(Request) /\ Len(Without(i)) = Len(pending) - 1
         /\ \A j \in DOMAIN Without(i) :
              LET k == IF j < i THEN j ELSE j + 1 IN
              k \in DOMAIN pending /\ k # i /\ Without(i)[j] = pending[k]
<1> DEFINE n == Len(pending)
           before == SubSeq(pending, 1, i - 1)
           after == SubSeq(pending, i + 1, n)
<1>1. n \in Nat /\ i \in 1..n /\ DOMAIN pending = 1..n
  OBVIOUS
<1>2. /\ before \in Seq(Request) /\ Len(before) = i - 1
      /\ \A j \in 1..(i - 1) : before[j] = pending[j]
  BY <1>1
<1>3. /\ after \in Seq(Request) /\ Len(after) = n - i
      /\ \A j \in 1..(n - i) : after[j] = pending[j + i]
  BY <1>1
<1>4. Without(i) = before \o after
  BY DEF Without
<1> HIDE DEF before, after, n
<1>5. /\ Without(i) \in Seq(Request) /\ Len(Without(i)) = n - 1
      /\ \A j \in 1..(n - 1) :
           Without(i)[j] = IF j <= i - 1 THEN before[j] ELSE after[j - (i - 1)]
  <2>1. i - 1 \in Nat /\ n - i \in Nat /\ (i - 1) + (n - i) = n - 1
    BY <1>1
  <2>2. /\ before \o after \in Seq(Request) /\ Len(before \o after) = (i - 1) + (n - i)
        /\ \A j \in 1..((i - 1) + (n - i)) :
             (before \o after)[j] = IF j <= i - 1 THEN before[j] ELSE after[j - (i - 1)]
    BY <1>2, <1>3, <2>1, ConcatFacts
  <2> QED
    BY <1>4, <2>1, <2>2
<1>6. ASSUME NEW j \in DOMAIN Without(i)
      PROVE  LET k == IF j < i THEN j ELSE j + 1 IN
             k \in DOMAIN pending /\ k # i /\ Without(i)[j] = pending[k]
  <2>1. j \in 1..(n - 1)
    BY <1>5
  <2>2. CASE j < i
    BY <1>1, <1>2, <1>5, <2>1, <2>2
  <2>3. CASE ~(j < i)
    <3>1. j - (i - 1) \in 1..(n - i) /\ (j - (i - 1)) + i = j + 1
      BY <1>1, <2>1, <2>3
    <3>2. Without(i)[j] = after[j - (i - 1)]
      BY <1>1, <1>5, <2>1, <2>3
    <3>3. after[j - (i - 1)] = pending[j + 1]
      BY <1>3, <3>1
    <3>4. Without(i)[j] = pending[j + 1]
      BY <3>2, <3>3
    <3> QED
      BY <1>1, <2>1, <2>3, <3>4
  <2> QED
    BY <2>2, <2>3
<1> QED
  BY <1>5, <1>6 DEF n

LEMMA WithoutKeeps ==
  ASSUME NEW seen, NEW w, NEW db, PendingInv(pending, seen, w, db), NEW i \in DOMAIN pending
  PROVE  /\ PendingInv(Without(i), seen, w, db)
         /\ Len(Without(i)) = Len(pending) - 1
         /\ NoneMine(pending) => NoneMine(Without(i))
         /\ Act(pending[i]) => \A j \in DOMAIN Without(i) : ~Act(Without(i)[j])
<1>1. /\ pending \in Seq(Request)
      /\ \A j \in DOMAIN pending : RequestInv(pending[j], seen, w) /\ HandlerInv(pending[j], db)
      /\ \A j, k \in DOMAIN pending : Act(pending[j]) /\ Act(pending[k]) => j = k
      /\ \A j, k \in DOMAIN pending :
           pending[j].pc = "insert" /\ pending[k].pc = "insert" /\ pending[j].id = pending[k].id
             => j = k
  BY DEF PendingInv
<1> DEFINE from(j) == IF j < i THEN j ELSE j + 1
<1>2. /\ Without(i) \in Seq(Request) /\ Len(Without(i)) = Len(pending) - 1
      /\ \A j \in DOMAIN Without(i) :
           from(j) \in DOMAIN pending /\ from(j) # i /\ Without(i)[j] = pending[from(j)]
  BY <1>1, WithoutFacts
<1>3. \A j, k \in DOMAIN Without(i) : from(j) = from(k) => j = k
  <2>1. DOMAIN Without(i) \subseteq Int /\ i \in Int
    BY <1>1, <1>2
  <2> QED
    BY <2>1
<1> HIDE DEF from
<1>4. \A j \in DOMAIN Without(i) : 
        RequestInv(Without(i)[j], seen, w) /\ HandlerInv(Without(i)[j], db)
  BY <1>1, <1>2
<1>5. \A j, k \in DOMAIN Without(i) : Act(Without(i)[j]) /\ Act(Without(i)[k]) => j = k
  BY <1>1, <1>2, <1>3
<1>6. NoneMine(pending) => NoneMine(Without(i))
  BY <1>2 DEF NoneMine
<1>7. Act(pending[i]) => \A j \in DOMAIN Without(i) : ~Act(Without(i)[j])
  BY <1>1, <1>2
<1>8. \A j, k \in DOMAIN Without(i) :
        Without(i)[j].pc = "insert" /\ Without(i)[k].pc = "insert"
          /\ Without(i)[j].id = Without(i)[k].id => j = k
  BY <1>1, <1>2, <1>3
<1> QED
  BY <1>2, <1>4, <1>5, <1>6, <1>7, <1>8 DEF PendingInv

\* Without the widget nothing in flight is its own, and any widget may follow.
LEMMA OrphanFacts ==
  ASSUME NEW reqs, NEW seen, NEW w, NEW db, PendingInv(reqs, seen, w, db)
  PROVE  /\ PendingInv(Orphan(reqs), seen, Mounted, db)
         /\ Len(Orphan(reqs)) = Len(reqs)
         /\ NoneMine(Orphan(reqs))
<1> DEFINE lost == Orphan(reqs)
<1>1. /\ reqs \in Seq(Request) /\ DOMAIN reqs = 1..Len(reqs) /\ Len(reqs) \in Nat
      /\ \A i \in DOMAIN reqs : reqs[i] \in Request /\ RequestInv(reqs[i], seen, w)
                                /\ HandlerInv(reqs[i], db)
      /\ \A i, j \in DOMAIN reqs :
           reqs[i].pc = "insert" /\ reqs[j].pc = "insert" /\ reqs[i].id = reqs[j].id => i = j
  BY DEF PendingInv
<1>2. DOMAIN lost = DOMAIN reqs /\ \A i \in DOMAIN reqs : lost[i] = [reqs[i] EXCEPT !.mine = FALSE]
  BY DEF Orphan
<1> HIDE DEF lost
<1>3. ASSUME NEW i \in DOMAIN reqs
      PROVE  /\ lost[i] \in Request /\ lost[i].mine = FALSE
             /\ lost[i].kind = reqs[i].kind /\ lost[i].id = reqs[i].id
             /\ lost[i].pc = reqs[i].pc /\ lost[i].action = reqs[i].action
             /\ lost[i].target = reqs[i].target /\ lost[i].body = reqs[i].body
             /\ lost[i].asker = reqs[i].asker /\ lost[i].toSkip = reqs[i].toSkip
  <2>1. reqs[i] \in Request /\ lost[i] = [reqs[i] EXCEPT !.mine = FALSE]
    BY <1>1, <1>2
  <2> QED
    BY <2>1 DEF Request
<1>4. \A i \in DOMAIN lost : /\ RequestInv(lost[i], seen, Mounted) /\ HandlerInv(lost[i], db)
                             /\ ~Act(lost[i]) /\ ~Mine(lost[i])
  <2> SUFFICES ASSUME NEW i \in DOMAIN reqs
               PROVE  /\ RequestInv(lost[i], seen, Mounted) /\ HandlerInv(lost[i], db)
                      /\ ~Act(lost[i]) /\ ~Mine(lost[i])
    BY <1>2
  <2>1. ~Act(lost[i]) /\ ~Mine(lost[i])
    BY <1>3 DEF Act, Mine
  <2>2. RequestInv(reqs[i], seen, w) /\ HandlerInv(reqs[i], db)
    BY <1>1
  <2>3. RequestInv(lost[i], seen, Mounted)
    BY <1>3, <2>1, <2>2 DEF RequestInv
  <2>4. HandlerInv(lost[i], db)
    BY <1>3, <2>2 DEF HandlerInv, Writing
  <2> QED
    BY <2>1, <2>3, <2>4
<1>5. lost \in [1..Len(reqs) -> Request]
  BY <1>1, <1>2, <1>3 DEF lost, Orphan
<1>6. lost \in Seq(Request) /\ Len(lost) = Len(reqs)
  BY <1>1, <1>5
<1>7. PendingInv(lost, seen, Mounted, db)
  <2>1. \A i, j \in DOMAIN lost :
          lost[i].pc = "insert" /\ lost[j].pc = "insert" /\ lost[i].id = lost[j].id => i = j
    BY <1>1, <1>2, <1>3
  <2> QED
    BY <1>4, <1>6, <2>1 DEF PendingInv
<1> QED
  BY <1>4, <1>6, <1>7 DEF NoneMine, lost

\* The widget keeps what its decisions need: it stays with the workflow decided on, or
\* turns to one of workflow-api's.
LEMMA WidgetKeeps ==
  ASSUME NEW reqs, NEW seen, NEW w, NEW db, PendingInv(reqs, seen, w, db),
         NEW more, seen \subseteq more, NEW w2,
         w.acting => w2.acting, w.mock => w2.mock,
         \/ w2.wf = w.wf
         \/ w.wf = None
         \/ w2.wf # None /\ w2.wf.id # DemoId
  PROVE  PendingInv(reqs, more, w2, db)
<1>1. /\ reqs \in Seq(Request)
      /\ \A i \in DOMAIN reqs : RequestInv(reqs[i], seen, w) /\ HandlerInv(reqs[i], db)
      /\ \A i, j \in DOMAIN reqs : Act(reqs[i]) /\ Act(reqs[j]) => i = j
      /\ \A i, j \in DOMAIN reqs :
           reqs[i].pc = "insert" /\ reqs[j].pc = "insert" /\ reqs[i].id = reqs[j].id => i = j
  BY DEF PendingInv
<1>2. ASSUME NEW i \in DOMAIN reqs PROVE RequestInv(reqs[i], more, w2)
  <2>1. RequestInv(reqs[i], seen, w)
    BY <1>1
  <2> QED
    BY <2>1 DEF RequestInv
<1> QED
  BY <1>1, <1>2 DEF PendingInv

\* When no decision is in flight the widget may turn to anything.
LEMMA IdleWidgetKeeps ==
  ASSUME NEW reqs, NEW seen, NEW w, NEW db, PendingInv(reqs, seen, w, db), NEW w2,
         \A i \in DOMAIN reqs : ~Act(reqs[i])
  PROVE  PendingInv(reqs, seen, w2, db)
<1>1. /\ reqs \in Seq(Request)
      /\ \A i \in DOMAIN reqs : RequestInv(reqs[i], seen, w) /\ HandlerInv(reqs[i], db)
      /\ \A i, j \in DOMAIN reqs :
           reqs[i].pc = "insert" /\ reqs[j].pc = "insert" /\ reqs[i].id = reqs[j].id => i = j
  BY DEF PendingInv
<1>2. ASSUME NEW i \in DOMAIN reqs PROVE RequestInv(reqs[i], seen, w2)
  <2>1. RequestInv(reqs[i], seen, w) /\ ~Act(reqs[i])
    BY <1>1
  <2> QED
    BY <2>1 DEF RequestInv, Act
<1> QED
  BY <1>1, <1>2 DEF PendingInv

\* one of the requests has become r
Answered(more, reqs, i, r) == more = [reqs EXCEPT ![i] = r]

\* One of the requests in flight moves on, and with it perhaps the database.
LEMMA ChangeKeeps ==
  ASSUME NEW reqs, NEW seen, NEW w, NEW db, PendingInv(reqs, seen, w, db), NEW i \in DOMAIN reqs,
         NEW r \in Request, RequestInv(r, seen, w),
         r.kind = reqs[i].kind, r.mine => reqs[i].mine,
         NEW db2, HandlerInv(r, db2), \A j \in DOMAIN reqs : j # i => HandlerInv(reqs[j], db2),
         r.pc = "insert" =>
           \A j \in DOMAIN reqs : j # i /\ reqs[j].pc = "insert" => reqs[j].id # r.id,
         NEW more, Answered(more, reqs, i, r)
  PROVE  /\ PendingInv(more, seen, w, db2) /\ Len(more) = Len(reqs)
         /\ NoneMine(reqs) => NoneMine(more)
<1>1. /\ reqs \in Seq(Request)
      /\ \A j \in DOMAIN reqs : RequestInv(reqs[j], seen, w)
      /\ \A j, k \in DOMAIN reqs : Act(reqs[j]) /\ Act(reqs[k]) => j = k
      /\ \A j, k \in DOMAIN reqs :
           reqs[j].pc = "insert" /\ reqs[k].pc = "insert" /\ reqs[j].id = reqs[k].id => j = k
  BY DEF PendingInv
<1>2. /\ more \in Seq(Request) /\ Len(more) = Len(reqs) /\ DOMAIN more = DOMAIN reqs
      /\ \A j \in DOMAIN reqs : more[j] = IF j = i THEN r ELSE reqs[j]
  BY <1>1 DEF Answered
<1>3. \A j \in DOMAIN reqs : (Act(more[j]) => Act(reqs[j])) /\ (Mine(more[j]) => Mine(reqs[j]))
  BY <1>2 DEF Act, Mine
<1>4. \A j \in DOMAIN more : RequestInv(more[j], seen, w) /\ HandlerInv(more[j], db2)
  BY <1>1, <1>2
<1>5. \A j, k \in DOMAIN more :
        more[j].pc = "insert" /\ more[k].pc = "insert" /\ more[j].id = more[k].id => j = k
  BY <1>1, <1>2
<1>6. PendingInv(more, seen, w, db2)
  BY <1>1, <1>2, <1>3, <1>4, <1>5 DEF PendingInv
<1>7. NoneMine(reqs) => NoneMine(more)
  BY <1>2, <1>3 DEF NoneMine
<1> QED
  BY <1>2, <1>6, <1>7

\* A handler moves on, and is forgotten if it is done and nobody waits here.
LEMMA HandledKeeps ==
  ASSUME NEW seen, NEW w, NEW db, PendingInv(pending, seen, w, db), NEW i \in DOMAIN pending,
         NEW r \in Request, RequestInv(r, seen, w),
         r.kind = pending[i].kind, r.mine = pending[i].mine,
         NEW db2, HandlerInv(r, db2),
         \A j \in DOMAIN pending : j # i => HandlerInv(pending[j], db2),
         r.pc = "insert" =>
           \A j \in DOMAIN pending : j # i /\ pending[j].pc = "insert" => pending[j].id # r.id,
         Handled(i, r)
  PROVE  /\ PendingInv(pending', seen, w, db2) /\ Len(pending') <= Len(pending)
         /\ NoneMine(pending) => NoneMine(pending')
<1>1. pending \in Seq(Request) /\ Len(pending) \in Nat
  BY DEF PendingInv
<1>2. CASE pending' = Without(i)
  <2>1. /\ PendingInv(Without(i), seen, w, db) /\ Len(Without(i)) = Len(pending) - 1
        /\ NoneMine(pending) => NoneMine(Without(i))
    BY WithoutKeeps
  <2>2. \A j \in DOMAIN Without(i) : HandlerInv(Without(i)[j], db2)
    BY <1>1, WithoutFacts
  <2>3. PendingInv(Without(i), seen, w, db2)
    BY <2>1, <2>2 DEF PendingInv
  <2> QED
    BY <1>1, <1>2, <2>1, <2>3
<1>3. CASE pending' = [pending EXCEPT ![i] = r]
  <2>1. Answered(pending', pending, i, r)
    BY <1>3 DEF Answered
  <2>2. /\ PendingInv(pending', seen, w, db2) /\ Len(pending') = Len(pending)
        /\ NoneMine(pending) => NoneMine(pending')
    BY <2>1, ChangeKeeps
  <2> QED
    BY <1>1, <2>2
<1> QED
  BY <1>2, <1>3 DEF Handled

-----------------------------------------------------------------------------
(* The widget.                                                             *)

LEMMA MountedFacts == WidgetInv(Mounted) /\ Mounted.mock = FALSE /\ Mounted.wf = None
BY DEF Mounted, WidgetInv, Widget

LEMMA LoadingFacts ==
  ASSUME NEW w, WidgetInv(w)
  PROVE  /\ WidgetInv(Loading(w))
         /\ Loading(w).wf = w.wf /\ Loading(w).mock = w.mock /\ Loading(w).acting = w.acting
<1>1. CASE w.wf # None
  <2>1. Loading(w) = w
    BY <1>1 DEF Loading
  <2> QED
    BY <2>1
<1>2. CASE w.wf = None
  <2>1. w \in Widget /\ ~w.modal
    BY <1>2 DEF WidgetInv
  <2>2. Loading(w) = [w EXCEPT !.screen = "loading"]
    BY <1>2 DEF Loading
  <2>3. /\ Loading(w) \in Widget /\ Loading(w).screen = "loading" /\ ~Loading(w).modal
        /\ Loading(w).wf = w.wf /\ Loading(w).mock = w.mock /\ Loading(w).acting = w.acting
    BY <2>1, <2>2 DEF Widget
  <2> QED
    BY <1>2, <2>3 DEF WidgetInv
<1> QED
  BY <1>1, <1>2

\* A selection mounts the widget, moves it on or unmounts it.
LEMMA SelectingKeeps ==
  ASSUME NEW reqs, WidgetInv(widget), PendingInv(reqs, shown, widget, server),
         host.selected = None => widget = Mounted /\ NoneMine(reqs),
         NEW id \in Workflows \cup {None}, NEW tenant \in Tenants,
         Selecting(id, tenant, reqs)
  PROVE  /\ WidgetInv(widget') /\ PendingInv(pending', shown, widget', server)
         /\ Len(pending') <= Len(reqs) + 1
         /\ id = None => widget' = Mounted /\ NoneMine(pending')
<1>1. Len(reqs) \in Nat
  BY DEF PendingInv
<1>2. CASE id = None
  <2>1. widget' = Mounted /\ pending' = Orphan(reqs)
    BY <1>2 DEF Selecting
  <2> QED
    BY <1>1, <2>1, OrphanFacts, MountedFacts
<1>3. CASE id # None /\ ~IsMounted
  <2>1. widget' = Mounted /\ pending' = reqs \o FetchWorkflow(FALSE, tenant, id)
    BY <1>3 DEF Selecting
  <2>2. PendingInv(reqs, shown, Mounted, server)
    BY <1>3 DEF IsMounted
  <2>3. FALSE \in BOOLEAN /\ id \in Workflows
    BY <1>3
  <2> QED
    BY <1>3, <2>1, <2>2, <2>3, FetchKeeps, MountedFacts
<1>4. CASE id # None /\ IsMounted
  <2>1. widget' = Loading(widget) /\ pending' = reqs \o FetchWorkflow(widget.mock, tenant, id)
    BY <1>4 DEF Selecting
  <2>2. WidgetInv(widget') /\ widget'.wf = widget.wf /\ widget'.mock = widget.mock
        /\ widget'.acting = widget.acting
    BY <2>1, LoadingFacts
  <2>3. PendingInv(reqs, shown, widget', server)
    BY <2>2, WidgetKeeps
  <2>4. widget.mock \in BOOLEAN /\ id \in Workflows
    BY <1>4 DEF WidgetInv, Widget
  <2> QED
    BY <1>4, <2>1, <2>2, <2>3, <2>4, FetchKeeps
<1> QED
  BY <1>2, <1>3, <1>4

\* A workflow that has just been created.
LEMMA FreshFacts ==
  ASSUME NEW id \in Ids
  PROVE  /\ Fresh(id) \in Snapshot /\ Fresh(id) # None /\ Fresh(id).id = id
         /\ Fresh(id).status = "DRAFT"
         /\ Good(Fresh(id)) /\ NoneAbsent(Fresh(id))
<1>1. /\ TotalSteps(id) \in Nat /\ 1 <= TotalSteps(id)
      /\ \A i \in DOMAIN Plan[id] : Plan[id][i].order \in Nat /\ 1 <= Plan[id][i].order
  BY PlanOrders
<1>2. Fresh(id) \in SnapshotOf(id) /\ Fresh(id).status = "DRAFT"
  BY <1>1 DEF Fresh, SnapshotOf, States, Verdicts
<1>3. /\ Fresh(id).order = 1 /\ Fresh(id).id = id
      /\ \A i \in DOMAIN Plan[id] : Fresh(id).steps[i] = "PENDING"
  BY DEF Fresh
<1>4. Fresh(id) \in Snapshot /\ Fresh(id) # None
  BY <1>2, SnapshotMade
<1>5. \A i \in DOMAIN Plan[id] : ~(Plan[id][i].order < 1)
  BY <1>1
<1> QED
  BY <1>2, <1>3, <1>4, <1>5 DEF Good, Passed, AllAbsent, NoneAbsent

LEMMA FreshPending ==
  ASSUME NEW id \in Ids
  PROVE  LET body == [Fresh(id) EXCEPT !.status = "PENDING"] IN
         body \in Snapshot /\ body # None /\ body.id = id /\ Good(body)
<1> DEFINE body == [Fresh(id) EXCEPT !.status = "PENDING"]
<1>1. Fresh(id) \in Snapshot /\ Fresh(id).id = id /\ Good(Fresh(id))
  BY FreshFacts
<1>2. "PENDING" \in States
  BY DEF States
<1> HIDE DEF body
<1>3. /\ body \in Snapshot /\ body # None /\ body.id = id /\ body.status = "PENDING"
      /\ body.order = Fresh(id).order /\ body.steps = Fresh(id).steps
  <2>1. LET b == [Fresh(id) EXCEPT !.status = "PENDING"] IN
        /\ b \in Snapshot /\ b # None
        /\ b.id = Fresh(id).id /\ b.status = "PENDING"
        /\ b.order = Fresh(id).order /\ b.steps = Fresh(id).steps
    BY <1>1, <1>2, StatusOnly
  <2> QED
    BY <1>1, <2>1 DEF body
<1>4. Good(body)
  BY <1>1, <1>3, StatusIsGood
<1> QED
  BY <1>3, <1>4 DEF body

\* The step a decision of the widget is about: 0, or one that awaits a verdict.
LEMMA PrimaryStep ==
  ASSUME NEW user, NEW wf \in Snapshot
  PROVE  /\ PrimaryApprovableStep(user, wf) \in {0} \cup DOMAIN Plan[wf.id]
         /\ ApprovableSteps(user, wf) # {}
              => PrimaryApprovableStep(user, wf) \in CurrentPendingSteps(wf)
<1> DEFINE S == ApprovableSteps(user, wf)
<1>1. S \subseteq CurrentPendingSteps(wf)
  BY DEF ApprovableSteps
<1>2. wf.id \in Ids
  BY SnapshotParts
<1>3. S \subseteq DOMAIN Plan[wf.id]
  BY <1>1, PendingAreSteps
<1>4. DOMAIN Plan[wf.id] \subseteq Int /\ IsFiniteSet(DOMAIN Plan[wf.id])
  BY <1>2, PlanOrders
<1>5. IsFiniteSet(S) /\ S \subseteq Int
  BY <1>3, <1>4, FS_Subset
<1> HIDE DEF S
<1>6. S # {} => Min(S) \in S
  BY <1>5, MinIsLeast
<1> QED
  BY <1>1, <1>3, <1>6 DEF PrimaryApprovableStep, S

-----------------------------------------------------------------------------
(* The invariant holds at first, and every action keeps it.                *)

LEMMA InitInvariant ==
  ASSUME Init
  PROVE  IInv
<1> DEFINE first == FetchWorkflows(session.tenant, None, None)
<1>1. session \in [tenant : Tenants, user : Users] /\ session.tenant \in Tenants
  BY DEF Init
<1>2. first \in Request /\ Benign(first) /\ first.kind = "list"
  BY <1>1, FetchWorkflowsFacts
<1>3. pending = <<first>> /\ widget = Mounted /\ shown = {} /\ approved = {}
      /\ inputs = 0 /\ faults = 0
      /\ host = [rows |-> {}, selected |-> None, form |-> FALSE]
      /\ page \in {"expenses", "approvals"}
  BY DEF Init
<1> HIDE DEF first
<1>4. ServerInv
  <2> SUFFICES ASSUME NEW w \in Workflows, server[w] # None
               PROVE  server[w].id = w /\ Good(server[w])
    BY DEF Init, ServerInv
  <2>1. w \in Ids /\ server[w] \in {Fresh(w), [Fresh(w) EXCEPT !.status = "PENDING"]}
    BY DEF Init, Ids
  <2> QED
    BY <2>1, FreshFacts, FreshPending
<1>5. PendingInv(<<>>, shown, Mounted, server) /\ NoneMine(<<>>)
  BY DEF PendingInv, NoneMine
<1>6. /\ PendingInv(Append(<<>>, first), shown, Mounted, server) /\ NoneMine(Append(<<>>, first))
  BY <1>2, <1>5, AppendKeeps
<1>7. pending = Append(<<>>, first) /\ Len(pending) = 1
  BY <1>3
<1>8. RestInv
  BY <1>1, <1>3, <1>7, PagesAssumption DEF RestInv
<1> QED
  BY <1>3, <1>4, <1>6, <1>7, <1>8, MountedFacts DEF IInv, UnmountedInv

\* What the invariant says of one request in flight.
LEMMA PendingFacts ==
  ASSUME IInv, NEW i \in DOMAIN pending
  PROVE  /\ pending \in Seq(Request) /\ Len(pending) \in Nat /\ Len(pending) >= 1
         /\ pending[i] \in Request /\ RequestInv(pending[i], shown, widget)
         /\ HandlerInv(pending[i], server)
         /\ pending[i].tenant \in Tenants /\ pending[i].id \in Workflows \cup {None}
         /\ pending[i].rows \in SUBSET Workflows /\ pending[i].body \in Snapshot \cup {None}
         /\ pending[i].toSkip \in SUBSET Nat /\ pending[i].mine \in BOOLEAN
<1>1. /\ pending \in Seq(Request)
      /\ \A j \in DOMAIN pending :
           RequestInv(pending[j], shown, widget) /\ HandlerInv(pending[j], server)
  BY DEF IInv, PendingInv
<1>2. pending[i] \in Request /\ Len(pending) \in Nat /\ Len(pending) >= 1
  BY <1>1
<1> QED
  BY <1>1, <1>2 DEF Request

\* A target is told by its two fields.
LEMMA TargetIs ==
  ASSUME NEW t \in Targets
  PROVE  t = [id |-> t.id, step |-> t.step] /\ t.id \in Ids /\ t.step \in {0} \cup DOMAIN Plan[t.id]
BY DEF Targets

-----------------------------------------------------------------------------
(* The handlers of workflow-api.                                           *)

\* Once a handler has moved on.
LEMMA HandlerStep ==
  ASSUME IInv, NEW i \in DOMAIN pending, NEW r \in Request, RequestInv(r, shown, widget),
         r.kind = pending[i].kind, r.mine = pending[i].mine, Handled(i, r),
         HandlerInv(r, server'),
         \A j \in DOMAIN pending : j # i => HandlerInv(pending[j], server'),
         r.pc = "insert" =>
           \A j \in DOMAIN pending : j # i /\ pending[j].pc = "insert" => pending[j].id # r.id,
         ServerInv', approved' \subseteq shown, faults' \in 0..MaxFaults,
         UNCHANGED <<page, session, host, widget, shown, inputs>>
  PROVE  IInv'
<1>1. PendingInv(pending, shown, widget, server) /\ Len(pending) <= MaxPending + 1
  BY DEF IInv, RestInv
<1>2. /\ PendingInv(pending', shown, widget, server') /\ Len(pending') <= Len(pending)
      /\ NoneMine(pending) => NoneMine(pending')
  BY <1>1, HandledKeeps
<1>3. Len(pending') <= MaxPending + 1
  <2>1. Len(pending) \in Nat /\ Len(pending') \in Nat
    BY <1>1, <1>2 DEF PendingInv
  <2> QED
    BY <1>1, <1>2, <2>1, PagesAssumption
<1>4. RestInv'
  BY <1>3 DEF IInv, RestInv
<1>5. UnmountedInv'
  BY <1>2 DEF IInv, UnmountedInv
<1> QED
  BY <1>2, <1>4, <1>5 DEF IInv

\* What has a verdict keeps one, and what has been inserted stays.
Progress(db, db2) ==
  \A w \in Workflows : db[w] # None =>
    /\ db2[w] # None
    /\ \A k \in DOMAIN Plan[w] : /\ db[w].steps[k] \in Done => db2[w].steps[k] \in Done
                                 /\ db[w].steps[k] # "ABSENT" => db2[w].steps[k] # "ABSENT"

\* The other handlers can go on with what they have read.
LEMMA OthersKeep ==
  ASSUME IInv, NEW i \in DOMAIN pending, NEW db2, Progress(server, db2),
         \A j \in DOMAIN pending :
           j # i /\ pending[j].pc = "insert" => AllAbsent(db2[pending[j].id])
  PROVE  \A j \in DOMAIN pending : j # i => HandlerInv(pending[j], db2)
<1> SUFFICES ASSUME NEW j \in DOMAIN pending, j # i PROVE HandlerInv(pending[j], db2)
  OBVIOUS
<1> DEFINE r == pending[j]
<1>1. r \in Request /\ RequestInv(r, shown, widget) /\ HandlerInv(r, server)
  BY PendingFacts
<1>2. r.pc = "insert" => AllAbsent(db2[r.id])
  OBVIOUS
<1> HIDE DEF r
<1>3. r.pc \notin {"sent", "reread", "answered"} =>
        /\ r.id \in Workflows /\ server[r.id] # None /\ db2[r.id] # None
        /\ \A k \in DOMAIN Plan[r.id] :
             /\ server[r.id].steps[k] \in Done => db2[r.id].steps[k] \in Done
             /\ server[r.id].steps[k] # "ABSENT" => db2[r.id].steps[k] # "ABSENT"
  BY <1>1 DEF HandlerInv, Progress
<1>4. r.pc \in {"decide", "steps", "mark", "update"} =>
        r.body # None /\ Passed(r.body, db2[r.id].steps)
  <2> SUFFICES ASSUME r.pc \in {"decide", "steps", "mark", "update"}
               PROVE  r.body # None /\ Passed(r.body, db2[r.id].steps)
    OBVIOUS
  <2>1. r.body # None /\ r.body.id = r.id /\ Passed(r.body, server[r.id].steps)
    BY <1>1 DEF HandlerInv, RequestInv
  <2> QED
    BY <1>3, <2>1 DEF Passed
<1>5. r.pc \in {"mark", "update"} => Writing(r, db2[r.id])
  <2> SUFFICES ASSUME r.pc \in {"mark", "update"} PROVE Writing(r, db2[r.id])
    OBVIOUS
  <2>1. Writing(r, server[r.id])
    BY <1>1 DEF HandlerInv
  <2> QED
    BY <1>3, <2>1 DEF Writing
<1>6. r.pc \in {"sent", "reread", "answered", "decide", "steps", "mark", "update", "insert"}
  BY <1>1 DEF Request
<1>7. HandlerInv(r, db2)
  BY <1>2, <1>3, <1>4, <1>5, <1>6 DEF HandlerInv
<1> QED
  BY <1>7 DEF r

\* A workflow in the database.
LEMMA ServerFacts ==
  ASSUME IInv, NEW w \in Workflows, server[w] # None
  PROVE  /\ w \in Ids /\ server[w] \in Snapshot /\ server[w] \in SnapshotOf(w)
         /\ server[w].id = w /\ Good(server[w])
         /\ server[w].order \in 1..TotalSteps(w) /\ server[w].status \in States
         /\ server[w].steps \in [DOMAIN Plan[w] -> Verdicts]
<1>1. w \in Ids /\ server[w] \in Snapshot /\ server[w].id = w /\ Good(server[w])
  BY DEF IInv, ServerInv, Ids
<1> QED
  BY <1>1, SnapshotParts

\* A row without its steps.
LEMMA RowFacts ==
  ASSUME NEW wf \in Snapshot
  PROVE  /\ RowOf(wf) \in Snapshot /\ RowOf(wf) # None /\ RowOf(wf).id = wf.id
         /\ RowOf(wf).order = wf.order /\ RowOf(wf).status = wf.status
         /\ AllAbsent(RowOf(wf))
<1> DEFINE f == [k \in DOMAIN Plan[wf.id] |-> "ABSENT"]
           row == [wf EXCEPT !.steps = f]
<1>1. wf.id \in Ids /\ wf \in SnapshotOf(wf.id)
  BY SnapshotParts
<1>2. f \in [DOMAIN Plan[wf.id] -> Verdicts] /\ \A k \in DOMAIN Plan[wf.id] : f[k] = "ABSENT"
  BY DEF Verdicts
<1>3. RowOf(wf) = row
  BY DEF RowOf
<1> HIDE DEF f
<1>4. /\ row \in SnapshotOf(wf.id) /\ row.id = wf.id
      /\ row.order = wf.order /\ row.status = wf.status /\ row.steps = f
  BY <1>1, <1>2 DEF SnapshotOf
<1> HIDE DEF row
<1>5. row \in Snapshot /\ row # None
  BY <1>1, <1>4, SnapshotMade
<1> QED
  BY <1>2, <1>3, <1>4, <1>5 DEF AllAbsent

\* A row with the steps of the second SELECT.
LEMMA LoadedFacts ==
  ASSUME IInv, NEW r \in Request, r.id \in Workflows, server[r.id] # None, r.body # None,
         r.body.id = r.id, Passed(r.body, server[r.id].steps)
  PROVE  /\ Loaded(r) \in Snapshot /\ Loaded(r) # None /\ Loaded(r).id = r.id
         /\ Loaded(r).order = r.body.order /\ Loaded(r).status = r.body.status
         /\ Loaded(r).steps = server[r.id].steps /\ Good(Loaded(r))
<1> DEFINE row == server[r.id]
           body == r.body
           wf == [body EXCEPT !.steps = row.steps]
<1>1. /\ r.id \in Ids /\ row.id = r.id /\ Good(row)
      /\ row.steps \in [DOMAIN Plan[r.id] -> Verdicts]
  BY ServerFacts
<1>2. body \in Snapshot /\ body.id = r.id
  BY DEF Request
<1>3. Loaded(r) = wf
  BY DEF Loaded
<1> HIDE DEF row, body
<1>4. body \in SnapshotOf(r.id)
  BY <1>2, SnapshotParts
<1>5. /\ wf \in SnapshotOf(r.id) /\ wf.id = r.id
      /\ wf.order = body.order /\ wf.status = body.status /\ wf.steps = row.steps
  BY <1>1, <1>4 DEF SnapshotOf
<1> HIDE DEF wf
<1>6. wf \in Snapshot /\ wf # None
  BY <1>1, <1>5, SnapshotMade
<1>7. Passed(body, row.steps)
  BY DEF body, row
<1>8. Good(wf)
  BY <1>1, <1>2, <1>5, <1>7 DEF Good, Passed, AllAbsent, NoneAbsent
<1> QED
  BY <1>3, <1>5, <1>6, <1>8 DEF body, row

\* What a decision marks and skips are steps that it has read.
LEMMA MarkedFacts ==
  ASSUME NEW wf \in Snapshot, NEW a \in Actions, NEW target, Accepts(wf, a, target)
  PROVE  /\ \A k \in Marked(wf, a, target) \cup Skipped(wf, a, target) :
              k \in DOMAIN Plan[wf.id] /\ wf.steps[k] # "ABSENT"
         /\ a = "approve" => /\ Marked(wf, a, target) = {target.step} /\ target.id = wf.id
                             /\ target.step \in CurrentPendingSteps(wf)
<1>1. /\ CurrentPendingSteps(wf) \subseteq AtOrder(wf, wf.order)
      /\ \A k \in AtOrder(wf, wf.order) : k \in DOMAIN Plan[wf.id] /\ wf.steps[k] # "ABSENT"
  BY DEF CurrentPendingSteps, AtOrder
<1>2. a = "approve" => /\ Marked(wf, a, target) = {target.step} /\ target.id = wf.id
                       /\ target.step \in CurrentPendingSteps(wf)
  BY DEF Accepts, Marked
<1>3. Skipped(wf, a, target) \subseteq CurrentPendingSteps(wf)
  BY DEF Skipped
<1>4. a # "approve" => Marked(wf, a, target) \subseteq AtOrder(wf, wf.order)
  BY <1>1 DEF Marked, First
<1> QED
  BY <1>1, <1>2, <1>3, <1>4

\* When an approval resolves the level, everybody of the level has a verdict, or is given one.
LEMMA ResolvedLevel ==
  ASSUME NEW wf \in Snapshot, Good(wf), NEW target, Accepts(wf, "approve", target),
         Resolves(wf, target.step), NEW k \in DOMAIN Plan[wf.id],
         Plan[wf.id][k].order = wf.order
  PROVE  wf.steps[k] \in Done \/ k \in Skipped(wf, "approve", target) \/ k = target.step
<1>1. wf.id \in Ids /\ wf.steps \in [DOMAIN Plan[wf.id] -> Verdicts]
  BY SnapshotParts
<1>2. /\ target.step \in DOMAIN Plan[wf.id] /\ wf.steps[target.step] = "PENDING"
      /\ Marked(wf, "approve", target) = {target.step}
  BY MarkedFacts, PendingAreSteps DEF Actions
<1>3. wf.steps[k] # "ABSENT"
  BY <1>2 DEF Good, AllAbsent, NoneAbsent
<1>4. CASE wf.steps[k] # "PENDING"
  BY <1>1, <1>3, <1>4 DEF Verdicts, Done
<1>5. CASE wf.steps[k] = "PENDING" /\ k # target.step
  <2>1. k \in CurrentPendingSteps(wf) /\ k \in Others(wf, target.step)
    BY <1>3, <1>5 DEF CurrentPendingSteps, AtOrder, Others
  <2>2. Plan[wf.id][target.step].any
    BY <2>1 DEF Resolves
  <2> QED
    BY <1>2, <1>5, <2>1, <2>2 DEF Skipped
<1> QED
  BY <1>4, <1>5

\* The row a decision writes: an approval moves on, or ends, when it resolves the level.
LEMMA NextFacts ==
  ASSUME NEW wf \in Snapshot, NEW a \in Actions, NEW target, Accepts(wf, a, target)
  PROVE  /\ NextStatus(wf, a, target) \in States
         /\ NextOrder(wf, a, target) \in 1..TotalSteps(wf.id)
         /\ NextStatus(wf, a, target) = "APPROVED" => a = "approve"
         /\ a = "approve" =>
              \A k \in DOMAIN Plan[wf.id] :
                (\/ Plan[wf.id][k].order < NextOrder(wf, a, target)
                 \/ NextStatus(wf, a, target) = "APPROVED")
                => (\/ Plan[wf.id][k].order < wf.order
                    \/ Plan[wf.id][k].order = wf.order /\ Resolves(wf, target.step))
<1>1. /\ wf.id \in Ids /\ wf.order \in 1..TotalSteps(wf.id) /\ TotalSteps(wf.id) \in Int
      /\ \A k \in DOMAIN Plan[wf.id] :
           Plan[wf.id][k].order \in Int /\ Plan[wf.id][k].order <= TotalSteps(wf.id)
  BY SnapshotParts, PlanOrders
<1>2. NextStatus(wf, a, target) \in States
  BY DEF NextStatus, States, Actions
<1>3. NextStatus(wf, a, target) = "APPROVED" => a = "approve"
  BY DEF NextStatus, Actions
<1> DEFINE over == Resolves(wf, target.step)
<1>4. NextOrder(wf, a, target) = IF a = "approve" /\ over /\ wf.order < TotalSteps(wf.id)
                                 THEN wf.order + 1 ELSE wf.order
  BY DEF NextOrder
<1>5. a = "approve" => NextStatus(wf, a, target) = IF over /\ wf.order >= TotalSteps(wf.id)
                                                   THEN "APPROVED" ELSE "PENDING"
  BY DEF NextStatus
<1> HIDE DEF over
<1>6. NextOrder(wf, a, target) \in 1..TotalSteps(wf.id)
  BY <1>1, <1>4
<1>7. ASSUME a = "approve", NEW k \in DOMAIN Plan[wf.id],
             \/ Plan[wf.id][k].order < NextOrder(wf, a, target)
             \/ NextStatus(wf, a, target) = "APPROVED"
      PROVE  Plan[wf.id][k].order < wf.order \/ (Plan[wf.id][k].order = wf.order /\ over)
  BY <1>1, <1>4, <1>5, <1>7
<1> QED
  BY <1>2, <1>3, <1>6, <1>7 DEF over

\* Steps that are there are given a verdict.
LEMMA SetStepsFacts ==
  ASSUME IInv, NEW w \in Workflows, server[w] # None, NEW S, NEW verdict \in Done,
         \A k \in S : k \in DOMAIN Plan[w] => server[w].steps[k] # "ABSENT",
         SetSteps(w, S, verdict)
  PROVE  /\ ServerInv' /\ Progress(server, server')
         /\ \A v \in Workflows :
              server[v] # None /\ AllAbsent(server[v]) => AllAbsent(server'[v])
         /\ \A k \in DOMAIN Plan[w] : k \in S => server'[w].steps[k] \in Done
<1> DEFINE row == server[w]
           f == [k \in DOMAIN Plan[w] |-> IF k \in S THEN verdict ELSE row.steps[k]]
           row2 == [row EXCEPT !.steps = f]
<1>1. /\ w \in Ids /\ row \in SnapshotOf(w) /\ row.id = w /\ Good(row)
      /\ row.steps \in [DOMAIN Plan[w] -> Verdicts]
  BY ServerFacts
<1>2. server \in [Workflows -> Snapshot \cup {None}]
  BY DEF IInv, ServerInv
<1>3. server' = [server EXCEPT ![w] = row2]
  <2>1. [k \in DOMAIN row.steps |-> IF k \in S THEN verdict ELSE row.steps[k]] = f
    BY <1>1
  <2> QED
    BY <1>2, <2>1 DEF SetSteps
<1>4. verdict \in Verdicts /\ verdict # "ABSENT"
  BY DEF Done, Verdicts
<1>5. /\ f \in [DOMAIN Plan[w] -> Verdicts]
      /\ \A k \in DOMAIN Plan[w] : f[k] = IF k \in S THEN verdict ELSE row.steps[k]
  BY <1>1, <1>4
<1> HIDE DEF f
<1>6. /\ row2 \in SnapshotOf(w) /\ row2.id = w
      /\ row2.order = row.order /\ row2.status = row.status /\ row2.steps = f
  BY <1>1, <1>5 DEF SnapshotOf
<1> HIDE DEF row2
<1>7. row2 \in Snapshot /\ row2 # None
  BY <1>1, <1>6, SnapshotMade
<1>8. \A k \in DOMAIN Plan[w] : /\ row.steps[k] \in Done => f[k] \in Done
                                /\ row.steps[k] # "ABSENT" <=> f[k] # "ABSENT"
                                /\ k \in S => f[k] \in Done
  BY <1>4, <1>5
<1>9. AllAbsent(row) => AllAbsent(row2)
  BY <1>1, <1>6, <1>8 DEF AllAbsent
<1>10. Good(row2)
  BY <1>1, <1>6, <1>8, <1>9 DEF Good, Passed, AllAbsent, NoneAbsent
<1>11. \A v \in Workflows : server'[v] = IF v = w THEN row2 ELSE server[v]
  BY <1>2, <1>3
<1>12. ServerInv'
  <2>1. server' \in [Workflows -> Snapshot \cup {None}]
    BY <1>2, <1>3, <1>7
  <2> QED
    BY <1>6, <1>10, <1>11, <2>1 DEF IInv, ServerInv
<1> HIDE DEF row
<1>13. Progress(server, server')
  BY <1>6, <1>7, <1>8, <1>11 DEF Progress, row
<1> QED
  BY <1>6, <1>8, <1>9, <1>11, <1>12, <1>13 DEF row

\* A handler that only reads.
LEMMA ReadingStep ==
  ASSUME IInv, NEW i \in DOMAIN pending, NEW r \in Request, RequestInv(r, shown, widget),
         r.kind = pending[i].kind, r.mine = pending[i].mine, Handled(i, r),
         HandlerInv(r, server), r.pc # "insert",
         UNCHANGED <<server, page, session, host, widget, shown, approved, inputs, faults>>
  PROVE  IInv'
<1>1. \A j \in DOMAIN pending : HandlerInv(pending[j], server')
  BY PendingFacts
<1>2. ServerInv' /\ approved' \subseteq shown /\ faults' \in 0..MaxFaults
  BY DEF IInv, ServerInv, RestInv
<1>3. HandlerInv(r, server')
  OBVIOUS
<1> QED
  BY <1>1, <1>2, <1>3, HandlerStep

LEMMA ListRowsKeeps ==
  ASSUME IInv, NEW i \in DOMAIN pending, ListRows(i)
  PROVE  IInv'
<1> DEFINE r == pending[i]
           rows == Visible(r.tenant)
           answer == [r EXCEPT !.pc = "answered", !.rows = rows]
<1>1. /\ r \in Request /\ RequestInv(r, shown, widget) /\ r.kind = "list"
      /\ Handled(i, answer)
      /\ UNCHANGED <<server, page, session, host, widget, shown, approved, inputs, faults>>
  BY PendingFacts DEF ListRows, histories, counters
<1>2. rows \in SUBSET Workflows
  BY DEF Visible
<1> HIDE DEF rows
<1>3. /\ answer \in Request /\ answer.kind = r.kind /\ answer.mine = r.mine
      /\ answer.body = r.body /\ answer.pc = "answered"
  BY <1>1, <1>2 DEF Request
<1> HIDE DEF answer
<1>4. RequestInv(answer, shown, widget) /\ HandlerInv(answer, server)
  BY <1>1, <1>3 DEF RequestInv, HandlerInv, Act
<1> QED
  BY <1>1, <1>3, <1>4, ReadingStep

\* The first SELECT of a workflow.
LEMMA ReadRowKeeps ==
  ASSUME IInv, NEW i \in DOMAIN pending, ReadRow(i)
  PROVE  IInv'
<1> DEFINE r == pending[i]
           pc == IF r.kind = "post" /\ r.pc = "sent" THEN "decide" ELSE "steps"
           row == RowOf(server[r.id])
           read == [r EXCEPT !.pc = pc, !.body = row]
           lost == [r EXCEPT !.pc = "answered"]
<1>1. /\ r \in Request /\ RequestInv(r, shown, widget) /\ r.kind \in {"get", "post"}
      /\ IF Found(r.tenant, r.id) THEN Handled(i, read) ELSE Handled(i, lost)
      /\ UNCHANGED <<server, page, session, host, widget, shown, approved, inputs, faults>>
  BY PendingFacts DEF ReadRow, histories, counters
<1>2. r.id \in Workflows /\ r.pc \in {"sent", "reread"}
  BY <1>1 DEF RequestInv, ReadRow
<1>3. CASE Found(r.tenant, r.id)
  <2>1. /\ server[r.id] # None /\ server[r.id] \in Snapshot /\ server[r.id].id = r.id
        /\ Good(server[r.id])
    BY <1>2, <1>3, ServerFacts DEF Found
  <2>2. /\ row \in Snapshot /\ row # None /\ row.id = r.id
        /\ row.order = server[r.id].order /\ row.status = server[r.id].status
    BY <2>1, RowFacts
  <2>3. Passed(row, server[r.id].steps)
    BY <2>1, <2>2 DEF Good, Passed
  <2>4. pc \in {"decide", "steps"} /\ (pc = "decide" => r.kind = "post")
    OBVIOUS
  <2>5. Handled(i, read)
    BY <1>1, <1>3
  <2> HIDE DEF row, pc
  <2>6. /\ read \in Request /\ read.kind = r.kind /\ read.mine = r.mine /\ read.id = r.id
        /\ read.action = r.action /\ read.target = r.target /\ read.asker = r.asker
        /\ read.body = row /\ read.pc = pc
    BY <1>1, <2>2, <2>4 DEF Request
  <2> HIDE DEF read
  <2>7. RequestInv(read, shown, widget)
    BY <1>1, <2>2, <2>4, <2>6 DEF RequestInv, Act
  <2>8. HandlerInv(read, server)
    BY <1>2, <2>1, <2>2, <2>3, <2>4, <2>6 DEF HandlerInv
  <2> QED
    BY <1>1, <2>4, <2>5, <2>6, <2>7, <2>8, ReadingStep
<1>4. CASE ~Found(r.tenant, r.id)
  <2>1. /\ lost \in Request /\ lost.kind = r.kind /\ lost.mine = r.mine /\ lost.id = r.id
        /\ lost.action = r.action /\ lost.target = r.target /\ lost.asker = r.asker
        /\ lost.body = r.body /\ lost.pc = "answered"
    BY <1>1 DEF Request
  <2>2. r.body = None
    BY <1>1, <1>2 DEF RequestInv
  <2>3. Handled(i, lost)
    BY <1>1, <1>4
  <2> HIDE DEF lost
  <2>4. RequestInv(lost, shown, widget) /\ HandlerInv(lost, server)
    BY <1>1, <2>1, <2>2 DEF RequestInv, HandlerInv, Act
  <2> QED
    BY <1>1, <2>1, <2>3, <2>4, ReadingStep
<1> QED
  BY <1>3, <1>4

\* The second one: a step read late is no less settled than the row says.
LEMMA ReadStepsKeeps ==
  ASSUME IInv, NEW i \in DOMAIN pending, ReadSteps(i)
  PROVE  IInv'
<1> DEFINE r == pending[i]
           wf == Loaded(r)
           answer == [r EXCEPT !.pc = "answered", !.body = wf]
<1>1. /\ r \in Request /\ RequestInv(r, shown, widget) /\ HandlerInv(r, server)
      /\ r.pc = "steps" /\ Handled(i, answer)
      /\ UNCHANGED <<server, page, session, host, widget, shown, approved, inputs, faults>>
  BY PendingFacts DEF ReadSteps, histories, counters
<1>2. /\ r.id \in Workflows /\ server[r.id] # None /\ r.body # None /\ r.body.id = r.id
      /\ Passed(r.body, server[r.id].steps) /\ r.kind \in {"get", "post"}
  BY <1>1 DEF HandlerInv, RequestInv
<1>3. wf \in Snapshot /\ wf # None /\ wf.id = r.id /\ Good(wf)
  BY <1>1, <1>2, LoadedFacts
<1> HIDE DEF wf
<1>4. /\ answer \in Request /\ answer.kind = r.kind /\ answer.mine = r.mine /\ answer.id = r.id
      /\ answer.action = r.action /\ answer.target = r.target /\ answer.asker = r.asker
      /\ answer.body = wf /\ answer.pc = "answered"
  BY <1>1, <1>3 DEF Request
<1> HIDE DEF answer
<1>5. RequestInv(answer, shown, widget) /\ HandlerInv(answer, server)
  BY <1>1, <1>2, <1>3, <1>4 DEF RequestInv, HandlerInv, Act
<1> QED
  BY <1>1, <1>4, <1>5, ReadingStep

\* A decision knows what it has to mark and to skip.
LEMMA DecideKeeps ==
  ASSUME IInv, NEW i \in DOMAIN pending, Decide(i)
  PROVE  IInv'
<1> DEFINE r == pending[i]
           wf == Loaded(r)
           pc == IF Marked(wf, r.action, r.target) = {} THEN "update" ELSE "mark"
           skip == Skipped(wf, r.action, r.target)
           go == [r EXCEPT !.pc = pc, !.body = wf, !.toSkip = skip]
           refusal == [r EXCEPT !.pc = "answered", !.body = None]
<1>1. /\ r \in Request /\ RequestInv(r, shown, widget) /\ HandlerInv(r, server)
      /\ r.pc = "decide"
      /\ IF Accepts(wf, r.action, r.target) THEN Handled(i, go) ELSE Handled(i, refusal)
      /\ UNCHANGED <<server, page, session, host, widget, shown, approved, inputs, faults>>
  BY PendingFacts DEF Decide, histories, counters
<1>2. /\ r.id \in Workflows /\ server[r.id] # None /\ r.body # None /\ r.body.id = r.id
      /\ Passed(r.body, server[r.id].steps) /\ r.kind = "post" /\ r.action \in Actions
  BY <1>1 DEF HandlerInv, RequestInv
<1>3. /\ wf \in Snapshot /\ wf # None /\ wf.id = r.id /\ Good(wf)
      /\ wf.steps = server[r.id].steps /\ wf.order = r.body.order /\ wf.status = r.body.status
  BY <1>1, <1>2, LoadedFacts
<1>4. r.id \in Ids /\ DOMAIN Plan[r.id] \subseteq Nat
  <2>1. r.id \in Ids
    BY <1>2 DEF Ids
  <2> QED
    BY <2>1, WidgetAssumption
<1> HIDE DEF wf
<1>5. CASE Accepts(wf, r.action, r.target)
  <2>1. /\ \A k \in Marked(wf, r.action, r.target) \cup skip :
             k \in DOMAIN Plan[r.id] /\ wf.steps[k] # "ABSENT"
        /\ r.action = "approve" => Marked(wf, r.action, r.target) = {r.target.step}
    BY <1>2, <1>3, <1>5, MarkedFacts
  <2>2. pc \in {"update", "mark"} /\ (r.action = "approve" => pc = "mark")
    BY <2>1
  <2>3. skip \subseteq {k \in DOMAIN Plan[r.id] : wf.steps[k] # "ABSENT"} /\ skip \subseteq Nat
    BY <1>4, <2>1
  <2>4. r.action = "approve" /\ Resolves(wf, r.target.step) =>
          \A k \in DOMAIN Plan[r.id] : Plan[r.id][k].order = wf.order =>
            wf.steps[k] \in Done \/ k \in skip \/ k = r.target.step
    BY <1>3, <1>5, ResolvedLevel
  <2>5. Handled(i, go)
    BY <1>1, <1>5
  <2> HIDE DEF skip, pc
  <2>6. /\ go \in Request /\ go.kind = r.kind /\ go.mine = r.mine /\ go.id = r.id
        /\ go.action = r.action /\ go.target = r.target /\ go.asker = r.asker
        /\ go.body = wf /\ go.pc = pc /\ go.toSkip = skip
    BY <1>1, <1>3, <2>2, <2>3 DEF Request
  <2> HIDE DEF go
  <2>7. RequestInv(go, shown, widget)
    BY <1>1, <1>2, <1>3, <2>2, <2>6 DEF RequestInv, Act
  <2>8. Writing(go, server[go.id])
    BY <1>3, <1>5, <2>2, <2>3, <2>4, <2>6 DEF Writing
  <2>9. HandlerInv(go, server)
    BY <1>2, <1>3, <2>2, <2>6, <2>8 DEF HandlerInv, Good
  <2> QED
    BY <1>1, <2>2, <2>5, <2>6, <2>7, <2>9, ReadingStep
<1>6. CASE ~Accepts(wf, r.action, r.target)
  <2>1. /\ refusal \in Request /\ refusal.kind = r.kind /\ refusal.mine = r.mine
        /\ refusal.id = r.id /\ refusal.action = r.action /\ refusal.target = r.target
        /\ refusal.asker = r.asker /\ refusal.body = None /\ refusal.pc = "answered"
    BY <1>1 DEF Request
  <2>2. Handled(i, refusal)
    BY <1>1, <1>6
  <2> HIDE DEF refusal
  <2>3. RequestInv(refusal, shown, widget) /\ HandlerInv(refusal, server)
    BY <1>1, <1>2, <2>1 DEF RequestInv, HandlerInv, Act
  <2> QED
    BY <1>1, <2>1, <2>2, <2>3, ReadingStep
<1> QED
  BY <1>5, <1>6

\* What a handler between its reads and its last write holds.
LEMMA WritingFacts ==
  ASSUME IInv, NEW i \in DOMAIN pending, pending[i].pc \in {"mark", "update"}
  PROVE  LET r == pending[i] IN
         /\ r \in Request /\ RequestInv(r, shown, widget) /\ r.kind = "post"
         /\ r.id \in Workflows /\ server[r.id] # None /\ r.action \in Actions
         /\ r.body \in Snapshot /\ r.body # None /\ r.body.id = r.id
         /\ Passed(r.body, server[r.id].steps) /\ Writing(r, server[r.id])
<1>1. /\ pending[i] \in Request /\ RequestInv(pending[i], shown, widget)
      /\ HandlerInv(pending[i], server) /\ pending[i].body \in Snapshot \cup {None}
  BY PendingFacts
<1> QED
  BY <1>1 DEF RequestInv, HandlerInv

\* Steps get a verdict.
LEMMA StepsSet ==
  ASSUME IInv, NEW i \in DOMAIN pending, pending[i].pc \in {"mark", "update"},
         NEW S, NEW verdict \in Done,
         \A k \in S : k \in DOMAIN Plan[pending[i].id] /\ pending[i].body.steps[k] # "ABSENT",
         SetSteps(pending[i].id, S, verdict)
  PROVE  LET r == pending[i] IN
         /\ ServerInv' /\ Progress(server, server') /\ server'[r.id] # None
         /\ \A j \in DOMAIN pending : j # i => HandlerInv(pending[j], server')
         /\ \A k \in DOMAIN Plan[r.id] : k \in S => server'[r.id].steps[k] \in Done
         /\ Passed(r.body, server'[r.id].steps)
<1> DEFINE r == pending[i]
<1>1. /\ r.id \in Workflows /\ server[r.id] # None /\ r.body.id = r.id
      /\ Passed(r.body, server[r.id].steps) /\ Writing(r, server[r.id])
  BY WritingFacts
<1>2. \A k \in S : k \in DOMAIN Plan[r.id] => server[r.id].steps[k] # "ABSENT"
  BY <1>1 DEF Writing
<1>3. /\ ServerInv' /\ Progress(server, server')
      /\ \A v \in Workflows :
           server[v] # None /\ AllAbsent(server[v]) => AllAbsent(server'[v])
      /\ \A k \in DOMAIN Plan[r.id] : k \in S => server'[r.id].steps[k] \in Done
  BY <1>1, <1>2, SetStepsFacts
<1>4. \A j \in DOMAIN pending : j # i => HandlerInv(pending[j], server')
  <2>1. \A j \in DOMAIN pending :
          j # i /\ pending[j].pc = "insert" => AllAbsent(server'[pending[j].id])
    BY <1>3, PendingFacts DEF HandlerInv
  <2> QED
    BY <1>3, <2>1, OthersKeep
<1>5. server'[r.id] # None /\ Passed(r.body, server'[r.id].steps)
  BY <1>1, <1>3 DEF Progress, Passed
<1> QED
  BY <1>3, <1>4, <1>5

\* What a handler approves for this tab is the target of the request, which the widget
\* showed when it was clicked.
LEMMA MarkStepKeeps ==
  ASSUME IInv, NEW i \in DOMAIN pending, MarkStep(i)
  PROVE  IInv'
<1> DEFINE r == pending[i]
           marked == Marked(r.body, r.action, r.target)
           next == [r EXCEPT !.pc = "update"]
<1>1. /\ r.pc = "mark" /\ SetSteps(r.id, marked, Verdict(r.action)) /\ Handled(i, next)
      /\ approved' = IF r.action = "approve" /\ r.asker # "colleague"
                     THEN approved \cup {[id |-> r.id, step |-> k] : k \in marked} ELSE approved
      /\ UNCHANGED <<page, session, host, widget, shown, inputs, faults>>
  BY DEF MarkStep, counters
<1>2. /\ r \in Request /\ RequestInv(r, shown, widget) /\ r.kind = "post"
      /\ r.id \in Workflows /\ r.action \in Actions
      /\ r.body \in Snapshot /\ r.body # None /\ r.body.id = r.id
      /\ Writing(r, server[r.id])
  BY <1>1, WritingFacts
<1>3. Verdict(r.action) \in Done
  BY DEF Verdict, Done
<1>4. /\ \A k \in marked : k \in DOMAIN Plan[r.id] /\ r.body.steps[k] # "ABSENT"
      /\ r.action = "approve" => marked = {r.target.step} /\ r.target.id = r.id
  BY <1>2, MarkedFacts DEF Writing
<1> HIDE DEF marked
<1>5. /\ ServerInv' /\ Progress(server, server') /\ server'[r.id] # None
      /\ \A j \in DOMAIN pending : j # i => HandlerInv(pending[j], server')
      /\ \A k \in DOMAIN Plan[r.id] : k \in marked => server'[r.id].steps[k] \in Done
      /\ Passed(r.body, server'[r.id].steps)
  BY <1>1, <1>3, <1>4, StepsSet
<1>6. approved' \subseteq shown
  <2>1. r.action = "approve" /\ r.asker # "colleague" =>
          r.target \in shown /\ r.target = [id |-> r.id, step |-> r.target.step]
    BY <1>2, <1>4, TargetIs DEF RequestInv
  <2> QED
    BY <1>1, <1>4, <2>1 DEF IInv, RestInv
<1>7. faults' \in 0..MaxFaults
  BY <1>1 DEF IInv, RestInv
<1> HIDE DEF r
<1>8. /\ next \in Request /\ next.kind = r.kind /\ next.mine = r.mine /\ next.id = r.id
      /\ next.action = r.action /\ next.target = r.target /\ next.asker = r.asker
      /\ next.body = r.body /\ next.pc = "update" /\ next.toSkip = r.toSkip
  BY <1>2 DEF Request
<1> HIDE DEF next
<1>9. RequestInv(next, shown, widget)
  BY <1>2, <1>8 DEF RequestInv, Act
<1>10. Writing(next, server'[r.id])
  <2>1. /\ Accepts(r.body, r.action, r.target)
        /\ \A k \in DOMAIN Plan[r.id] :
             r.body.steps[k] # "ABSENT" => server'[r.id].steps[k] # "ABSENT"
        /\ r.toSkip \subseteq {k \in DOMAIN Plan[r.id] : r.body.steps[k] # "ABSENT"}
    BY <1>1, <1>2, <1>5, WritingFacts DEF Writing, Progress, r
  <2>2. ASSUME r.action = "approve", Resolves(r.body, r.target.step),
               NEW k \in DOMAIN Plan[r.id], Plan[r.id][k].order = r.body.order
        PROVE  server'[r.id].steps[k] \in Done \/ k \in r.toSkip
    <3>1. server[r.id].steps[k] \in Done \/ k \in r.toSkip \/ k \in marked
      BY <1>2, <1>4, <2>2 DEF Writing
    <3>2. server[r.id] # None
      BY <1>1, WritingFacts DEF r
    <3> QED
      BY <1>2, <1>5, <3>1, <3>2 DEF Progress
  <2> QED
    BY <1>8, <2>1, <2>2 DEF Writing
<1>11. HandlerInv(next, server')
  BY <1>2, <1>5, <1>8, <1>10 DEF HandlerInv
<1>12. next.pc # "insert"
  BY <1>8
<1> QED
  BY <1>1, <1>5, <1>6, <1>7, <1>8, <1>9, <1>11, <1>12, HandlerStep DEF r

LEMMA SkipSiblingKeeps ==
  ASSUME IInv, NEW i \in DOMAIN pending, SkipSibling(i)
  PROVE  IInv'
<1> DEFINE r == pending[i]
           next(k) == [r EXCEPT !.toSkip = @ \ {k}]
<1>1. PICK k \in r.toSkip : SetSteps(r.id, {k}, "SKIPPED") /\ Handled(i, next(k))
  BY DEF SkipSibling
<1>2. r.pc = "update" /\ UNCHANGED <<page, session, host, widget, shown, approved, inputs, faults>>
  BY DEF SkipSibling, histories, counters
<1>3. /\ r \in Request /\ RequestInv(r, shown, widget) /\ r.kind = "post"
      /\ r.id \in Workflows /\ server[r.id] # None
      /\ r.body \in Snapshot /\ r.body # None /\ r.body.id = r.id
      /\ Writing(r, server[r.id])
  BY <1>2, WritingFacts
<1>4. k \in DOMAIN Plan[r.id] /\ r.body.steps[k] # "ABSENT" /\ "SKIPPED" \in Done
  BY <1>1, <1>3 DEF Writing, Done
<1>5. /\ ServerInv' /\ Progress(server, server') /\ server'[r.id] # None
      /\ \A j \in DOMAIN pending : j # i => HandlerInv(pending[j], server')
      /\ server'[r.id].steps[k] \in Done
      /\ Passed(r.body, server'[r.id].steps)
  BY <1>1, <1>2, <1>4, StepsSet
<1>6. approved' \subseteq shown /\ faults' \in 0..MaxFaults
  BY <1>2 DEF IInv, RestInv
<1> DEFINE after == next(k)
<1>7. after = [r EXCEPT !.toSkip = r.toSkip \ {k}] /\ Handled(i, after)
  BY <1>1
<1> HIDE DEF r, after
<1>8. /\ after \in Request /\ after.kind = r.kind /\ after.mine = r.mine /\ after.id = r.id
      /\ after.action = r.action /\ after.target = r.target /\ after.asker = r.asker
      /\ after.body = r.body /\ after.pc = "update" /\ after.toSkip = r.toSkip \ {k}
  BY <1>2, <1>3, <1>7 DEF Request
<1>9. RequestInv(after, shown, widget)
  BY <1>2, <1>3, <1>8 DEF RequestInv, Act
<1>10. Writing(after, server'[r.id])
  <2>1. /\ Accepts(r.body, r.action, r.target)
        /\ \A m \in DOMAIN Plan[r.id] :
             r.body.steps[m] # "ABSENT" => server'[r.id].steps[m] # "ABSENT"
        /\ after.toSkip \subseteq {m \in DOMAIN Plan[r.id] : r.body.steps[m] # "ABSENT"}
    BY <1>3, <1>5, <1>8 DEF Writing, Progress
  <2>2. ASSUME r.action = "approve", Resolves(r.body, r.target.step),
               NEW m \in DOMAIN Plan[r.id], Plan[r.id][m].order = r.body.order
        PROVE  server'[r.id].steps[m] \in Done \/ m \in after.toSkip
    <3>1. server[r.id].steps[m] \in Done \/ m \in r.toSkip
      BY <1>2, <1>3, <2>2 DEF Writing
    <3>2. server[r.id].steps[m] \in Done => server'[r.id].steps[m] \in Done
      BY <1>3, <1>5 DEF Progress
    <3> QED
      BY <1>5, <1>8, <3>1, <3>2
  <2> QED
    BY <1>8, <2>1, <2>2 DEF Writing
<1>11. HandlerInv(after, server')
  BY <1>3, <1>5, <1>8, <1>10 DEF HandlerInv
<1>12. after.pc # "insert"
  BY <1>8
<1> QED
  BY <1>2, <1>5, <1>6, <1>7, <1>8, <1>9, <1>11, <1>12, HandlerStep DEF r

\* The row moves on when everybody of its level has a verdict.
LEMMA UpdateRowKeeps ==
  ASSUME IInv, NEW i \in DOMAIN pending, UpdateRow(i)
  PROVE  IInv'
<1> DEFINE r == pending[i]
           row == server[r.id]
           st == NextStatus(r.body, r.action, r.target)
           n == IF r.action = "approve" THEN NextOrder(r.body, r.action, r.target) ELSE row.order
           row2 == [row EXCEPT !.status = st, !.order = n]
           pc == IF r.asker = "tab" THEN "reread" ELSE "answered"
           next == [r EXCEPT !.pc = pc, !.body = None]
<1>1. /\ r.pc = "update" /\ r.toSkip = {} /\ Handled(i, next)
      /\ UNCHANGED <<page, session, host, widget, shown, approved, inputs, faults>>
  BY DEF UpdateRow, histories, counters
<1>2. /\ r \in Request /\ RequestInv(r, shown, widget) /\ r.kind = "post"
      /\ r.id \in Workflows /\ row # None /\ r.action \in Actions
      /\ r.body \in Snapshot /\ r.body # None /\ r.body.id = r.id
      /\ Passed(r.body, row.steps) /\ Writing(r, row)
  BY <1>1, WritingFacts
<1>3. server \in [Workflows -> Snapshot \cup {None}]
  BY DEF IInv, ServerInv
<1>4. server' = [server EXCEPT ![r.id] = row2]
  BY <1>2, <1>3 DEF UpdateRow
<1>5. /\ r.id \in Ids /\ row \in SnapshotOf(r.id) /\ row.id = r.id /\ Good(row)
      /\ row.order \in 1..TotalSteps(r.id)
  BY <1>2, ServerFacts
<1>6. /\ st \in States
      /\ NextOrder(r.body, r.action, r.target) \in 1..TotalSteps(r.id)
      /\ st = "APPROVED" => r.action = "approve"
      /\ r.action = "approve" =>
           \A k \in DOMAIN Plan[r.id] :
             Plan[r.id][k].order < n \/ st = "APPROVED" =>
               \/ Plan[r.id][k].order < r.body.order
               \/ Plan[r.id][k].order = r.body.order /\ Resolves(r.body, r.target.step)
  <2>1. r.body \in Snapshot /\ r.action \in Actions /\ Accepts(r.body, r.action, r.target)
    BY <1>2 DEF Writing
  <2>2. r.body.id = r.id
    BY <1>2
  <2> HIDE DEF r, row
  <2>3. /\ st \in States
        /\ st = "APPROVED" => r.action = "approve"
        /\ NextOrder(r.body, r.action, r.target) \in 1..TotalSteps(r.body.id)
    BY <2>1, NextFacts
  <2>4. r.action = "approve" =>
          \A k \in DOMAIN Plan[r.body.id] :
            Plan[r.body.id][k].order < n \/ st = "APPROVED" =>
              \/ Plan[r.body.id][k].order < r.body.order
              \/ Plan[r.body.id][k].order = r.body.order /\ Resolves(r.body, r.target.step)
    BY <2>1, NextFacts
  <2> HIDE DEF n, st
  <2> QED
    BY <2>2, <2>3, <2>4
<1>7. \A k \in DOMAIN Plan[r.id] :
        Plan[r.id][k].order < n \/ st = "APPROVED" => row.steps[k] \in Done
  <2>1. CASE r.action = "approve"
    <3> SUFFICES ASSUME NEW k \in DOMAIN Plan[r.id], Plan[r.id][k].order < n \/ st = "APPROVED"
                 PROVE  row.steps[k] \in Done
      OBVIOUS
    <3>1. \/ Plan[r.id][k].order < r.body.order
          \/ Plan[r.id][k].order = r.body.order /\ Resolves(r.body, r.target.step)
      BY <1>6, <2>1
    <3>2. CASE Plan[r.id][k].order < r.body.order
      BY <1>2, <3>2 DEF Passed
    <3>3. CASE Plan[r.id][k].order = r.body.order /\ Resolves(r.body, r.target.step)
      BY <1>1, <1>2, <2>1, <3>3 DEF Writing
    <3> QED
      BY <3>1, <3>2, <3>3
  <2>2. CASE r.action # "approve"
    <3>1. n = row.order /\ st # "APPROVED"
      BY <1>6, <2>2
    <3> QED
      BY <1>5, <3>1 DEF Good, Passed
  <2> QED
    BY <2>1, <2>2
<1>8. n \in 1..TotalSteps(r.id)
  BY <1>5, <1>6
<1> HIDE DEF n, st, row, pc
<1>9. /\ row2 \in SnapshotOf(r.id) /\ row2.id = r.id
      /\ row2.order = n /\ row2.status = st /\ row2.steps = row.steps
  BY <1>5, <1>6, <1>8 DEF SnapshotOf
<1> HIDE DEF row2
<1>10. row2 \in Snapshot /\ row2 # None
  BY <1>5, <1>9, SnapshotMade
<1>11. Good(row2)
  BY <1>5, <1>7, <1>9 DEF Good, Passed, AllAbsent, NoneAbsent
<1>12. \A v \in Workflows : server'[v] = IF v = r.id THEN row2 ELSE server[v]
  BY <1>3, <1>4
<1>13. ServerInv'
  <2>1. server' \in [Workflows -> Snapshot \cup {None}]
    BY <1>3, <1>4, <1>10
  <2> QED
    BY <1>9, <1>11, <1>12, <2>1 DEF IInv, ServerInv
<1>14. \A j \in DOMAIN pending : j # i => HandlerInv(pending[j], server')
  <2>1. Progress(server, server')
    BY <1>9, <1>10, <1>12 DEF Progress, row
  <2>2. \A v \in Workflows : server[v] # None /\ AllAbsent(server[v]) => AllAbsent(server'[v])
    BY <1>5, <1>9, <1>12 DEF AllAbsent, row
  <2>3. \A j \in DOMAIN pending :
          j # i /\ pending[j].pc = "insert" => AllAbsent(server'[pending[j].id])
    BY <2>2, PendingFacts DEF HandlerInv
  <2> QED
    BY <2>1, <2>3, OthersKeep
<1>15. approved' \subseteq shown /\ faults' \in 0..MaxFaults
  BY <1>1 DEF IInv, RestInv
<1>16. pc \in {"reread", "answered"}
  BY DEF pc
<1> HIDE DEF r
<1>17. /\ next \in Request /\ next.kind = r.kind /\ next.mine = r.mine /\ next.id = r.id
       /\ next.action = r.action /\ next.target = r.target /\ next.asker = r.asker
       /\ next.body = None /\ next.pc = pc
  BY <1>2, <1>16 DEF Request
<1> HIDE DEF next
<1>18. RequestInv(next, shown, widget) /\ HandlerInv(next, server') /\ next.pc # "insert"
  BY <1>2, <1>16, <1>17 DEF RequestInv, HandlerInv, Act
<1> QED
  BY <1>1, <1>13, <1>14, <1>15, <1>17, <1>18, HandlerStep DEF r

\* A workflow is created, without its steps.
LEMMA InsertRowKeeps ==
  ASSUME IInv, NEW i \in DOMAIN pending, InsertRow(i)
  PROVE  IInv'
<1> DEFINE r == pending[i]
           next(w) == [r EXCEPT !.pc = "insert", !.id = w]
<1>1. PICK w \in Workflows :
        /\ server[w] = None /\ server' = [server EXCEPT ![w] = RowOf(Fresh(w))]
        /\ Handled(i, next(w))
  BY DEF InsertRow
<1>2. /\ r \in Request /\ RequestInv(r, shown, widget) /\ r.kind = "create" /\ r.pc = "sent"
      /\ UNCHANGED <<page, session, host, widget, shown, approved, inputs, faults>>
  BY PendingFacts DEF InsertRow, histories, counters
<1> DEFINE row == RowOf(Fresh(w))
<1>3. /\ w \in Ids /\ row \in Snapshot /\ row # None /\ row.id = w /\ AllAbsent(row)
      /\ row.order = 1 /\ row.status = "DRAFT"
  <2>1. w \in Ids
    BY DEF Ids
  <2>2. /\ Fresh(w) \in Snapshot /\ Fresh(w).id = w /\ Fresh(w).status = "DRAFT"
        /\ Fresh(w).order = 1
    BY <2>1, FreshFacts DEF Fresh
  <2> HIDE DEF Fresh
  <2> QED
    BY <2>1, <2>2, RowFacts
<1>4. Good(row)
  <2>1. \A k \in DOMAIN Plan[w] : Plan[w][k].order \in Nat /\ 1 <= Plan[w][k].order
    BY <1>3, PlanOrders
  <2> QED
    BY <1>3, <2>1 DEF Good, Passed
<1>5. server \in [Workflows -> Snapshot \cup {None}] /\ server' = [server EXCEPT ![w] = row]
  BY <1>1 DEF IInv, ServerInv
<1> HIDE DEF row
<1>6. \A v \in Workflows : server'[v] = IF v = w THEN row ELSE server[v]
  BY <1>5
<1>7. ServerInv'
  <2>1. server' \in [Workflows -> Snapshot \cup {None}]
    BY <1>3, <1>5
  <2> QED
    BY <1>3, <1>4, <1>6, <2>1 DEF IInv, ServerInv
<1>8. \A j \in DOMAIN pending : pending[j].pc = "insert" =>
        /\ pending[j].id # w /\ AllAbsent(server'[pending[j].id])
  BY <1>1, <1>6, PendingFacts DEF HandlerInv
<1>9. \A j \in DOMAIN pending : j # i => HandlerInv(pending[j], server')
  <2>1. Progress(server, server')
    BY <1>1, <1>6 DEF Progress
  <2> QED
    BY <1>8, <2>1, OthersKeep
<1>10. approved' \subseteq shown /\ faults' \in 0..MaxFaults
  BY <1>2 DEF IInv, RestInv
<1> DEFINE after == next(w)
<1>11. Handled(i, after)
  BY <1>1
<1> HIDE DEF r
<1>12. /\ after \in Request /\ after.kind = r.kind /\ after.mine = r.mine /\ after.id = w
       /\ after.body = r.body /\ after.pc = "insert"
  BY <1>2 DEF Request
<1> HIDE DEF after
<1>13. RequestInv(after, shown, widget)
  BY <1>2, <1>12 DEF RequestInv, Act
<1>14. HandlerInv(after, server')
  BY <1>3, <1>6, <1>12 DEF HandlerInv
<1>15. \A j \in DOMAIN pending : j # i /\ pending[j].pc = "insert" => pending[j].id # after.id
  BY <1>8, <1>12
<1> QED
  BY <1>2, <1>7, <1>9, <1>10, <1>11, <1>12, <1>13, <1>14, <1>15, HandlerStep DEF r

\* Its steps follow, all at once.
LEMMA InsertStepsKeeps ==
  ASSUME IInv, NEW i \in DOMAIN pending, InsertSteps(i)
  PROVE  IInv'
<1> DEFINE r == pending[i]
           w == r.id
           row == server[w]
           f == [k \in DOMAIN Plan[w] |-> "PENDING"]
           row2 == [row EXCEPT !.steps = f]
           next == [r EXCEPT !.pc = "answered"]
<1>1. /\ r.pc = "insert" /\ SetSteps(w, DOMAIN Plan[w], "PENDING") /\ Handled(i, next)
      /\ UNCHANGED <<page, session, host, widget, shown, approved, inputs, faults>>
  BY DEF InsertSteps, histories, counters
<1>2. /\ r \in Request /\ RequestInv(r, shown, widget) /\ HandlerInv(r, server)
      /\ r.kind = "create" /\ w \in Workflows /\ row # None /\ AllAbsent(row)
  BY <1>1, PendingFacts DEF HandlerInv, RequestInv
<1>3. /\ w \in Ids /\ row \in SnapshotOf(w) /\ row.id = w /\ Good(row)
      /\ row.steps \in [DOMAIN Plan[w] -> Verdicts]
  BY <1>2, ServerFacts
<1>4. server \in [Workflows -> Snapshot \cup {None}] /\ server' = [server EXCEPT ![w] = row2]
  <2>1. [k \in DOMAIN row.steps |-> IF k \in DOMAIN Plan[w] THEN "PENDING" ELSE row.steps[k]] = f
    BY <1>3
  <2> QED
    BY <1>1, <2>1 DEF SetSteps, IInv, ServerInv
<1>5. f \in [DOMAIN Plan[w] -> Verdicts] /\ \A k \in DOMAIN Plan[w] : f[k] = "PENDING"
  BY DEF Verdicts
<1> HIDE DEF f, row
<1>6. /\ row2 \in SnapshotOf(w) /\ row2.id = w
      /\ row2.order = row.order /\ row2.status = row.status /\ row2.steps = f
  BY <1>3, <1>5 DEF SnapshotOf
<1> HIDE DEF row2
<1>7. row2 \in Snapshot /\ row2 # None
  BY <1>3, <1>6, SnapshotMade
<1>8. Good(row2)
  <2>1. \A k \in DOMAIN Plan[w] : ~(Plan[w][k].order < row.order \/ row.status = "APPROVED")
    BY <1>2, <1>3 DEF Good, Passed, AllAbsent, Done
  <2> QED
    BY <1>5, <1>6, <2>1 DEF Good, Passed, NoneAbsent
<1>9. \A v \in Workflows : server'[v] = IF v = w THEN row2 ELSE server[v]
  BY <1>4
<1>10. ServerInv'
  <2>1. server' \in [Workflows -> Snapshot \cup {None}]
    BY <1>4, <1>7
  <2> QED
    BY <1>6, <1>8, <1>9, <2>1 DEF IInv, ServerInv
<1>11. \A j \in DOMAIN pending : j # i => HandlerInv(pending[j], server')
  <2>1. Progress(server, server')
    <3>1. \A k \in DOMAIN Plan[w] : row.steps[k] \notin Done /\ row2.steps[k] # "ABSENT"
      BY <1>2, <1>3, <1>5, <1>6 DEF AllAbsent, Done
    <3> QED
      BY <1>7, <1>9, <3>1 DEF Progress, row
  <2>2. \A j \in DOMAIN pending :
          j # i /\ pending[j].pc = "insert" => AllAbsent(server'[pending[j].id])
    <3>1. \A j \in DOMAIN pending : j # i /\ pending[j].pc = "insert" => pending[j].id # w
      BY <1>1 DEF IInv, PendingInv
    <3> QED
      BY <1>9, <3>1, PendingFacts DEF HandlerInv
  <2> QED
    BY <2>1, <2>2, OthersKeep
<1>12. approved' \subseteq shown /\ faults' \in 0..MaxFaults
  BY <1>1 DEF IInv, RestInv
<1> HIDE DEF r
<1>13. /\ next \in Request /\ next.kind = r.kind /\ next.mine = r.mine /\ next.id = r.id
       /\ next.body = r.body /\ next.pc = "answered"
  BY <1>2 DEF Request
<1> HIDE DEF next
<1>14. RequestInv(next, shown, widget) /\ HandlerInv(next, server') /\ next.pc # "insert"
  BY <1>1, <1>2, <1>13 DEF RequestInv, HandlerInv, Act
<1> QED
  BY <1>1, <1>10, <1>11, <1>12, <1>13, <1>14, HandlerStep DEF r

LEMMA InsertStepsFailsKeeps ==
  ASSUME IInv, NEW i \in DOMAIN pending, InsertStepsFails(i)
  PROVE  IInv'
<1> DEFINE r == pending[i]
           next == [r EXCEPT !.pc = "answered"]
<1>1. /\ r \in Request /\ RequestInv(r, shown, widget) /\ r.pc = "insert"
      /\ Handled(i, next)
      /\ UNCHANGED <<server, page, session, host, widget, shown, approved, inputs>>
  BY PendingFacts DEF InsertStepsFails, histories
<1>2. faults' \in 0..MaxFaults
  BY PagesAssumption DEF InsertStepsFails, Fault, IInv, RestInv
<1>3. r.kind = "create" /\ r.id \in Workflows
  BY <1>1 DEF RequestInv
<1>4. \A j \in DOMAIN pending : HandlerInv(pending[j], server')
  BY <1>1, PendingFacts
<1>5. ServerInv' /\ approved' \subseteq shown
  BY <1>1 DEF IInv, ServerInv, RestInv
<1> HIDE DEF r
<1>6. /\ next \in Request /\ next.kind = r.kind /\ next.mine = r.mine /\ next.id = r.id
      /\ next.body = r.body /\ next.pc = "answered"
  BY <1>1 DEF Request
<1> HIDE DEF next
<1>7. RequestInv(next, shown, widget) /\ HandlerInv(next, server') /\ next.pc # "insert"
  BY <1>1, <1>3, <1>6 DEF RequestInv, HandlerInv, Act
<1> QED
  BY <1>1, <1>2, <1>4, <1>5, <1>6, <1>7, HandlerStep DEF r

\* A colleague's handler begins.
LEMMA ColleagueKeeps ==
  ASSUME IInv, NEW w \in Workflows, NEW a \in Actions, NEW target,
         target \in Targets \/ (target = None /\ a \in {"submit", "cancel"}),
         Colleague(w, a, target)
  PROVE  IInv'
<1> DEFINE row == RowOf(server[w])
           r == [Ask("post", TenantOf[w], w) EXCEPT
                   !.asker = "colleague", !.mine = FALSE, !.action = a, !.target = target,
                   !.pc = "decide", !.body = row]
<1>1. /\ server[w] # None /\ pending' = Append(pending, r)
      /\ Len(pending) < MaxPending /\ inputs < MaxInputs /\ inputs' = inputs + 1
      /\ UNCHANGED <<server, page, session, host, widget, shown, approved, faults>>
  BY DEF Colleague, Click, Room, Input, histories
<1>2. server[w] \in Snapshot /\ server[w].id = w /\ Good(server[w])
  BY <1>1, ServerFacts
<1>3. /\ row \in Snapshot /\ row # None /\ row.id = w
      /\ row.order = server[w].order /\ row.status = server[w].status
  BY <1>2, RowFacts
<1>4. Passed(row, server[w].steps)
  BY <1>2, <1>3 DEF Good, Passed
<1>5. TenantOf[w] \in Tenants
  BY PagesAssumption
<1> HIDE DEF row
<1>6. /\ r \in Request /\ r.kind = "post" /\ r.mine = FALSE /\ r.id = w /\ r.action = a
      /\ r.target = target /\ r.asker = "colleague" /\ r.body = row /\ r.pc = "decide"
  BY <1>3, <1>5 DEF Ask, Request, Actions
<1> HIDE DEF r
<1>7. RequestInv(r, shown, widget) /\ HandlerInv(r, server) /\ ~Mine(r) /\ ~Act(r)
  BY <1>1, <1>3, <1>4, <1>6 DEF RequestInv, HandlerInv, Act, Mine
<1>8. PendingInv(pending, shown, widget, server) /\ Len(pending) \in Nat
  BY DEF IInv, PendingInv
<1>9. /\ PendingInv(pending', shown, widget, server) /\ Len(pending') = Len(pending) + 1
      /\ NoneMine(pending) => NoneMine(pending')
  BY <1>1, <1>6, <1>7, <1>8, JoinKeeps
<1>10. inputs' \in 0..MaxInputs /\ Len(pending') <= MaxPending + 1
  BY <1>1, <1>8, <1>9, PagesAssumption DEF IInv, RestInv
<1> QED
  BY <1>1, <1>9, <1>10 DEF IInv, ServerInv, RestInv, UnmountedInv

\* A live event asks for the list and for the workflow that is shown.
LEMMA LiveEventKeeps ==
  ASSUME IInv, NEW w \in Workflows, LiveEvent(w)
  PROVE  IInv'
<1> DEFINE first == FetchWorkflows(session.tenant, host.selected, None)
           reqs == Append(pending, first)
<1>1. /\ inputs < MaxInputs /\ inputs' = inputs + 1 /\ Len(pending) < MaxPending
      /\ pending' = reqs \o (IF host.selected = w THEN FetchWorkflow(widget.mock, session.tenant, w)
                             ELSE <<>>)
      /\ UNCHANGED <<server, page, session, host, widget, shown, approved, faults>>
  BY DEF LiveEvent, Input, Room, histories
<1>2. /\ session.tenant \in Tenants /\ widget.mock \in BOOLEAN
      /\ PendingInv(pending, shown, widget, server) /\ pending \in Seq(Request) /\ Len(pending) \in Nat
      /\ w # None
  BY WidgetAssumption DEF IInv, RestInv, WidgetInv, Widget, PendingInv, Ids
<1>3. first \in Request /\ Benign(first) /\ first.kind = "list"
  BY <1>2, FetchWorkflowsFacts
<1> HIDE DEF first
<1>4. /\ PendingInv(reqs, shown, widget, server) /\ Len(reqs) = Len(pending) + 1
      /\ NoneMine(pending) => NoneMine(reqs)
  BY <1>2, <1>3, AppendKeeps
<1>5. reqs \in Seq(Request)
  BY <1>2, <1>3
<1> HIDE DEF reqs
<1>6. /\ PendingInv(pending', shown, widget, server) /\ Len(pending') <= Len(pending) + 2
      /\ host.selected = None /\ NoneMine(pending) => NoneMine(pending')
  <2>1. CASE host.selected = w
    BY <1>1, <1>2, <1>4, <2>1, FetchKeeps
  <2>2. CASE host.selected # w
    <3>1. pending' = reqs
      BY <1>1, <1>5, <2>2
    <3> QED
      BY <1>2, <1>4, <3>1
  <2> QED
    BY <2>1, <2>2
<1>7. inputs' \in 0..MaxInputs
  BY <1>1, PagesAssumption DEF IInv, RestInv
<1>8. Len(pending') <= MaxPending + 1
  <2>1. pending' \in Seq(Request) /\ Len(pending') \in Nat
    BY <1>6 DEF PendingInv
  <2> QED
    BY <1>1, <1>2, <1>6, <2>1, PagesAssumption
<1> QED
  BY <1>1, <1>6, <1>7, <1>8 DEF IInv, ServerInv, RestInv, UnmountedInv

LEMMA PollKeeps ==
  ASSUME IInv, Poll
  PROVE  IInv'
<1>1. /\ host.selected # None /\ Len(pending) < MaxPending
      /\ pending' = pending \o FetchWorkflow(FALSE, session.tenant, host.selected)
      /\ UNCHANGED <<server, page, session, host, widget, shown, approved, inputs, faults>>
  BY DEF Poll, Room, IsMounted, histories, counters
<1>2. /\ session.tenant \in Tenants /\ host.selected \in Workflows /\ FALSE \in BOOLEAN
      /\ PendingInv(pending, shown, widget, server) /\ Len(pending) \in Nat
  BY <1>1 DEF IInv, RestInv, PendingInv
<1>3. PendingInv(pending', shown, widget, server) /\ Len(pending') <= Len(pending) + 1
  BY <1>1, <1>2, FetchKeeps
<1>4. Len(pending') <= MaxPending + 1
  <2>1. Len(pending') \in Nat /\ Len(pending') <= Len(pending) + 1
    BY <1>3 DEF PendingInv
  <2>2. Len(pending) < MaxPending /\ Len(pending) \in Nat /\ MaxPending \in Nat
    BY <1>1, <1>2, PagesAssumption
  <2> QED
    BY <2>1, <2>2
<1> QED
  BY <1>1, <1>3, <1>4 DEF IInv, ServerInv, RestInv, UnmountedInv

\* Once a request is over, the others are as sound as they were, and there is room for one.
LEMMA AfterOne ==
  ASSUME IInv, NEW i \in DOMAIN pending
  PROVE  /\ PendingInv(Without(i), shown, widget, server) /\ WidgetInv(widget)
         /\ Len(Without(i)) = Len(pending) - 1
         /\ Len(Without(i)) \in Nat /\ Len(Without(i)) + 1 <= MaxPending + 1
         /\ host.selected = None => widget = Mounted /\ NoneMine(Without(i))
         /\ Act(pending[i]) => \A j \in DOMAIN Without(i) : ~Act(Without(i)[j])
<1>1. PendingInv(pending, shown, widget, server) /\ WidgetInv(widget) /\ Len(pending) <= MaxPending + 1
  BY DEF IInv, RestInv
<1>2. /\ PendingInv(Without(i), shown, widget, server)
      /\ Len(Without(i)) = Len(pending) - 1
      /\ NoneMine(pending) => NoneMine(Without(i))
      /\ Act(pending[i]) => \A j \in DOMAIN Without(i) : ~Act(Without(i)[j])
  BY <1>1, WithoutKeeps
<1>3. Len(pending) \in Nat /\ Len(Without(i)) \in Nat
  BY <1>1, <1>2 DEF PendingInv
<1>4. Len(Without(i)) + 1 <= MaxPending + 1
  BY <1>1, <1>2, <1>3, PagesAssumption
<1> QED
  BY <1>1, <1>2, <1>3, <1>4 DEF IInv, UnmountedInv

\* A list may select what it brings, or deselect.
LEMMA ListReturnsKeeps ==
  ASSUME IInv, NEW i \in DOMAIN pending, ListReturns(i)
  PROVE  IInv'
<1> DEFINE r == pending[i]
<1>1. /\ PendingInv(Without(i), shown, widget, server) /\ WidgetInv(widget)
      /\ Len(Without(i)) \in Nat /\ Len(Without(i)) + 1 <= MaxPending + 1
      /\ host.selected = None => widget = Mounted /\ NoneMine(Without(i))
  BY AfterOne
<1>2. r.id \in Workflows \cup {None} /\ r.rows \in SUBSET Workflows /\ session.tenant \in Tenants
      /\ host.selected \in Workflows \cup {None}
  BY PendingFacts DEF IInv, RestInv
<1>3. PICK id \in Choice(r) :
        /\ host' = [host EXCEPT !.rows = r.rows, !.selected = id]
        /\ IF id = host.selected THEN pending' = Without(i) /\ widget' = widget
           ELSE Selecting(id, session.tenant, Without(i))
  BY DEF ListReturns
<1>4. UNCHANGED <<server, page, session, shown, approved, inputs, faults>>
  BY DEF ListReturns, histories, counters
<1>5. id \in Workflows \cup {None}
  BY <1>2 DEF Choice
<1>6. /\ WidgetInv(widget') /\ PendingInv(pending', shown, widget', server)
      /\ Len(pending') <= Len(Without(i)) + 1
      /\ id = None => widget' = Mounted /\ NoneMine(pending')
  <2>1. CASE id = host.selected
    BY <1>1, <1>3, <2>1
  <2>2. CASE id # host.selected
    <3>1. Selecting(id, session.tenant, Without(i))
      BY <1>3, <2>2
    <3> QED
      BY <1>1, <1>2, <1>5, <3>1, SelectingKeeps
  <2> QED
    BY <2>1, <2>2
<1>7. Len(pending') <= MaxPending + 1
  <2>1. Len(pending') \in Nat
    BY <1>6 DEF PendingInv
  <2> QED
    BY <1>1, <1>6, <2>1, PagesAssumption
<1> HIDE DEF r
<1>8. /\ host' \in [rows : SUBSET Workflows, selected : Workflows \cup {None}, form : BOOLEAN]
      /\ host'.selected = id
  BY <1>2, <1>3, <1>5 DEF IInv, RestInv
<1> QED
  BY <1>4, <1>6, <1>7, <1>8 DEF IInv, ServerInv, RestInv, UnmountedInv

\* An answer brings a workflow of workflow-api's, never the preview's.
LEMMA GetReturnsKeeps ==
  ASSUME IInv, NEW i \in DOMAIN pending, GetReturns(i)
  PROVE  IInv'
<1> DEFINE r == pending[i]
<1>1. /\ PendingInv(Without(i), shown, widget, server) /\ WidgetInv(widget)
      /\ Len(Without(i)) \in Nat /\ Len(Without(i)) + 1 <= MaxPending + 1
      /\ host.selected = None => widget = Mounted /\ NoneMine(Without(i))
  BY AfterOne
<1>2. /\ r.kind = "get"
      /\ widget' = IF ~r.mine THEN widget
                   ELSE IF r.body # None THEN [widget EXCEPT !.wf = r.body, !.screen = "workflow"]
                   ELSE IF widget.wf = None THEN [widget EXCEPT !.screen = "error"] ELSE widget
      /\ pending' = Without(i)
      /\ UNCHANGED <<server, page, session, host, shown, approved, inputs, faults>>
  BY DEF GetReturns, histories, counters
<1>3. /\ r.body \in Snapshot \cup {None}
      /\ r.body # None => r.body.id \in Workflows /\ r.body.id # DemoId /\ Good(r.body)
  <2>1. RequestInv(r, shown, widget) /\ r.body \in Snapshot \cup {None} /\ r.pc = "answered"
    BY PendingFacts DEF GetReturns
  <2> QED
    BY <1>2, <2>1, WidgetAssumption DEF RequestInv
<1>4. host.selected = None => ~r.mine
  BY <1>2 DEF IInv, UnmountedInv, NoneMine, Mine
<1> HIDE DEF r
<1>5. WidgetInv(widget') /\ PendingInv(Without(i), shown, widget', server)
  <2>1. CASE widget' = widget
    BY <1>1, <2>1
  <2>2. CASE r.body # None /\ widget' = [widget EXCEPT !.wf = r.body, !.screen = "workflow"]
    <3>1. widget \in Widget /\ r.body \in Snapshot
      BY <1>1, <1>3, <2>2 DEF WidgetInv
    <3>2. /\ widget' \in Widget /\ widget'.wf = r.body /\ widget'.screen = "workflow"
          /\ widget'.mock = widget.mock /\ widget'.acting = widget.acting
          /\ widget'.modal = widget.modal
      BY <2>2, <3>1 DEF Widget
    <3>3. WidgetInv(widget')
      BY <1>3, <2>2, <3>2 DEF WidgetInv
    <3>4. PendingInv(Without(i), shown, widget', server)
      <4>1. widget'.wf # None /\ widget'.wf.id # DemoId
        BY <1>3, <2>2, <3>2
      <4> QED
        BY <1>1, <3>2, <4>1, WidgetKeeps
    <3> QED
      BY <3>3, <3>4
  <2>3. CASE widget.wf = None /\ widget' = [widget EXCEPT !.screen = "error"]
    <3>1. widget \in Widget
      BY <1>1 DEF WidgetInv
    <3>2. /\ widget' \in Widget /\ widget'.wf = widget.wf /\ widget'.screen = "error"
          /\ widget'.mock = widget.mock /\ widget'.acting = widget.acting
          /\ widget'.modal = widget.modal
      BY <2>3, <3>1 DEF Widget
    <3>3. WidgetInv(widget')
      BY <1>1, <2>3, <3>2 DEF WidgetInv
    <3>4. PendingInv(Without(i), shown, widget', server)
      BY <1>1, <3>2, WidgetKeeps
    <3> QED
      BY <3>3, <3>4
  <2> QED
    BY <1>2, <2>1, <2>2, <2>3
<1>6. host.selected = None => widget' = Mounted
  BY <1>1, <1>2, <1>4
<1>7. Len(pending') <= MaxPending + 1
  BY <1>1, <1>2, PagesAssumption
<1> QED
  BY <1>1, <1>2, <1>5, <1>6, <1>7 DEF IInv, ServerInv, RestInv, UnmountedInv

\* A decision is over: no other is in flight, so that the widget may turn to its outcome.
LEMMA PostReturnsKeeps ==
  ASSUME IInv, NEW i \in DOMAIN pending, PostReturns(i)
  PROVE  IInv'
<1> DEFINE r == pending[i]
           done == [widget EXCEPT !.acting = FALSE]
           list == FetchWorkflows(r.tenant, r.id, None)
<1>1. /\ PendingInv(Without(i), shown, widget, server) /\ WidgetInv(widget)
      /\ Len(Without(i)) \in Nat /\ Len(Without(i)) + 1 <= MaxPending + 1
      /\ host.selected = None => widget = Mounted /\ NoneMine(Without(i))
      /\ Act(r) => \A j \in DOMAIN Without(i) : ~Act(Without(i)[j])
  BY AfterOne
<1>2. /\ r.kind \in {"post", "preview"} /\ r.pc = "answered"
      /\ widget' = IF ~r.mine THEN widget
                   ELSE IF r.body = None THEN done
                   ELSE [done EXCEPT !.wf = r.body, !.screen = "workflow", !.modal = FALSE]
      /\ pending' = IF r.body = None THEN Without(i) ELSE Append(Without(i), list)
      /\ UNCHANGED <<server, page, session, host, shown, approved, inputs, faults>>
  BY DEF PostReturns, histories, counters
<1>3. /\ RequestInv(r, shown, widget) /\ r.body \in Snapshot \cup {None}
      /\ r.tenant \in Tenants /\ r.id \in Workflows
  BY <1>2, PendingFacts DEF RequestInv
<1>4. host.selected = None => ~r.mine
  BY <1>2 DEF IInv, UnmountedInv, NoneMine, Mine
<1>5. list \in Request /\ Benign(list) /\ list.kind = "list"
  BY <1>3, FetchWorkflowsFacts
<1> HIDE DEF r, list
<1>6. WidgetInv(widget') /\ PendingInv(Without(i), shown, widget', server)
  <2>1. CASE ~r.mine
    BY <1>1, <1>2, <2>1
  <2>2. CASE r.mine
    <3>1. PendingInv(Without(i), shown, widget', server)
      <4>1. \A j \in DOMAIN Without(i) : ~Act(Without(i)[j])
        BY <1>1, <1>2, <2>2 DEF Act
      <4> QED
        BY <1>1, <4>1, IdleWidgetKeeps
    <3>2. widget \in Widget
      BY <1>1 DEF WidgetInv
    <3>3. CASE r.body = None
      <4>1. /\ widget' \in Widget /\ widget'.wf = widget.wf /\ widget'.screen = widget.screen
            /\ widget'.mock = widget.mock /\ widget'.modal = widget.modal
        BY <1>2, <2>2, <3>2, <3>3 DEF Widget
      <4>2. WidgetInv(widget')
        BY <1>1, <4>1 DEF WidgetInv
      <4> QED
        BY <3>1, <4>2
    <3>4. CASE r.body # None
      <4>1. /\ widget' \in Widget /\ widget'.wf = r.body /\ widget'.screen = "workflow"
            /\ widget'.mock = widget.mock /\ ~widget'.modal
        BY <1>2, <1>3, <2>2, <3>2, <3>4 DEF Widget
      <4>2. Good(r.body)
        BY <1>2, <1>3, <3>4 DEF RequestInv
      <4>3. WidgetInv(widget')
        BY <3>4, <4>1, <4>2 DEF WidgetInv
      <4> QED
        BY <3>1, <4>3
    <3> QED
      BY <3>3, <3>4
  <2> QED
    BY <1>3, <2>1, <2>2
<1>7. /\ PendingInv(pending', shown, widget', server) /\ Len(pending') <= Len(Without(i)) + 1
      /\ NoneMine(Without(i)) => NoneMine(pending')
  <2>1. CASE r.body = None
    BY <1>1, <1>2, <1>6, <2>1
  <2>2. CASE r.body # None
    <3>1. pending' = Append(Without(i), list)
      BY <1>2, <2>2
    <3> QED
      BY <1>1, <1>5, <1>6, <3>1, AppendKeeps
  <2> QED
    BY <2>1, <2>2
<1>8. host.selected = None => widget' = Mounted
  BY <1>1, <1>2, <1>4
<1>9. Len(pending') <= MaxPending + 1
  <2>1. Len(pending') \in Nat
    BY <1>7 DEF PendingInv
  <2> QED
    BY <1>1, <1>7, <2>1, PagesAssumption
<1> QED
  BY <1>1, <1>2, <1>6, <1>7, <1>8, <1>9 DEF IInv, ServerInv, RestInv, UnmountedInv

LEMMA CreateReturnsKeeps ==
  ASSUME IInv, NEW i \in DOMAIN pending, CreateReturns(i)
  PROVE  IInv'
<1> DEFINE r == pending[i]
           list == FetchWorkflows(r.tenant, r.id, r.id)
<1>1. /\ PendingInv(Without(i), shown, widget, server) /\ WidgetInv(widget)
      /\ Len(Without(i)) \in Nat /\ Len(Without(i)) + 1 <= MaxPending + 1
      /\ host.selected = None => widget = Mounted /\ NoneMine(Without(i))
  BY AfterOne
<1>2. /\ host' = [host EXCEPT !.form = FALSE]
      /\ pending' = Append(Without(i), list)
      /\ UNCHANGED <<server, page, session, widget, shown, approved, inputs, faults>>
  BY DEF CreateReturns, histories, counters
<1>3. r.tenant \in Tenants /\ r.id \in Workflows \cup {None}
  BY PendingFacts
<1>4. list \in Request /\ Benign(list) /\ list.kind = "list"
  BY <1>3, FetchWorkflowsFacts
<1> HIDE DEF list
<1>5. /\ PendingInv(pending', shown, widget, server) /\ Len(pending') = Len(Without(i)) + 1
      /\ NoneMine(Without(i)) => NoneMine(pending')
  BY <1>1, <1>2, <1>4, AppendKeeps
<1>6. /\ host' \in [rows : SUBSET Workflows, selected : Workflows \cup {None}, form : BOOLEAN]
      /\ host'.selected = host.selected
  BY <1>2 DEF IInv, RestInv
<1> QED
  BY <1>1, <1>2, <1>5, <1>6 DEF IInv, ServerInv, RestInv, UnmountedInv

\* What becomes of the other side of a failed request is harmless.
LEMMA BrokenKeeps ==
  ASSUME IInv, NEW i \in DOMAIN pending, NEW reqs, reqs \in Broken(i)
  PROVE  /\ PendingInv(reqs, shown, widget, server) /\ Len(reqs) <= MaxPending + 1
         /\ host.selected = None => NoneMine(reqs)
         /\ Act(pending[i]) => \A j \in DOMAIN reqs : ~Act(reqs[j])
<1> DEFINE r == pending[i]
           r2 == [r EXCEPT !.asker = "nobody", !.mine = FALSE]
<1>1. /\ PendingInv(pending, shown, widget, server) /\ Len(pending) <= MaxPending + 1
      /\ host.selected = None => NoneMine(pending)
  BY DEF IInv, RestInv, UnmountedInv
<1>2. CASE reqs = Without(i)
  <2>1. /\ PendingInv(Without(i), shown, widget, server)
        /\ Len(Without(i)) \in Nat /\ Len(Without(i)) + 1 <= MaxPending + 1
        /\ host.selected = None => NoneMine(Without(i))
        /\ Act(pending[i]) => \A j \in DOMAIN Without(i) : ~Act(Without(i)[j])
    BY AfterOne
  <2>2. Len(Without(i)) <= MaxPending + 1
    BY <2>1, PagesAssumption
  <2> QED
    BY <1>2, <2>1, <2>2
<1>3. CASE /\ r.kind \in {"post", "create"} /\ r.asker = "tab" /\ r.pc # "answered"
           /\ reqs = [pending EXCEPT ![i].asker = "nobody", ![i].mine = FALSE]
  <2>1. pending \in Seq(Request) /\ r \in Request
        /\ RequestInv(r, shown, widget) /\ HandlerInv(r, server)
        /\ \A j \in DOMAIN pending : HandlerInv(pending[j], server)
    BY <1>1 DEF PendingInv
  <2>2. Answered(reqs, pending, i, r2)
    BY <1>3, <2>1 DEF Answered
  <2>3. /\ r2 \in Request /\ r2.kind = r.kind /\ r2.mine = FALSE /\ r2.asker = "nobody"
        /\ r2.id = r.id /\ r2.action = r.action /\ r2.target = r.target
        /\ r2.pc = r.pc /\ r2.body = r.body /\ r2.toSkip = r.toSkip
    BY <2>1 DEF Request
  <2> HIDE DEF r, r2
  <2>4. RequestInv(r2, shown, widget)
    BY <1>3, <2>1, <2>3 DEF RequestInv, Act
  <2>5. HandlerInv(r2, server)
    BY <2>1, <2>3 DEF HandlerInv, Writing
  <2>6. r2.pc = "insert" =>
          \A j \in DOMAIN pending : j # i /\ pending[j].pc = "insert" => pending[j].id # r2.id
    BY <1>1, <2>3 DEF PendingInv, r
  <2>7. /\ PendingInv(reqs, shown, widget, server) /\ Len(reqs) = Len(pending)
        /\ NoneMine(pending) => NoneMine(reqs)
    BY <1>1, <2>1, <2>2, <2>3, <2>4, <2>5, <2>6, ChangeKeeps DEF r
  <2>8. Act(pending[i]) => \A j \in DOMAIN reqs : ~Act(reqs[j])
    <3>1. DOMAIN reqs = DOMAIN pending
          /\ \A j \in DOMAIN reqs : reqs[j] = IF j = i THEN r2 ELSE pending[j]
      BY <2>1, <2>2 DEF Answered
    <3>2. \A j \in DOMAIN pending : Act(pending[i]) /\ Act(pending[j]) => i = j
      BY <1>1 DEF PendingInv
    <3> QED
      BY <2>3, <3>1, <3>2 DEF Act
  <2> QED
    BY <1>1, <2>7, <2>8
<1> QED
  BY <1>2, <1>3 DEF Broken

\* A failure ends a request for the tab as an answer does, and brings nothing.
LEMMA RequestFailsKeeps ==
  ASSUME IInv, NEW i \in DOMAIN pending, RequestFails(i)
  PROVE  IInv'
<1> DEFINE r == pending[i]
<1>1. /\ PendingInv(Without(i), shown, widget, server) /\ WidgetInv(widget)
      /\ Len(Without(i)) \in Nat /\ Len(Without(i)) + 1 <= MaxPending + 1
      /\ host.selected = None => widget = Mounted /\ NoneMine(Without(i))
  BY AfterOne
<1>2. /\ faults < MaxFaults /\ faults' = faults + 1
      /\ UNCHANGED <<server, page, session, shown, approved, inputs>>
  BY DEF RequestFails, Fault, histories
<1>3. faults' \in 0..MaxFaults
  BY <1>2, PagesAssumption DEF IInv, RestInv
<1>4. CASE r.kind = "list" /\ r.id # None /\ r.id # host.selected
  <2>1. /\ host' = [host EXCEPT !.selected = r.id]
        /\ Selecting(r.id, session.tenant, Without(i))
    BY <1>4 DEF RequestFails
  <2>2. r.id \in Workflows \cup {None} /\ session.tenant \in Tenants
    BY PendingFacts DEF IInv, RestInv
  <2>3. /\ WidgetInv(widget') /\ PendingInv(pending', shown, widget', server)
        /\ Len(pending') <= Len(Without(i)) + 1
    BY <1>1, <2>1, <2>2, SelectingKeeps
  <2>4. Len(pending') <= MaxPending + 1
    <3>1. Len(pending') \in Nat
      BY <2>3 DEF PendingInv
    <3> QED
      BY <1>1, <2>3, <3>1, PagesAssumption
  <2> HIDE DEF r
  <2>5. /\ host' \in [rows : SUBSET Workflows, selected : Workflows \cup {None}, form : BOOLEAN]
        /\ host'.selected # None
    BY <1>4, <2>1, <2>2 DEF IInv, RestInv
  <2> QED
    BY <1>2, <1>3, <2>3, <2>4, <2>5 DEF IInv, ServerInv, RestInv, UnmountedInv
<1>5. CASE ~(r.kind = "list" /\ r.id # None /\ r.id # host.selected)
  <2>1. /\ pending' \in Broken(i) /\ host' = host
        /\ widget' = CASE r.kind = "get" /\ r.mine /\ widget.wf = None ->
                            [widget EXCEPT !.screen = "error"]
                       [] r.kind = "post" /\ r.mine -> [widget EXCEPT !.acting = FALSE]
                       [] OTHER -> widget
    BY <1>5 DEF RequestFails
  <2>2. widget \in Widget
    BY <1>1 DEF WidgetInv
  <2>3. host.selected = None => ~(r.kind \in {"get", "post"} /\ r.mine)
    BY DEF IInv, UnmountedInv, NoneMine, Mine
  <2>4. /\ PendingInv(pending', shown, widget, server) /\ Len(pending') <= MaxPending + 1
        /\ host.selected = None => NoneMine(pending')
        /\ Act(r) => \A j \in DOMAIN pending' : ~Act(pending'[j])
    BY <2>1, BrokenKeeps
  <2> HIDE DEF r
  <2>5. /\ WidgetInv(widget') /\ PendingInv(pending', shown, widget', server)
        /\ host.selected = None => widget' = Mounted
    <3>1. CASE r.kind = "get" /\ r.mine /\ widget.wf = None
      <4>1. widget' = [widget EXCEPT !.screen = "error"]
        BY <2>1, <3>1
      <4>2. /\ widget' \in Widget /\ widget'.wf = widget.wf /\ widget'.screen = "error"
            /\ widget'.mock = widget.mock /\ widget'.acting = widget.acting
            /\ widget'.modal = widget.modal
        BY <2>2, <4>1 DEF Widget
      <4>3. WidgetInv(widget')
        BY <1>1, <3>1, <4>2 DEF WidgetInv
      <4>4. PendingInv(pending', shown, widget', server)
        BY <2>4, <4>2, WidgetKeeps
      <4> QED
        BY <2>3, <3>1, <4>3, <4>4
    <3>2. CASE r.kind = "post" /\ r.mine
      <4>1. widget' = [widget EXCEPT !.acting = FALSE]
        BY <2>1, <3>2
      <4>2. /\ widget' \in Widget /\ widget'.wf = widget.wf /\ widget'.screen = widget.screen
            /\ widget'.mock = widget.mock /\ widget'.modal = widget.modal
        BY <2>2, <4>1 DEF Widget
      <4>3. WidgetInv(widget')
        BY <1>1, <4>2 DEF WidgetInv
      <4>4. \A j \in DOMAIN pending' : ~Act(pending'[j])
        BY <2>4, <3>2 DEF Act
      <4>5. PendingInv(pending', shown, widget', server)
        BY <2>4, <4>4, IdleWidgetKeeps
      <4> QED
        BY <2>3, <3>2, <4>3, <4>5
    <3>3. CASE widget' = widget
      BY <1>1, <2>4, <3>3
    <3> QED
      BY <2>1, <3>1, <3>2, <3>3
  <2> QED
    BY <1>2, <1>3, <2>1, <2>4, <2>5 DEF IInv, ServerInv, RestInv, UnmountedInv
<1> QED
  BY <1>4, <1>5

\* What the user's actions start from.
LEMMA UserFacts ==
  ASSUME IInv
  PROVE  /\ PendingInv(pending, shown, widget, server) /\ WidgetInv(widget)
         /\ pending \in Seq(Request) /\ Len(pending) \in Nat
         /\ widget \in Widget /\ widget.mock \in BOOLEAN
         /\ session.tenant \in Tenants /\ session.user \in Users
         /\ host.selected \in Workflows \cup {None}
         /\ host.selected = None => widget = Mounted /\ NoneMine(pending)
         /\ Click => inputs' \in 0..MaxInputs /\ Len(pending) < MaxPending
<1>1. PendingInv(pending, shown, widget, server) /\ WidgetInv(widget)
  BY DEF IInv
<1>2. /\ pending \in Seq(Request) /\ Len(pending) \in Nat
      /\ widget \in Widget /\ widget.mock \in BOOLEAN
  BY <1>1 DEF PendingInv, WidgetInv, Widget
<1>3. Click => inputs' \in 0..MaxInputs /\ Len(pending) < MaxPending
  BY PagesAssumption DEF IInv, RestInv, Click, Input, Room
<1> QED
  BY <1>1, <1>2, <1>3 DEF IInv, RestInv, UnmountedInv

LEMMA SelectRowKeeps ==
  ASSUME IInv, NEW w \in Workflows, SelectRow(w)
  PROVE  IInv'
<1>1. /\ PendingInv(pending, shown, widget, server) /\ WidgetInv(widget) /\ Len(pending) \in Nat
      /\ session.tenant \in Tenants /\ w \in Workflows \cup {None} /\ w # None
      /\ host.selected = None => widget = Mounted /\ NoneMine(pending)
  BY UserFacts, WidgetAssumption DEF Ids
<1>2. inputs' \in 0..MaxInputs /\ Len(pending) < MaxPending
  BY UserFacts DEF SelectRow
<1>3. /\ host' = [host EXCEPT !.selected = w] /\ Selecting(w, session.tenant, pending)
      /\ UNCHANGED <<server, page, session, shown, approved, faults>>
  BY DEF SelectRow, histories
<1>4. /\ WidgetInv(widget') /\ PendingInv(pending', shown, widget', server)
      /\ Len(pending') <= Len(pending) + 1
  BY <1>1, <1>3, SelectingKeeps
<1>5. Len(pending') <= MaxPending + 1
  <2>1. Len(pending') \in Nat
    BY <1>4 DEF PendingInv
  <2> QED
    BY <1>1, <1>2, <1>4, <2>1, PagesAssumption
<1>6. /\ host' \in [rows : SUBSET Workflows, selected : Workflows \cup {None}, form : BOOLEAN]
      /\ host'.selected = w
  BY <1>3 DEF IInv, RestInv
<1> QED
  BY <1>1, <1>2, <1>3, <1>4, <1>5, <1>6 DEF IInv, ServerInv, RestInv, UnmountedInv

LEMMA RefreshKeeps ==
  ASSUME IInv, Refresh
  PROVE  IInv'
<1> DEFINE list == FetchWorkflows(session.tenant, host.selected, None)
<1>1. /\ PendingInv(pending, shown, widget, server) /\ Len(pending) \in Nat
      /\ session.tenant \in Tenants
  BY UserFacts
<1>2. inputs' \in 0..MaxInputs /\ Len(pending) < MaxPending
  BY UserFacts DEF Refresh
<1>3. /\ pending' = Append(pending, list)
      /\ UNCHANGED <<server, page, session, host, widget, shown, approved, faults>>
  BY DEF Refresh, histories
<1>4. list \in Request /\ Benign(list) /\ list.kind = "list"
  BY <1>1, FetchWorkflowsFacts
<1> HIDE DEF list
<1>5. /\ PendingInv(pending', shown, widget, server) /\ Len(pending') = Len(pending) + 1
      /\ NoneMine(pending) => NoneMine(pending')
  BY <1>1, <1>3, <1>4, AppendKeeps
<1>6. Len(pending') <= MaxPending + 1
  BY <1>1, <1>2, <1>5, PagesAssumption
<1> QED
  BY <1>2, <1>3, <1>5, <1>6 DEF IInv, ServerInv, RestInv, UnmountedInv

\* Another tenant or user asks anew; the selection and the widget stay.
LEMMA SwitchKeeps ==
  ASSUME IInv, NEW s \in [tenant : Tenants, user : Users], Switch(s)
  PROVE  IInv'
<1> DEFINE list == FetchWorkflows(s.tenant, host.selected, None)
           lists == IF s.tenant # session.tenant THEN <<list>> ELSE <<>>
           reqs == pending \o lists
           get == IF IsMounted THEN FetchWorkflow(widget.mock, s.tenant, host.selected) ELSE <<>>
<1>1. /\ PendingInv(pending, shown, widget, server) /\ WidgetInv(widget)
      /\ pending \in Seq(Request) /\ Len(pending) \in Nat
      /\ widget.mock \in BOOLEAN /\ s.tenant \in Tenants
      /\ host.selected \in Workflows \cup {None}
      /\ host.selected = None => widget = Mounted /\ NoneMine(pending)
  BY UserFacts
<1>2. inputs' \in 0..MaxInputs /\ Len(pending) < MaxPending
  BY UserFacts DEF Switch
<1>3. /\ session' = s
      /\ widget' = IF IsMounted THEN Loading(widget) ELSE widget
      /\ pending' = reqs \o get
      /\ UNCHANGED <<server, page, host, shown, approved, faults>>
  BY DEF Switch, histories
<1>4. list \in Request /\ Benign(list) /\ list.kind = "list"
  BY <1>1, FetchWorkflowsFacts
<1> HIDE DEF list
<1>5. /\ PendingInv(reqs, shown, widget, server) /\ reqs \in Seq(Request) /\ Len(reqs) \in Nat
      /\ Len(reqs) <= Len(pending) + 1
      /\ NoneMine(pending) => NoneMine(reqs)
  <2>1. CASE s.tenant # session.tenant
    <3>1. reqs = Append(pending, list)
      <4>1. lists = <<list>>
        BY <2>1
      <4> QED
        BY <1>1, <1>4, <4>1
    <3> HIDE DEF reqs
    <3>2. /\ PendingInv(reqs, shown, widget, server) /\ Len(reqs) = Len(pending) + 1
          /\ NoneMine(pending) => NoneMine(reqs)
      BY <1>1, <1>4, <3>1, AppendKeeps
    <3>3. reqs \in Seq(Request)
      BY <3>2 DEF PendingInv
    <3> QED
      BY <1>1, <3>2, <3>3
  <2>2. CASE s.tenant = session.tenant
    <3>1. reqs = pending
      <4>1. lists = <<>>
        BY <2>2
      <4> QED
        BY <1>1, <4>1
    <3> HIDE DEF reqs
    <3> QED
      BY <1>1, <3>1
  <2> QED
    BY <2>1, <2>2
<1> HIDE DEF reqs, lists
<1>6. WidgetInv(widget') /\ PendingInv(reqs, shown, widget', server)
      /\ (host.selected = None => widget' = widget)
  <2>1. CASE IsMounted
    <3>1. widget' = Loading(widget)
      BY <1>3, <2>1
    <3>2. /\ WidgetInv(widget') /\ widget'.wf = widget.wf /\ widget'.mock = widget.mock
          /\ widget'.acting = widget.acting
      BY <1>1, <3>1, LoadingFacts
    <3>3. PendingInv(reqs, shown, widget', server)
      BY <1>5, <3>2, WidgetKeeps
    <3> QED
      BY <2>1, <3>2, <3>3 DEF IsMounted
  <2>2. CASE ~IsMounted
    BY <1>1, <1>3, <1>5, <2>2
  <2> QED
    BY <2>1, <2>2
<1>7. /\ PendingInv(pending', shown, widget', server) /\ Len(pending') <= Len(reqs) + 1
      /\ host.selected = None => pending' = reqs
  <2>1. CASE IsMounted
    <3>1. pending' = reqs \o FetchWorkflow(widget.mock, s.tenant, host.selected)
          /\ host.selected \in Workflows /\ host.selected # None
      BY <1>1, <1>3, <2>1 DEF IsMounted
    <3> QED
      BY <1>1, <1>6, <3>1, FetchKeeps
  <2>2. CASE ~IsMounted
    <3>1. pending' = reqs
      BY <1>3, <1>5, <2>2
    <3> QED
      BY <1>5, <1>6, <3>1
  <2> QED
    BY <2>1, <2>2
<1>8. Len(pending') <= MaxPending + 1
  <2>1. Len(pending') \in Nat
    BY <1>7 DEF PendingInv
  <2>2. Len(pending') <= Len(pending) + 2 /\ Len(pending) < MaxPending
    BY <1>1, <1>2, <1>5, <1>7, <2>1
  <2> QED
    BY <1>1, <2>1, <2>2, PagesAssumption
<1> HIDE DEF get
<1> QED
  BY <1>1, <1>2, <1>3, <1>5, <1>6, <1>7, <1>8 DEF IInv, ServerInv, RestInv, UnmountedInv

LEMMA FormKeeps ==
  ASSUME IInv, OpenForm \/ CloseForm
  PROVE  IInv'
<1>1. PICK b \in BOOLEAN : host' = [host EXCEPT !.form = b]
  BY DEF OpenForm, CloseForm
<1>2. inputs' \in 0..MaxInputs
  BY UserFacts DEF OpenForm, CloseForm, counters, IInv, RestInv
<1>3. UNCHANGED <<server, page, session, widget, pending, shown, approved, faults>>
  BY DEF OpenForm, CloseForm, counters, histories
<1>4. /\ host' \in [rows : SUBSET Workflows, selected : Workflows \cup {None}, form : BOOLEAN]
      /\ host'.selected = host.selected
  BY <1>1 DEF IInv, RestInv
<1> QED
  BY <1>2, <1>3, <1>4 DEF IInv, ServerInv, RestInv, UnmountedInv

LEMMA SubmitFormKeeps ==
  ASSUME IInv, SubmitForm
  PROVE  IInv'
<1> DEFINE create == Ask("create", session.tenant, None)
<1>1. /\ PendingInv(pending, shown, widget, server) /\ Len(pending) \in Nat
      /\ session.tenant \in Tenants
  BY UserFacts
<1>2. inputs' \in 0..MaxInputs /\ Len(pending) < MaxPending
  BY UserFacts DEF SubmitForm
<1>3. /\ pending' = Append(pending, create)
      /\ UNCHANGED <<server, page, session, host, widget, shown, approved, faults>>
  BY DEF SubmitForm, histories
<1>4. create \in Request /\ Benign(create) /\ create.kind = "create"
  BY <1>1, AskFacts
<1> HIDE DEF create
<1>5. /\ PendingInv(pending', shown, widget, server) /\ Len(pending') = Len(pending) + 1
      /\ NoneMine(pending) => NoneMine(pending')
  BY <1>1, <1>3, <1>4, AppendKeeps
<1>6. Len(pending') <= MaxPending + 1
  BY <1>1, <1>2, <1>5, PagesAssumption
<1> QED
  BY <1>2, <1>3, <1>5, <1>6 DEF IInv, ServerInv, RestInv, UnmountedInv

\* The modal is open over a workflow that waits, as long as that is the preview's.
LEMMA ModalKeeps ==
  ASSUME IInv, OpenModal \/ CloseModal
  PROVE  IInv'
<1>1. /\ PendingInv(pending, shown, widget, server) /\ WidgetInv(widget) /\ widget \in Widget
      /\ host.selected = None => widget = Mounted /\ NoneMine(pending)
  BY UserFacts
<1>2. UNCHANGED <<server, page, session, host, pending, shown, approved, inputs, faults>>
  BY DEF OpenModal, CloseModal, counters, histories
<1>3. PICK b \in BOOLEAN :
        /\ widget' = [widget EXCEPT !.modal = b]
        /\ b => widget.wf # None /\ widget.wf.status = "PENDING"
  BY DEF OpenModal, CloseModal, Offers, OffersDecision
<1>4. host.selected # None
  BY <1>1 DEF OpenModal, CloseModal, IsMounted, Mounted
<1>5. /\ widget' \in Widget /\ widget'.wf = widget.wf /\ widget'.screen = widget.screen
      /\ widget'.mock = widget.mock /\ widget'.acting = widget.acting /\ widget'.modal = b
  BY <1>1, <1>3 DEF Widget
<1>6. WidgetInv(widget')
  BY <1>1, <1>3, <1>5 DEF WidgetInv
<1>7. PendingInv(pending, shown, widget', server)
  BY <1>1, <1>5, WidgetKeeps
<1> QED
  BY <1>2, <1>4, <1>6, <1>7 DEF IInv, ServerInv, RestInv, UnmountedInv

LEMMA RetryKeeps ==
  ASSUME IInv, Retry
  PROVE  IInv'
<1>1. /\ PendingInv(pending, shown, widget, server) /\ WidgetInv(widget) /\ Len(pending) \in Nat
      /\ session.tenant \in Tenants /\ host.selected \in Workflows \cup {None}
  BY UserFacts
<1>2. inputs' \in 0..MaxInputs /\ Len(pending) < MaxPending
  BY UserFacts DEF Retry
<1>3. /\ host.selected # None /\ widget' = Loading(widget)
      /\ pending' = pending \o FetchWorkflow(FALSE, session.tenant, host.selected)
      /\ UNCHANGED <<server, page, session, host, shown, approved, faults>>
  BY DEF Retry, IsMounted, histories
<1>4. /\ WidgetInv(widget') /\ widget'.wf = widget.wf /\ widget'.mock = widget.mock
      /\ widget'.acting = widget.acting
  BY <1>1, <1>3, LoadingFacts
<1>5. PendingInv(pending, shown, widget', server)
  BY <1>1, <1>4, WidgetKeeps
<1>6. PendingInv(pending', shown, widget', server) /\ Len(pending') <= Len(pending) + 1
  <2>1. FALSE \in BOOLEAN /\ host.selected \in Workflows
    BY <1>1, <1>3
  <2> QED
    BY <1>1, <1>3, <1>5, <2>1, FetchKeeps
<1>7. Len(pending') <= MaxPending + 1
  <2>1. Len(pending') \in Nat
    BY <1>6 DEF PendingInv
  <2> QED
    BY <1>1, <1>2, <1>6, <2>1, PagesAssumption
<1> QED
  BY <1>2, <1>3, <1>4, <1>6, <1>7 DEF IInv, ServerInv, RestInv, UnmountedInv

\* The preview begins where there is no workflow to show.
LEMMA ActivateMockModeKeeps ==
  ASSUME IInv, ActivateMockMode
  PROVE  IInv'
<1>1. /\ PendingInv(pending, shown, widget, server) /\ WidgetInv(widget) /\ widget \in Widget
  BY UserFacts
<1>2. inputs' \in 0..MaxInputs /\ Len(pending) < MaxPending
  BY UserFacts DEF ActivateMockMode
<1>3. /\ host.selected # None /\ widget.wf = None /\ ~widget.modal
      /\ widget' = [widget EXCEPT !.wf = Fresh(DemoId), !.screen = "workflow", !.mock = TRUE]
      /\ UNCHANGED <<server, page, session, host, pending, shown, approved, faults>>
  BY <1>1 DEF ActivateMockMode, IsMounted, WidgetInv, histories
<1>4. Fresh(DemoId) \in Snapshot /\ Fresh(DemoId) # None /\ Good(Fresh(DemoId))
  BY FreshFacts DEF Ids
<1> HIDE DEF Fresh
<1>5. /\ widget' \in Widget /\ widget'.wf = Fresh(DemoId) /\ widget'.screen = "workflow"
      /\ widget'.mock = TRUE /\ widget'.acting = widget.acting /\ ~widget'.modal
  BY <1>1, <1>3, <1>4 DEF Widget
<1>6. WidgetInv(widget')
  BY <1>4, <1>5 DEF WidgetInv
<1>7. PendingInv(pending, shown, widget', server)
  BY <1>1, <1>3, <1>5, WidgetKeeps
<1> QED
  BY <1>2, <1>3, <1>6, <1>7 DEF IInv, ServerInv, RestInv, UnmountedInv

\* What is clicked is what is shown: an approval is for a step that awaits a verdict, and
\* is remembered; a decision of the preview is one it offered.
LEMMA ExecuteActionKeeps ==
  ASSUME IInv, NEW action \in Actions, ExecuteAction(action)
  PROVE  IInv'
<1> DEFINE wf == widget.wf
           step == PrimaryApprovableStep(session.user, wf)
           target == [id |-> wf.id, step |-> step]
           outcome == MockAct(wf, action, step)
           post == [Ask("post", session.tenant, host.selected) EXCEPT
                      !.action = action, !.target = target]
           preview == [Ask("preview", session.tenant, host.selected) EXCEPT
                         !.pc = "answered", !.body = outcome]
           r == IF widget.mock THEN preview ELSE post
<1>1. /\ PendingInv(pending, shown, widget, server) /\ WidgetInv(widget) /\ widget \in Widget
      /\ Len(pending) \in Nat /\ widget.mock \in BOOLEAN
      /\ session.tenant \in Tenants /\ session.user \in Users
  BY UserFacts
<1>2. inputs' \in 0..MaxInputs /\ Len(pending) < MaxPending
  <2>1. CASE widget.mock
    BY <2>1 DEF ExecuteAction, Room, IInv, RestInv
  <2>2. CASE ~widget.mock
    BY <2>2, UserFacts DEF ExecuteAction
  <2> QED
    BY <2>1, <2>2
<1>3. /\ host.selected \in Workflows /\ host.selected # None /\ wf # None /\ ~widget.acting
      /\ widget' = [widget EXCEPT !.acting = TRUE]
      /\ pending' = Append(pending, r)
      /\ shown' = IF action = "approve" /\ ~widget.mock THEN shown \cup {target} ELSE shown
      /\ UNCHANGED <<server, page, session, host, approved, faults>>
  BY DEF ExecuteAction, IsMounted, IInv, RestInv
<1>4. wf \in Snapshot /\ wf.id \in Ids
  BY <1>1, <1>3, SnapshotParts DEF Widget
<1>5. /\ step \in {0} \cup DOMAIN Plan[wf.id]
      /\ ApprovableSteps(session.user, wf) # {} => step \in CurrentPendingSteps(wf)
  BY <1>4, PrimaryStep
<1>6. /\ action = "submit" => wf.status = "DRAFT"
      /\ action = "approve" => wf.status = "PENDING" /\ step \in CurrentPendingSteps(wf)
      /\ action = "reject" => widget.modal
      /\ action = "cancel" => wf.status \in {"DRAFT", "PENDING"}
  BY <1>5 DEF ExecuteAction, Offers, OffersSubmit, OffersDecision, OffersCancel
<1>7. target \in Targets /\ shown \subseteq shown' /\ shown' \subseteq Targets
  BY <1>3, <1>4, <1>5 DEF Targets, IInv, RestInv
<1> HIDE DEF step
<1>8. /\ outcome \in Snapshot /\ outcome # None /\ outcome.id = wf.id
      /\ Good(outcome) /\ (wf.id = DemoId => Decision(wf, outcome))
  <2>1. /\ MockAct(wf, action, step) \in Snapshot /\ MockAct(wf, action, step).id = wf.id
        /\ Good(wf) => Good(MockAct(wf, action, step))
    BY <1>4, <1>6, MockFacts
  <2>2. wf.id = DemoId => Decision(wf, outcome)
    BY <1>1, <1>3, <1>5, <1>6 DEF Decision, WidgetInv
  <2>3. Good(wf)
    BY <1>1, <1>3 DEF WidgetInv
  <2> HIDE DEF wf
  <2>4. outcome \in Snapshot /\ outcome.id = wf.id /\ Good(outcome)
    BY <2>1, <2>3
  <2> QED
    BY <2>2, <2>4, SnapshotParts
<1> HIDE DEF outcome, target
<1>9. /\ widget' \in Widget /\ widget'.wf = wf /\ widget'.screen = widget.screen
      /\ widget'.mock = widget.mock /\ widget'.acting = TRUE /\ widget'.modal = widget.modal
  BY <1>1, <1>3 DEF Widget
<1>10. WidgetInv(widget')
  BY <1>1, <1>9 DEF WidgetInv
<1>11. PendingInv(pending, shown', widget', server) /\ \A i \in DOMAIN pending : ~Act(pending[i])
  <2>1. PendingInv(pending, shown', widget', server)
    BY <1>1, <1>7, <1>9, WidgetKeeps
  <2>2. \A i \in DOMAIN pending : ~Act(pending[i])
    BY <1>1, <1>3 DEF PendingInv, RequestInv
  <2> QED
    BY <2>1, <2>2
<1>12. /\ r \in Request /\ RequestInv(r, shown', widget') /\ HandlerInv(r, server)
       /\ r.pc # "insert"
  <2>1. CASE widget.mock
    <3>1. /\ r \in Request /\ r.kind = "preview" /\ r.id = host.selected
          /\ r.body = outcome /\ r.pc = "answered"
      BY <1>1, <1>3, <1>8, <2>1 DEF Ask, Request
    <3> HIDE DEF r
    <3> QED
      BY <1>3, <1>8, <1>9, <2>1, <3>1 DEF RequestInv, HandlerInv, Act
  <2>2. CASE ~widget.mock
    <3>1. /\ r \in Request /\ r.kind = "post" /\ r.id = host.selected
          /\ r.action = action /\ r.target = target /\ r.body = None /\ r.pc = "sent"
      BY <1>1, <1>3, <1>7, <2>2 DEF Ask, Request, Actions
    <3> HIDE DEF r
    <3>2. action = "approve" => target \in shown'
      BY <1>3, <2>2
    <3> QED
      BY <1>3, <1>7, <1>9, <3>1, <3>2 DEF RequestInv, HandlerInv, Act
  <2> QED
    BY <2>1, <2>2
<1> HIDE DEF r
<1>13. PendingInv(pending', shown', widget', server) /\ Len(pending') = Len(pending) + 1
  BY <1>3, <1>11, <1>12, JoinKeeps
<1>14. Len(pending') <= MaxPending + 1
  BY <1>1, <1>2, <1>13, PagesAssumption
<1> HIDE DEF wf
<1> QED
  BY <1>2, <1>3, <1>7, <1>10, <1>13, <1>14 DEF IInv, ServerInv, RestInv, UnmountedInv

\* Every step of the pages keeps the invariant.
LEMMA InvNext ==
  ASSUME IInv, [Next]_vars
  PROVE  IInv'
<1>1. CASE Answer
  BY <1>1, ListRowsKeeps, ReadRowKeeps, ReadStepsKeeps, DecideKeeps, MarkStepKeeps,
     SkipSiblingKeeps, UpdateRowKeeps, InsertRowKeeps, InsertStepsKeeps DEF Answer, Handler
<1>2. CASE Return
  BY <1>2, ListReturnsKeeps, GetReturnsKeeps, PostReturnsKeeps, CreateReturnsKeeps DEF Return
<1>3. CASE Poll
  BY <1>3, PollKeeps
<1>4. CASE User
  BY <1>4, SelectRowKeeps, SwitchKeeps, ExecuteActionKeeps, RefreshKeeps, FormKeeps,
     SubmitFormKeeps, ModalKeeps, RetryKeeps, ActivateMockModeKeeps DEF User, Actions
<1>5. CASE \E i \in DOMAIN pending : RequestFails(i) \/ InsertStepsFails(i)
  BY <1>5, RequestFailsKeeps, InsertStepsFailsKeeps
<1>6. CASE \E w \in Workflows : LiveEvent(w)
  BY <1>6, LiveEventKeeps
<1>7. CASE \E w \in Workflows : \E a \in {"submit", "cancel"} : Colleague(w, a, None)
  BY <1>7, ColleagueKeeps DEF Actions
<1>8. CASE \E w \in Workflows : \E a \in {"approve", "reject"}, k \in DOMAIN Plan[w] :
             Colleague(w, a, [id |-> w, step |-> k])
  <2>1. PICK w \in Workflows :
          \E a \in {"approve", "reject"}, k \in DOMAIN Plan[w] :
            Colleague(w, a, [id |-> w, step |-> k])
    BY <1>8
  <2>2. PICK a \in {"approve", "reject"}, k \in DOMAIN Plan[w] :
          Colleague(w, a, [id |-> w, step |-> k])
    BY <2>1
  <2>3. [id |-> w, step |-> k] \in Targets
    BY DEF Targets, Ids
  <2> QED
    BY <2>2, <2>3, ColleagueKeeps DEF Actions
<1>9. CASE UNCHANGED vars
  BY <1>9 DEF vars, histories, counters, IInv, ServerInv, RestInv, UnmountedInv
<1> QED
  BY <1>1, <1>2, <1>3, <1>4, <1>5, <1>6, <1>7, <1>8, <1>9 DEF Next

\* The pages, their requests and workflow-api stay in the invariant.
THEOREM PagesInvariant == Spec => []IInv
<1>1. Init => IInv
  BY InitInvariant
<1>2. IInv /\ [Next]_vars => IInv'
  BY InvNext
<1> QED
  BY <1>1, <1>2, PTL DEF Spec

-----------------------------------------------------------------------------
(* What the runs check.                                                    *)

\* Whatever the pages hold is of its type: among it, that a widget shows a workflow
\* exactly when it has one, and that the requests in flight never outgrow their bound.
THEOREM PagesTypeCorrect == Spec => []TypeOK
<1>1. IInv => TypeOK
  <2> SUFFICES ASSUME IInv PROVE TypeOK
    OBVIOUS
  <2>1. pending \in Seq(Request) /\ widget \in Widget
        /\ (widget.screen = "workflow" <=> widget.wf # None)
    BY DEF IInv, PendingInv, WidgetInv
  <2> QED
    BY <2>1 DEF IInv, ServerInv, RestInv, TypeOK
<1> QED
  BY <1>1, PagesInvariant, PTL

\* However late the answers, and whatever is selected by then, a tab approves only what
\* its widget offered when it was clicked.
THEOREM ApprovalsWereShown == Spec => []NothingUnseenIsApproved
<1>1. IInv => NothingUnseenIsApproved
  BY DEF IInv, RestInv, NothingUnseenIsApproved
<1> QED
  BY <1>1, PagesInvariant, PTL

\* Whoever the widget shows behind its workflow has a verdict: however the SELECTs of the
\* answer fell between the statements of decisions, in any number and of any replica, and
\* whatever handlers were left unfinished.  No assumption is made of the plan.
THEOREM NobodyIsLeftWaiting == Spec => []NobodyWaitsBehind
<1>1. IInv => NobodyWaitsBehind
  <2> SUFFICES ASSUME IInv, widget.wf # None, NEW i \in DOMAIN Plan[widget.wf.id],
                      Plan[widget.wf.id][i].order < widget.wf.order \/ widget.wf.status = "APPROVED"
               PROVE  Caption(widget.wf, i) # "WAITING"
    BY DEF NobodyWaitsBehind
  <2>1. widget.wf.steps[i] \in Done
    BY DEF IInv, WidgetInv, Good, Passed
  <2> QED
    BY <2>1 DEF Caption, Done
<1> QED
  BY <1>1, PagesInvariant, PTL

\* What the preview makes of its workflow: a decision's outcome and nothing else.
LEMMA PreviewStep ==
  ASSUME IInv, [Next]_vars, widget.wf # None, widget'.wf # None,
         widget.wf.id = DemoId, widget'.wf.id = DemoId, widget'.wf # widget.wf
  PROVE  Decision(widget.wf, widget'.wf)
<1> DEFINE Kept == widget'.wf \in {widget.wf, None}
<1>1. ~Kept
  OBVIOUS
<1>2. \A id, tenant, reqs : Selecting(id, tenant, reqs) => Kept
  <2> SUFFICES ASSUME NEW id, NEW tenant, NEW reqs, Selecting(id, tenant, reqs) PROVE Kept
    OBVIOUS
  <2>1. widget' = Mounted \/ widget' = Loading(widget)
    BY DEF Selecting
  <2>2. widget' = Mounted => Kept
    BY DEF Mounted
  <2>3. WidgetInv(widget)
    BY DEF IInv
  <2> QED
    BY <2>1, <2>2, <2>3, LoadingFacts
<1>3. widget \in Widget
  BY DEF IInv, WidgetInv
<1>4. widget' = widget => Kept
  OBVIOUS
<1>5. \A w2 : widget' = [widget EXCEPT !.acting = w2] \/ widget' = [widget EXCEPT !.modal = w2]
              \/ widget' = [widget EXCEPT !.screen = w2] => Kept
  BY <1>3 DEF Widget
<1>6. widget' = Loading(widget) => Kept
  BY LoadingFacts DEF IInv
<1> HIDE DEF Kept
<1>7. ~Answer
  BY <1>1, <1>4 DEF Answer, Handler, ListRows, ReadRow, ReadSteps, Decide, MarkStep, SkipSibling,
     UpdateRow, InsertRow, InsertSteps
<1>8. CASE Return
  <2>1. PICK i \in DOMAIN pending :
          ListReturns(i) \/ GetReturns(i) \/ PostReturns(i) \/ CreateReturns(i)
    BY <1>8 DEF Return
  <2> DEFINE r == pending[i]
  <2>2. /\ RequestInv(r, shown, widget) /\ r.body \in Snapshot \cup {None}
    BY PendingFacts
  <2>3. ~ListReturns(i) /\ ~CreateReturns(i)
    BY <1>1, <1>2, <1>4 DEF ListReturns, CreateReturns
  <2>4. ~GetReturns(i)
    <3> SUFFICES ASSUME GetReturns(i) PROVE FALSE
      OBVIOUS
    <3>1. r.kind = "get"
          /\ \/ widget' = widget \/ widget' = [widget EXCEPT !.screen = "error"]
             \/ r.body # None /\ widget' = [widget EXCEPT !.wf = r.body, !.screen = "workflow"]
      BY DEF GetReturns
    <3>2. r.body # None /\ widget' = [widget EXCEPT !.wf = r.body, !.screen = "workflow"]
      BY <1>1, <1>4, <1>5, <3>1
    <3> HIDE DEF r
    <3>3. widget'.wf = r.body
      BY <1>3, <3>2 DEF Widget
    <3> QED
      BY <2>2, <3>1, <3>2, <3>3, WidgetAssumption DEF RequestInv
  <2>5. PostReturns(i)
    BY <2>1, <2>3, <2>4
  <2>6. /\ r.kind \in {"post", "preview"}
        /\ widget' = IF ~r.mine THEN widget
                     ELSE IF r.body = None THEN [widget EXCEPT !.acting = FALSE]
                     ELSE [[widget EXCEPT !.acting = FALSE] EXCEPT
                             !.wf = r.body, !.screen = "workflow", !.modal = FALSE]
    BY <2>5 DEF PostReturns
  <2>7. /\ r.mine /\ r.body # None
        /\ widget' = [[widget EXCEPT !.acting = FALSE] EXCEPT
                        !.wf = r.body, !.screen = "workflow", !.modal = FALSE]
    BY <1>1, <1>4, <1>5, <2>6
  <2> HIDE DEF r
  <2>8. widget'.wf = r.body
    BY <1>3, <2>7 DEF Widget
  <2>9. r.kind = "preview"
    BY <2>2, <2>6, <2>7, <2>8, WidgetAssumption DEF RequestInv
  <2> QED
    BY <2>2, <2>7, <2>8, <2>9 DEF RequestInv
<1>9. ~Poll
  BY <1>1, <1>4 DEF Poll
<1>10. ~User
  <2>1. ~(\E w \in Workflows : SelectRow(w))
    BY <1>1, <1>2 DEF SelectRow
  <2>2. ~(\E s \in [tenant : Tenants, user : Users] : Switch(s))
    BY <1>1, <1>4, <1>6 DEF Switch
  <2>3. ~(\E a \in {"submit", "approve", "reject", "cancel"} : ExecuteAction(a))
    BY <1>1, <1>5 DEF ExecuteAction
  <2>4. ~Refresh /\ ~OpenForm /\ ~SubmitForm /\ ~CloseForm
    BY <1>1, <1>4 DEF Refresh, OpenForm, SubmitForm, CloseForm
  <2>5. ~OpenModal /\ ~CloseModal
    BY <1>1, <1>5 DEF OpenModal, CloseModal
  <2>6. ~Retry
    BY <1>1, <1>6 DEF Retry
  <2>7. ~ActivateMockMode
    BY DEF ActivateMockMode, IInv, WidgetInv
  <2> QED
    BY <2>1, <2>2, <2>3, <2>4, <2>5, <2>6, <2>7 DEF User
<1>11. ~(\E i \in DOMAIN pending : RequestFails(i) \/ InsertStepsFails(i))
  <2> SUFFICES ASSUME NEW i \in DOMAIN pending, RequestFails(i) PROVE FALSE
    BY <1>1, <1>4 DEF InsertStepsFails
  <2> DEFINE r == pending[i]
  <2>1. \/ Selecting(r.id, session.tenant, Without(i))
        \/ widget' = CASE r.kind = "get" /\ r.mine /\ widget.wf = None ->
                            [widget EXCEPT !.screen = "error"]
                       [] r.kind = "post" /\ r.mine -> [widget EXCEPT !.acting = FALSE]
                       [] OTHER -> widget
    BY DEF RequestFails
  <2> HIDE DEF r
  <2> QED
    BY <1>1, <1>2, <1>4, <1>5, <2>1
<1>12. ~(\E w \in Workflows : LiveEvent(w))
  BY <1>1, <1>4 DEF LiveEvent
<1>13. ~(\E w, a, target : Colleague(w, a, target))
  BY <1>1, <1>4 DEF Colleague
<1>14. ~(UNCHANGED vars)
  BY <1>1, <1>4 DEF vars
<1> QED
  BY <1>7, <1>8, <1>9, <1>10, <1>11, <1>12, <1>13, <1>14 DEF Next

\* The preview shows after a decision what workflow-api would have answered, but for the
\* verdicts a rejection leaves.
THEOREM PreviewIsFaithful == Spec => PreviewKeepsTheRules
<1> DEFINE Rules ==
      LET wf == widget.wf  next == widget'.wf IN
      wf # None /\ next # None /\ wf.id = DemoId /\ next.id = DemoId /\ next # wf =>
        \E a \in {"submit", "approve", "reject", "cancel"}, i \in DOMAIN Plan[DemoId] :
          LET answer == Served(wf, a, [id |-> DemoId, step |-> i]) IN
          /\ answer # None /\ next.status = answer.status /\ next.order = answer.order
          /\ a # "reject" => next = answer
<1>1. IInv /\ [Next]_vars => [Rules]_vars
  <2> SUFFICES ASSUME IInv, [Next]_vars PROVE Rules
    OBVIOUS
  <2>1. CASE /\ widget.wf # None /\ widget'.wf # None /\ widget.wf.id = DemoId
             /\ widget'.wf.id = DemoId /\ widget'.wf # widget.wf
    <3>1. Decision(widget.wf, widget'.wf)
      BY <2>1, PreviewStep
    <3>2. widget.wf \in Snapshot
      BY <2>1 DEF IInv, WidgetInv, Widget
    <3>3. \E a \in Actions, i \in DOMAIN Plan[DemoId] :
            LET answer == Served(widget.wf, a, [id |-> DemoId, step |-> i]) IN
            /\ answer # None /\ widget'.wf.status = answer.status
            /\ widget'.wf.order = answer.order
            /\ a # "reject" => widget'.wf = answer
      BY <2>1, <3>1, <3>2, DecisionIsServed
    <3> QED
      BY <3>3 DEF Actions
  <2>2. CASE ~(/\ widget.wf # None /\ widget'.wf # None /\ widget.wf.id = DemoId
               /\ widget'.wf.id = DemoId /\ widget'.wf # widget.wf)
    BY <2>2
  <2> QED
    BY <2>1, <2>2
<1>2. PreviewKeepsTheRules <=> [][Rules]_vars
  BY DEF PreviewKeepsTheRules
<1> QED
  BY <1>1, <1>2, PagesInvariant, PTL DEF Spec
=============================================================================
