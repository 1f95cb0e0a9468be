-------------------------- MODULE RulesEngineProofs --------------------------
(***************************************************************************)
(* Machine-checked proofs about RulesEngine, for every set of rules,       *)
(* tenants and calls, all limits and all inputs: by which rule a workflow  *)
(* is planned, and which plans can be approved order after order.          *)
(***************************************************************************)
EXTENDS RulesEngine, FiniteSetTheorems, TLAPS

-----------------------------------------------------------------------------
(* The least and the greatest of a set.  The library defines Min and Max   *)
(* as choices; here is when there is something to choose.                  *)

HasLeast(S) == \E x \in S : \A y \in S : x =< y
HasGreatest(S) == \E x \in S : \A y \in S : x >= y

\* A finite set of integers has a least and a greatest element: a smallest set without
\* one would have both once any of its members is taken away.
LEMMA ExtremesExist ==
  ASSUME NEW S, IsFiniteSet(S), S \subseteq Int, S # {}
  PROVE  HasLeast(S) /\ HasGreatest(S)
<1> DEFINE Bad == {A \in SUBSET S : A # {} /\ ~(HasLeast(A) /\ HasGreatest(A))}
<1>1. SUFFICES Bad # {} => FALSE
  OBVIOUS
<1>2. SUFFICES ASSUME Bad # {} PROVE FALSE
  OBVIOUS
<1>3. IsWellFoundedOn(StrictSubsetOrdering(S), FiniteSubsetsOf(S))
  BY FS_StrictSubsetOrderingWellFounded
<1>4. Bad \subseteq FiniteSubsetsOf(S)
  BY FS_Subset DEF FiniteSubsetsOf
<1>5. PICK A \in Bad : \A B \in Bad : ~(<<B, A>> \in StrictSubsetOrdering(S))
  BY <1>2, <1>3, <1>4, WFMin
<1>6. PICK a \in A : TRUE
  OBVIOUS
<1>7. A \ {a} # {}
  BY <1>6 DEF HasLeast, HasGreatest
<1>8. A \ {a} \notin Bad
  BY <1>5, <1>6 DEF StrictSubsetOrdering
<1>9. HasLeast(A \ {a}) /\ HasGreatest(A \ {a})
  BY <1>7, <1>8
<1>10. PICK b \in A \ {a} : \A y \in A \ {a} : b >= y
  BY <1>9 DEF HasGreatest
<1>11. PICK c \in A \ {a} : \A y \in A \ {a} : c =< y
  BY <1>9 DEF HasLeast
<1>12. HasGreatest(A)
  BY <1>6, <1>10 DEF HasGreatest
<1>13. HasLeast(A)
  BY <1>6, <1>11 DEF HasLeast
<1> QED
  BY <1>12, <1>13

\* What Min is of a finite set of integers: its least element.
LEMMA MinIsLeast ==
  ASSUME NEW S, IsFiniteSet(S), S \subseteq Int, S # {}
  PROVE  Min(S) \in S /\ \A y \in S : Min(S) <= y
BY ExtremesExist DEF Min, HasLeast

\* What Max is of a finite set of integers: its greatest element.
LEMMA MaxIsGreatest ==
  ASSUME NEW S, IsFiniteSet(S), S \subseteq Int, S # {}
  PROVE  Max(S) \in S /\ \A y \in S : Max(S) >= y
BY ExtremesExist DEF Max, HasGreatest

-----------------------------------------------------------------------------
(* evaluateSteps and createWorkflow's maximum.                             *)

\* The orders of a plan are finitely many.
LEMMA FinitelyManyOrders ==
  ASSUME NEW plan \in Seq(Step)
  PROVE  IsFiniteSet({1} \cup {plan[i].order : i \in DOMAIN plan})
<1>1. IsFiniteSet(DOMAIN plan)
  <2>1. DOMAIN plan = 1..Len(plan) /\ Len(plan) \in Int /\ 1 \in Int
    OBVIOUS
  <2> QED
    BY <2>1, FS_Interval
<1>2. IsFiniteSet({plan[i].order : i \in DOMAIN plan})
  <2> DEFINE f == [i \in DOMAIN plan |-> plan[i].order]
             T == {plan[i].order : i \in DOMAIN plan}
  <2>1. f \in Surjection(DOMAIN plan, T)
    BY DEF Surjection
  <2> QED
    BY <1>1, <2>1, FS_Surjection
<1>3. {1} \cup {plan[i].order : i \in DOMAIN plan}
        = {plan[i].order : i \in DOMAIN plan} \cup {1}
  OBVIOUS
<1> QED
  BY <1>2, <1>3, FS_AddElement

\* totalSteps is 1 or the order of a step, and no order exceeds it.
LEMMA TotalIsGreatest ==
  ASSUME NEW plan \in Seq(Step)
  PROVE  /\ TotalSteps(plan) \in Nat /\ TotalSteps(plan) >= 1
         /\ \A i \in DOMAIN plan : plan[i].order <= TotalSteps(plan)
         /\ TotalSteps(plan) = 1 \/ \E i \in DOMAIN plan : plan[i].order = TotalSteps(plan)
<1> DEFINE orders == {1} \cup {plan[i].order : i \in DOMAIN plan}
<1>1. \A i \in DOMAIN plan : plan[i].order \in Int
  <2>1. \A i \in DOMAIN plan : plan[i] \in Step
    OBVIOUS
  <2> QED
    BY <2>1 DEF Step
<1>2. orders \subseteq Int /\ orders # {} /\ IsFiniteSet(orders)
  BY <1>1, FinitelyManyOrders
<1>3. TotalSteps(plan) \in orders /\ \A y \in orders : TotalSteps(plan) >= y
  BY <1>2, MaxIsGreatest DEF TotalSteps
<1> QED
  BY <1>1, <1>3

\* Numbering the steps that name no order leaves a list of steps as long as before.
LEMMA ExpandType ==
  ASSUME NEW defs \in Seq(Step)
  PROVE  /\ Expand(defs) \in Seq(Step)
         /\ DOMAIN Expand(defs) = DOMAIN defs
         /\ \A i \in DOMAIN defs :
              Expand(defs)[i].order = IF defs[i].order = 0 THEN i ELSE defs[i].order
<1>1. DOMAIN defs = 1..Len(defs) /\ Len(defs) \in Nat /\ \A i \in DOMAIN defs : defs[i] \in Step
  OBVIOUS
<1>2. DOMAIN Expand(defs) = DOMAIN defs
  BY DEF Expand
<1>3. \A i \in DOMAIN defs :
        /\ Expand(defs)[i] \in Step
        /\ Expand(defs)[i].order = IF defs[i].order = 0 THEN i ELSE defs[i].order
  <2> SUFFICES ASSUME NEW i \in DOMAIN defs
               PROVE  /\ Expand(defs)[i] \in Step
                      /\ Expand(defs)[i].order = IF defs[i].order = 0 THEN i ELSE defs[i].order
    OBVIOUS
  <2>1. defs[i] \in Step /\ i \in Int
    BY <1>1
  <2>2. Expand(defs)[i]
          = [defs[i] EXCEPT !.order = IF defs[i].order = 0 THEN i ELSE defs[i].order]
    BY DEF Expand
  <2> QED
    BY <2>1, <2>2 DEF Step
<1>4. Expand(defs) \in [1..Len(defs) -> Step]
  BY <1>1, <1>3 DEF Expand
<1> QED
  BY <1>1, <1>2, <1>3, <1>4

\* The default matrix has one to three steps, at the orders 1 and 2.
LEMMA DefaultMatrixType ==
  ASSUME NEW amount \in Nat, NEW approver \in Approvers \cup {None}
  PROVE  /\ DefaultMatrix(amount, approver) \in Seq(Step)
         /\ \A i \in DOMAIN DefaultMatrix(amount, approver) :
              DefaultMatrix(amount, approver)[i].order = IF i = 1 THEN 1 ELSE 2
         /\ 1 \in DOMAIN DefaultMatrix(amount, approver)
         /\ \A i \in DOMAIN DefaultMatrix(amount, approver) :
              i # 1 => 2 \in DOMAIN DefaultMatrix(amount, approver)
<1> DEFINE lead == [order |-> 1, role |-> "TEAM_LEAD", approver |-> approver]
           manager == [order |-> 2, role |-> "DEPT_MANAGER", approver |-> None]
           director == [order |-> 2, role |-> "FINANCE_DIRECTOR", approver |-> None]
<1>1. lead \in Step /\ manager \in Step /\ director \in Step
  BY RulesAssumption DEF Step, MatrixRoles
<1>2. lead.order = 1 /\ manager.order = 2 /\ director.order = 2
  OBVIOUS
<1>3. LowTier \in Int /\ HighTier \in Int
  BY RulesAssumption
<1>4. \/ DefaultMatrix(amount, approver) = <<lead>>
      \/ DefaultMatrix(amount, approver) = <<lead, manager, director>>
      \/ DefaultMatrix(amount, approver) = <<lead, manager>>
  BY <1>3 DEF DefaultMatrix
<1> HIDE DEF lead, manager, director
<1>5. CASE DefaultMatrix(amount, approver) = <<lead>>
  BY <1>1, <1>2, <1>5
<1>6. CASE DefaultMatrix(amount, approver) = <<lead, manager, director>>
  BY <1>1, <1>2, <1>6
<1>7. CASE DefaultMatrix(amount, approver) = <<lead, manager>>
  BY <1>1, <1>2, <1>7
<1> QED
  BY <1>4, <1>5, <1>6, <1>7

\* The plans of rules, of clients and of the matrix are lists of steps.
LEMMA PlanType ==
  ASSUME NEW in \in Input, NEW rule \in Rule \cup {None}
  PROVE  PlanOf(rule, in) \in Seq(Step)
<1>1. in.amount \in Nat /\ in.approver \in Approvers \cup {None}
  BY DEF Input
<1>2. rule # None => rule.steps \in Seq(Step)
  BY DEF Rule
<1> QED
  BY <1>1, <1>2, ExpandType, DefaultMatrixType DEF PlanOf

\* A plan whose orders are all implicit, or the default matrix, leaves out no order.
LEMMA ImplicitOrdersHaveNoGap ==
  ASSUME NEW defs \in Seq(Step), defs # <<>>, \A i \in DOMAIN defs : defs[i].order = 0
  PROVE  \A n \in 1..TotalSteps(Expand(defs)) :
           \E i \in DOMAIN Expand(defs) : Expand(defs)[i].order = n
<1>1. /\ Expand(defs) \in Seq(Step) /\ DOMAIN Expand(defs) = 1..Len(defs)
      /\ \A i \in 1..Len(defs) : Expand(defs)[i].order = i
      /\ Len(defs) \in Nat /\ Len(defs) >= 1
  BY ExpandType
<1>2. TotalSteps(Expand(defs)) \in Nat /\ TotalSteps(Expand(defs)) <= Len(defs)
  BY <1>1, TotalIsGreatest
<1> QED
  BY <1>1, <1>2

LEMMA MatrixHasNoGap ==
  ASSUME NEW amount \in Nat, NEW approver \in Approvers \cup {None}
  PROVE  LET plan == DefaultMatrix(amount, approver) IN
         \A n \in 1..TotalSteps(plan) : \E i \in DOMAIN plan : plan[i].order = n
<1> DEFINE plan == DefaultMatrix(amount, approver)
<1>1. /\ plan \in Seq(Step) /\ 1 \in DOMAIN plan
      /\ \A i \in DOMAIN plan : plan[i].order = IF i = 1 THEN 1 ELSE 2
      /\ \A i \in DOMAIN plan : i # 1 => 2 \in DOMAIN plan
  BY DefaultMatrixType
<1>2. /\ TotalSteps(plan) \in Nat
      /\ TotalSteps(plan) = 1 \/ \E i \in DOMAIN plan : plan[i].order = TotalSteps(plan)
  BY <1>1, TotalIsGreatest
<1> HIDE DEF plan
<1>3. \A n \in 1..TotalSteps(plan) : \E i \in DOMAIN plan : plan[i].order = n
  <2> SUFFICES ASSUME NEW n \in 1..TotalSteps(plan)
               PROVE  \E i \in DOMAIN plan : plan[i].order = n
    OBVIOUS
  <2>1. CASE n = 1
    BY <1>1, <2>1
  <2>2. CASE n # 1
    <3>1. PICK i \in DOMAIN plan : plan[i].order = TotalSteps(plan)
      BY <1>2, <2>2
    <3>2. plan[i].order = 2 /\ i # 1
      BY <1>1, <1>2, <2>2, <3>1
    <3>3. n = 2 /\ 2 \in DOMAIN plan
      BY <1>1, <1>2, <2>2, <3>1, <3>2
    <3> QED
      BY <1>1, <3>3
  <2> QED
    BY <2>1, <2>2
<1> QED
  BY <1>3 DEF plan

-----------------------------------------------------------------------------
(* The invariant.  Everything a call knows of the rules it reads in one    *)
(* statement, so what it was planned by stays what it was.                 *)

Positions == {"idle", "evaluate", "insertRow", "insertSteps", "done", "failed"}

Call == [pc : Positions, in : Input \cup {None}, plan : Seq(Step),
         source : Sources \cup {None}, rule : Rule \cup {None}, read : SUBSET Rule]

Workflow == [exists : BOOLEAN, total : Nat, steps : Seq(Step)]

TypeInv ==
  /\ IsFiniteSet(DOMAIN rules) /\ DOMAIN rules \subseteq RuleIds
  /\ \A i \in DOMAIN rules : rules[i] \in Rule
  /\ call \in [Calls -> Call]
  /\ workflows \in [Calls -> Workflow] /\ \A c \in Calls : workflows[c].total >= 1
  /\ faults \in 0..MaxFaults

\* what a call has when
Progress(q) ==
  /\ q.pc = "idle" => q = NoCall
  /\ q.pc # "idle" => q.in \in Input
  /\ q.pc = "evaluate" => q.source = None /\ q.plan = <<>>
  /\ q.pc \in {"insertRow", "insertSteps", "done"} => q.source # None

\* where a plan comes from
Origin(q) ==
  /\ q.source = "custom" => q.in.customSteps # <<>> /\ q.plan = Expand(q.in.customSteps)
  /\ q.source = "rule" => /\ q.rule \in Rule /\ q.rule.steps # <<>>
                          /\ q.plan = Expand(q.rule.steps)
  /\ q.source \in {"matrix", "fallback"} => q.plan = DefaultMatrix(q.in.amount, q.in.approver)

\* the rules a call has read that could have planned its workflow
Candidates(q) == {r \in q.read : Selected(r, q.in) /\ Applies(r, q.in)}

Best(q) ==
  /\ q.source = "rule" =>
       q.rule \in Candidates(q) /\ \A r \in Candidates(q) : r.priority <= q.rule.priority
  /\ q.source = "matrix" => Candidates(q) = {}

\* what is stored of the plan
Written(q, wf) ==
  /\ q.pc \in {"insertSteps", "done"} => wf.total = TotalSteps(q.plan)
  /\ wf.steps # <<>> => q.pc = "done" /\ wf.steps = q.plan

CallInv(q, wf) == Progress(q) /\ Origin(q) /\ Best(q) /\ Written(q, wf)

IInv == TypeInv /\ \A c \in Calls : CallInv(call[c], workflows[c])

-----------------------------------------------------------------------------
(* What a SELECT returns, and where the loop stops.                        *)

\* Each row is a rule that the WHERE clause selects, and each such rule is a row.
LEMMA ResultsAreTheSelected ==
  ASSUME TypeInv, NEW in \in Input, NEW rows \in Results(in)
  PROVE  /\ IsFiniteSet(DOMAIN rows) /\ DOMAIN rows \subseteq Int
         /\ \A n \in DOMAIN rows : rows[n] \in Range(rules) /\ Selected(rows[n], in)
         /\ \A r \in Range(rules) : Selected(r, in) => \E n \in DOMAIN rows : rows[n] = r
         /\ Ordered(rows)
<1> DEFINE ids == {i \in DOMAIN rules : Selected(rules[i], in)}
           D == 1..Cardinality(ids)
<1>1. IsFiniteSet(ids) /\ Cardinality(ids) \in Nat
  BY FS_Subset, FS_CardinalityType DEF TypeInv
<1>2. PICK seq \in SetToSeqs(ids) : rows = [n \in DOMAIN seq |-> rules[seq[n]]] /\ Ordered(rows)
  BY DEF Results
<1>3. seq \in [D -> ids] /\ \A i, j \in D : i # j => seq[i] # seq[j]
  BY <1>2 DEF SetToSeqs
<1> HIDE DEF ids, D
<1>4. seq \in Injection(D, ids)
  BY <1>3 DEF Injection, IsInjective
<1>5. IsFiniteSet(D) /\ Cardinality(D) = Cardinality(ids) /\ D \subseteq Int
  <2>1. Cardinality(ids) \in Int /\ 1 \in Int
    BY <1>1
  <2> QED
    BY <1>1, <2>1, FS_Interval DEF D
<1>6. seq \in Surjection(D, ids)
  BY <1>1, <1>4, <1>5, FS_Injection
<1>7. DOMAIN rows = D /\ \A n \in D : rows[n] = rules[seq[n]] /\ seq[n] \in ids
  BY <1>2, <1>3
<1>8. \A i \in ids : \E n \in D : seq[n] = i
  BY <1>6 DEF Surjection
<1>9. \A r \in Range(rules) : Selected(r, in) => \E n \in DOMAIN rows : rows[n] = r
  <2> SUFFICES ASSUME NEW i \in DOMAIN rules, Selected(rules[i], in)
               PROVE  \E n \in DOMAIN rows : rows[n] = rules[i]
    BY DEF Range
  <2>1. i \in ids
    BY DEF ids
  <2> QED
    BY <1>7, <1>8, <2>1
<1>10. \A n \in DOMAIN rows : rows[n] \in Range(rules) /\ Selected(rows[n], in)
  <2> SUFFICES ASSUME NEW n \in D PROVE rows[n] \in Range(rules) /\ Selected(rows[n], in)
    BY <1>7
  <2>1. rows[n] = rules[seq[n]] /\ seq[n] \in DOMAIN rules /\ Selected(rules[seq[n]], in)
    BY <1>7 DEF ids
  <2> QED
    BY <2>1 DEF Range
<1> QED
  BY <1>2, <1>5, <1>7, <1>9, <1>10

\* The loop stops at a rule that applies and that no rule that applies outranks, and it
\* runs through only if none applies.
LEMMA FirstHitIsBest ==
  ASSUME TypeInv, NEW in \in Input, NEW rows \in Results(in)
  PROVE  LET rule == FirstHit(rows, in)
             candidates == {r \in Range(rules) : Selected(r, in) /\ Applies(r, in)}
         IN  /\ rule \in Rule \cup {None}
             /\ rule = None => candidates = {}
             /\ rule # None => /\ rule \in Rule /\ rule \in candidates
                               /\ \A r \in candidates : r.priority <= rule.priority
<1> DEFINE rule == FirstHit(rows, in)
           candidates == {r \in Range(rules) : Selected(r, in) /\ Applies(r, in)}
<1>1. /\ IsFiniteSet(DOMAIN rows) /\ DOMAIN rows \subseteq Int
      /\ \A n \in DOMAIN rows : rows[n] \in Range(rules) /\ Selected(rows[n], in)
      /\ \A r \in Range(rules) : Selected(r, in) => \E n \in DOMAIN rows : rows[n] = r
      /\ Ordered(rows)
  BY ResultsAreTheSelected
<1>2. /\ Range(rules) \subseteq Rule /\ None \notin Rule
      /\ \A r \in Rule : r.priority \in Int
  BY RulesAssumption DEF TypeInv, Range, Rule
<1>3. CASE Hits(rows, in) = {}
  <2>1. rule = None
    BY <1>3 DEF FirstHit
  <2>2. candidates = {}
    BY <1>1, <1>3 DEF Hits
  <2> QED
    BY <2>1, <2>2
<1>4. CASE Hits(rows, in) # {}
  <2> DEFINE m == Min(Hits(rows, in))
  <2>1. IsFiniteSet(Hits(rows, in)) /\ Hits(rows, in) \subseteq Int
    BY <1>1, FS_Subset DEF Hits
  <2>2. m \in Hits(rows, in) /\ \A k \in Hits(rows, in) : m <= k
    BY <1>4, <2>1, MinIsLeast
  <2>3. rule = rows[m] /\ m \in DOMAIN rows /\ Applies(rows[m], in)
    BY <1>4, <2>2 DEF FirstHit, Hits
  <2> HIDE DEF m
  <2>4. rule \in candidates /\ rule \in Rule /\ rule # None
    BY <1>1, <1>2, <2>3
  <2>5. ASSUME NEW r \in candidates PROVE r.priority <= rule.priority
    <3>1. PICK k \in DOMAIN rows : rows[k] = r
      BY <1>1
    <3>2. k \in Hits(rows, in) /\ k \in Int /\ m \in Int /\ m <= k
      BY <1>1, <2>2, <2>3, <3>1 DEF Hits
    <3>3. m < k => rows[m].priority >= rows[k].priority
      BY <1>1, <2>3 DEF Ordered
    <3>4. rows[m] \in Rule /\ r \in Rule
      BY <1>2, <2>3, <2>4
    <3> QED
      BY <1>2, <2>3, <3>1, <3>2, <3>3, <3>4
  <2> QED
    BY <2>4, <2>5
<1> QED
  BY <1>3, <1>4

-----------------------------------------------------------------------------
(* The invariant is inductive.                                             *)

LEMMA InvInit == Init => IInv
<1> SUFFICES ASSUME Init PROVE IInv
  OBVIOUS
<1>1. IsFiniteSet(DOMAIN rules) /\ DOMAIN rules = {}
  <2>1. DOMAIN rules = {}
    BY DEF Init
  <2> QED
    BY <2>1, FS_EmptySet
<1>2. NoCall \in Call
  BY DEF NoCall, Call, Positions, Sources
<1>3. NoWorkflow \in Workflow /\ NoWorkflow.total >= 1
  BY DEF NoWorkflow, Workflow
<1>4. 0 \in 0..MaxFaults
  BY RulesAssumption
<1>5. TypeInv
  BY <1>1, <1>2, <1>3, <1>4 DEF Init, TypeInv
<1>6. CallInv(NoCall, NoWorkflow)
  <2>1. /\ NoCall.pc = "idle" /\ NoCall.source \notin Sources
        /\ NoWorkflow.steps = <<>>
    BY RulesAssumption DEF NoCall, NoWorkflow
  <2> QED
    BY <2>1 DEF CallInv, Progress, Origin, Best, Written, Sources
<1> QED
  BY <1>5, <1>6 DEF Init, IInv

\* A statement of one call leaves the rules and the other calls alone.
LEMMA OneCall ==
  ASSUME IInv, NEW c \in Calls, NEW q \in Call, NEW wf \in Workflow, wf.total >= 1,
         call' = [call EXCEPT ![c] = q], workflows' = [workflows EXCEPT ![c] = wf],
         rules' = rules, faults' \in 0..MaxFaults, CallInv(q, wf)
  PROVE  IInv'
<1>1. /\ call \in [Calls -> Call] /\ workflows \in [Calls -> Workflow]
      /\ \A d \in Calls : CallInv(call[d], workflows[d]) /\ workflows[d].total >= 1
  BY DEF IInv, TypeInv
<1>2. /\ call' \in [Calls -> Call] /\ workflows' \in [Calls -> Workflow]
      /\ call'[c] = q /\ workflows'[c] = wf
      /\ \A d \in Calls : d # c => call'[d] = call[d] /\ workflows'[d] = workflows[d]
  BY <1>1
<1>3. \A d \in Calls : CallInv(call'[d], workflows'[d]) /\ workflows'[d].total >= 1
  BY <1>1, <1>2
<1>4. TypeInv'
  BY <1>2, <1>3 DEF IInv, TypeInv
<1> QED
  BY <1>3, <1>4 DEF IInv

\* what the statements of a call start from
LEMMA CallFacts ==
  ASSUME IInv, NEW c \in Calls
  PROVE  /\ call[c] \in Call /\ workflows[c] \in Workflow /\ workflows[c].total >= 1
         /\ workflows = [workflows EXCEPT ![c] = workflows[c]]
         /\ call = [call EXCEPT ![c] = call[c]]
         /\ CallInv(call[c], workflows[c]) /\ faults \in 0..MaxFaults
         /\ Fault => faults' \in 0..MaxFaults
<1>1. /\ call \in [Calls -> Call] /\ workflows \in [Calls -> Workflow]
      /\ workflows[c].total >= 1 /\ faults \in 0..MaxFaults
  BY DEF IInv, TypeInv
<1>2. Fault => faults' \in 0..MaxFaults
  BY <1>1, RulesAssumption DEF Fault
<1> QED
  BY <1>1, <1>2 DEF IInv

LEMMA InvCreateRule ==
  ASSUME IInv, NEW i \in RuleIds, NEW rule \in RuleInputs, CreateRule(i, rule)
  PROVE  IInv'
<1>1. rule \in Rule
  BY RulesAssumption
<1>2. DOMAIN rules' = DOMAIN rules \cup {i}
  BY DEF CreateRule
<1>3. IsFiniteSet(DOMAIN rules')
  BY <1>2, FS_AddElement DEF IInv, TypeInv
<1>4. \A j \in DOMAIN rules' : rules'[j] \in Rule
  BY <1>1 DEF CreateRule, IInv, TypeInv
<1>5. call' = call /\ workflows' = workflows /\ faults' = faults
  BY DEF CreateRule
<1>6. TypeInv'
  BY <1>2, <1>3, <1>4, <1>5 DEF IInv, TypeInv
<1> QED
  BY <1>5, <1>6 DEF IInv

LEMMA InvDeleteRule ==
  ASSUME IInv, NEW t \in Tenants, NEW i \in RuleIds, DeleteRule(t, i)
  PROVE  IInv'
<1>1. DOMAIN rules' = DOMAIN rules \ {i}
  BY DEF DeleteRule
<1>2. IsFiniteSet(DOMAIN rules')
  BY <1>1, FS_RemoveElement DEF IInv, TypeInv
<1>3. \A j \in DOMAIN rules' : rules'[j] \in Rule
  BY <1>1 DEF DeleteRule, IInv, TypeInv
<1>4. call' = call /\ workflows' = workflows /\ faults' = faults
  BY DEF DeleteRule
<1>5. TypeInv'
  BY <1>1, <1>2, <1>3, <1>4 DEF IInv, TypeInv
<1> QED
  BY <1>4, <1>5 DEF IInv

LEMMA InvReceive ==
  ASSUME IInv, NEW c \in Calls, NEW in \in CallInputs, Receive(c, in)
  PROVE  IInv'
<1> DEFINE custom == [NoCall EXCEPT !.pc = "insertRow", !.in = in, !.source = "custom",
                                    !.plan = Expand(in.customSteps)]
           reading == [NoCall EXCEPT !.pc = "evaluate", !.in = in]
           q == IF in.customSteps # <<>> THEN custom ELSE reading
<1>1. in \in Input /\ in.customSteps \in Seq(Step)
  BY RulesAssumption DEF Input
<1>2. Expand(in.customSteps) \in Seq(Step)
  BY <1>1, ExpandType
<1>3. q \in Call
  BY <1>1, <1>2 DEF NoCall, Call, Positions, Sources
<1>4. call[c].pc = "idle" /\ CallInv(call[c], workflows[c])
  BY CallFacts DEF Receive
<1>5. workflows[c].steps = <<>>
  BY <1>4 DEF CallInv, Written
<1>6. /\ workflows' = [workflows EXCEPT ![c] = workflows[c]] /\ rules' = rules
      /\ workflows[c] \in Workflow /\ workflows[c].total >= 1 /\ faults' \in 0..MaxFaults
      /\ call' = [call EXCEPT ![c] = q]
  BY CallFacts DEF Receive
<1>7. /\ custom.pc = "insertRow" /\ custom.in = in /\ custom.source = "custom"
      /\ custom.plan = Expand(in.customSteps)
      /\ reading.pc = "evaluate" /\ reading.in = in /\ reading.source = None
      /\ reading.plan = <<>>
  BY DEF NoCall
<1>8. None \notin Sources
  BY RulesAssumption
<1> HIDE DEF custom, reading
<1>9. CallInv(q, workflows[c])
  <2>1. CASE in.customSteps # <<>>
    <3>1. q = custom
      BY <2>1
    <3>2. Progress(custom)
      BY <1>1, <1>7, <1>8 DEF Progress, Sources
    <3>3. Origin(custom) /\ Best(custom) /\ Written(custom, workflows[c])
      BY <1>5, <1>7, <2>1 DEF Origin, Best, Written
    <3> QED
      BY <3>1, <3>2, <3>3 DEF CallInv
  <2>2. CASE in.customSteps = <<>>
    <3>1. q = reading
      BY <2>2
    <3>2. Progress(reading)
      BY <1>1, <1>7 DEF Progress
    <3>3. Origin(reading) /\ Best(reading) /\ Written(reading, workflows[c])
      BY <1>5, <1>7, <1>8 DEF Origin, Best, Written, Sources
    <3> QED
      BY <3>1, <3>2, <3>3 DEF CallInv
  <2> QED
    BY <2>1, <2>2
<1> HIDE DEF q
<1> QED
  BY <1>3, <1>6, <1>9, OneCall

LEMMA InvEvaluateSteps ==
  ASSUME IInv, NEW c \in Calls, EvaluateSteps(c)
  PROVE  IInv'
<1> DEFINE in == call[c].in
<1>1. PICK rows \in Results(in) :
        LET rule == FirstHit(rows, in) IN
        call' = [call EXCEPT ![c].pc = "insertRow", ![c].plan = PlanOf(rule, in),
                             ![c].source = IF rule = None THEN "matrix" ELSE "rule",
                             ![c].rule = rule, ![c].read = Range(rules)]
  BY DEF EvaluateSteps
<1> DEFINE rule == FirstHit(rows, in)
           q == [call[c] EXCEPT !.pc = "insertRow", !.plan = PlanOf(rule, in),
                                !.source = IF rule = None THEN "matrix" ELSE "rule",
                                !.rule = rule, !.read = Range(rules)]
<1>2. /\ call[c] \in Call /\ call[c].pc = "evaluate" /\ CallInv(call[c], workflows[c])
      /\ call \in [Calls -> Call] /\ TypeInv
  BY CallFacts DEF EvaluateSteps, IInv, TypeInv
<1>3. in \in Input
  BY <1>2 DEF CallInv, Progress
<1>4. LET candidates == {r \in Range(rules) : Selected(r, in) /\ Applies(r, in)}
      IN  /\ rule \in Rule \cup {None}
          /\ rule = None => candidates = {}
          /\ rule # None => /\ rule \in Rule /\ rule \in candidates
                            /\ \A r \in candidates : r.priority <= rule.priority
  BY <1>2, <1>3, FirstHitIsBest
<1>5. PlanOf(rule, in) \in Seq(Step)
  BY <1>3, <1>4, PlanType
<1>6. Range(rules) \subseteq Rule
  BY <1>2 DEF TypeInv, Range
<1>7. /\ workflows' = [workflows EXCEPT ![c] = workflows[c]] /\ rules' = rules
      /\ workflows[c] \in Workflow /\ workflows[c].total >= 1 /\ faults' \in 0..MaxFaults
      /\ workflows[c].steps = <<>>
  BY <1>2, CallFacts DEF EvaluateSteps, CallInv, Written
<1>8. call' = [call EXCEPT ![c] = q]
  BY <1>1, <1>2
<1>9. /\ q.pc = "insertRow" /\ q.in = in /\ q.plan = PlanOf(rule, in)
      /\ q.source = IF rule = None THEN "matrix" ELSE "rule"
      /\ q.rule = rule /\ q.read = Range(rules)
  BY <1>2 DEF Call
<1>10. q \in Call
  BY <1>2, <1>4, <1>5, <1>6 DEF Call, Positions, Sources
<1> HIDE DEF q, rule, in
<1>11. Progress(q)
  BY <1>3, <1>9, RulesAssumption DEF Progress, Sources
<1>12. Origin(q)
  BY <1>4, <1>9 DEF Origin, PlanOf, Applies
<1>13. Best(q)
  BY <1>4, <1>9 DEF Best, Candidates
<1>14. Written(q, workflows[c])
  BY <1>7, <1>9 DEF Written
<1> QED
  BY <1>7, <1>8, <1>10, <1>11, <1>12, <1>13, <1>14, OneCall DEF CallInv

LEMMA InvEvaluateStepsFails ==
  ASSUME IInv, NEW c \in Calls, EvaluateStepsFails(c)
  PROVE  IInv'
<1> DEFINE in == call[c].in
           q == [call[c] EXCEPT !.pc = "insertRow", !.source = "fallback",
                                !.plan = PlanOf(None, in)]
<1>1. /\ call[c] \in Call /\ call[c].pc = "evaluate" /\ CallInv(call[c], workflows[c])
      /\ call \in [Calls -> Call]
  BY CallFacts DEF EvaluateStepsFails, IInv, TypeInv
<1>2. in \in Input
  BY <1>1 DEF CallInv, Progress
<1>3. PlanOf(None, in) \in Seq(Step)
  BY <1>2, PlanType
<1>4. /\ workflows' = [workflows EXCEPT ![c] = workflows[c]] /\ rules' = rules
      /\ workflows[c] \in Workflow /\ workflows[c].total >= 1 /\ faults' \in 0..MaxFaults
      /\ workflows[c].steps = <<>>
  BY <1>1, CallFacts DEF EvaluateStepsFails, CallInv, Written
<1>5. call' = [call EXCEPT ![c] = q]
  BY <1>1 DEF EvaluateStepsFails
<1>6. q.pc = "insertRow" /\ q.in = in /\ q.plan = PlanOf(None, in) /\ q.source = "fallback"
  BY <1>1 DEF Call
<1>7. q \in Call
  BY <1>1, <1>3 DEF Call, Positions, Sources
<1> HIDE DEF q, in
<1>8. Progress(q)
  BY <1>2, <1>6, RulesAssumption DEF Progress, Sources
<1>9. Origin(q) /\ Best(q)
  BY <1>6 DEF Origin, Best, PlanOf
<1>10. Written(q, workflows[c])
  BY <1>4, <1>6 DEF Written
<1> QED
  BY <1>4, <1>5, <1>7, <1>8, <1>9, <1>10, OneCall DEF CallInv

\* A call that moves on with what it has keeps the origin and the merit of its plan.
LEMMA MovesOn ==
  ASSUME NEW q \in Call, NEW p \in Positions
  PROVE  LET next == [q EXCEPT !.pc = p] IN
         /\ next \in Call /\ next.pc = p /\ next.plan = q.plan /\ next.source = q.source
         /\ next.in = q.in
         /\ Origin(q) => Origin(next)
         /\ Best(q) => Best(next)
<1> DEFINE next == [q EXCEPT !.pc = p]
<1>1. /\ next \in Call /\ next.pc = p /\ next.plan = q.plan /\ next.source = q.source
      /\ next.in = q.in /\ next.rule = q.rule /\ next.read = q.read
  BY DEF Call
<1> HIDE DEF next
<1>2. Origin(q) => Origin(next)
  BY <1>1 DEF Origin
<1>3. Candidates(next) = Candidates(q)
  BY <1>1 DEF Candidates
<1>4. Best(q) => Best(next)
  BY <1>1, <1>3 DEF Best
<1> QED
  BY <1>1, <1>2, <1>4 DEF next

LEMMA InvInsertRow ==
  ASSUME IInv, NEW c \in Calls, InsertRow(c)
  PROVE  IInv'
<1> DEFINE q == [call[c] EXCEPT !.pc = "insertSteps"]
           wf == [workflows[c] EXCEPT !.exists = TRUE, !.total = TotalSteps(call[c].plan)]
<1>1. /\ call[c] \in Call /\ call[c].pc = "insertRow" /\ CallInv(call[c], workflows[c])
      /\ workflows[c] \in Workflow /\ call[c].plan \in Seq(Step)
  BY CallFacts DEF InsertRow, Call
<1>2. TotalSteps(call[c].plan) \in Nat /\ TotalSteps(call[c].plan) >= 1
  BY <1>1, TotalIsGreatest
<1>3. /\ wf \in Workflow /\ wf.total = TotalSteps(call[c].plan) /\ wf.total >= 1
      /\ wf.steps = workflows[c].steps
  BY <1>1, <1>2 DEF Workflow
<1>4. workflows[c].steps = <<>>
  BY <1>1 DEF CallInv, Written
<1>5. /\ q \in Call /\ q.pc = "insertSteps" /\ q.plan = call[c].plan
      /\ q.source = call[c].source /\ q.in = call[c].in /\ Origin(q) /\ Best(q)
  BY <1>1, MovesOn DEF Positions, CallInv
<1>6. /\ call' = [call EXCEPT ![c] = q] /\ rules' = rules /\ faults' \in 0..MaxFaults
      /\ workflows' = [workflows EXCEPT ![c] = wf]
  BY CallFacts DEF InsertRow, IInv, TypeInv
<1> HIDE DEF q, wf
<1>7. Progress(q) /\ Written(q, wf)
  BY <1>1, <1>3, <1>4, <1>5 DEF CallInv, Progress, Written
<1> QED
  BY <1>3, <1>5, <1>6, <1>7, OneCall DEF CallInv

LEMMA InvInsertSteps ==
  ASSUME IInv, NEW c \in Calls, InsertSteps(c)
  PROVE  IInv'
<1> DEFINE q == [call[c] EXCEPT !.pc = "done"]
           wf == [workflows[c] EXCEPT !.steps = call[c].plan]
<1>1. /\ call[c] \in Call /\ call[c].pc = "insertSteps" /\ CallInv(call[c], workflows[c])
      /\ workflows[c] \in Workflow /\ workflows[c].total >= 1 /\ call[c].plan \in Seq(Step)
  BY CallFacts DEF InsertSteps, Call
<1>2. wf \in Workflow /\ wf.total = workflows[c].total /\ wf.steps = call[c].plan
  BY <1>1 DEF Workflow
<1>3. wf.total >= 1
  BY <1>1, <1>2
<1>4. /\ q \in Call /\ q.pc = "done" /\ q.plan = call[c].plan
      /\ q.source = call[c].source /\ q.in = call[c].in /\ Origin(q) /\ Best(q)
  BY <1>1, MovesOn DEF Positions, CallInv
<1>5. /\ call' = [call EXCEPT ![c] = q] /\ rules' = rules /\ faults' \in 0..MaxFaults
      /\ workflows' = [workflows EXCEPT ![c] = wf]
  BY CallFacts DEF InsertSteps, IInv, TypeInv
<1> HIDE DEF q, wf
<1>6. Progress(q) /\ Written(q, wf)
  BY <1>1, <1>2, <1>4 DEF CallInv, Progress, Written
<1> QED
  BY <1>2, <1>3, <1>4, <1>5, <1>6, OneCall DEF CallInv

\* A call that stores nothing: its steps' INSERT has failed, or it is cut short.
LEMMA InvGivesUp ==
  ASSUME IInv, NEW c \in Calls, InsertStepsFails(c) \/ Abandon(c)
  PROVE  IInv'
<1>1. PICK p \in {"done", "failed"} :
        /\ call' = [call EXCEPT ![c].pc = p] /\ rules' = rules /\ workflows' = workflows
        /\ call[c].pc \in {"evaluate", "insertRow", "insertSteps"} /\ Fault
        /\ p = "done" => call[c].pc = "insertSteps"
  BY DEF InsertStepsFails, Abandon
<1> DEFINE q == [call[c] EXCEPT !.pc = p]
<1>2. /\ call[c] \in Call /\ CallInv(call[c], workflows[c])
      /\ workflows[c] \in Workflow /\ workflows[c].total >= 1
  BY CallFacts
<1>3. /\ q \in Call /\ q.pc = p /\ q.plan = call[c].plan
      /\ q.source = call[c].source /\ q.in = call[c].in /\ Origin(q) /\ Best(q)
  <2>1. p \in Positions
    BY DEF Positions
  <2> QED
    BY <1>2, <2>1, MovesOn DEF CallInv
<1>4. /\ call' = [call EXCEPT ![c] = q] /\ faults' \in 0..MaxFaults
      /\ workflows' = [workflows EXCEPT ![c] = workflows[c]]
  BY <1>1, CallFacts DEF IInv, TypeInv
<1> HIDE DEF q
<1>5. workflows[c].steps = <<>>
  BY <1>1, <1>2 DEF CallInv, Written
<1>6. Progress(q) /\ Written(q, workflows[c])
  BY <1>1, <1>2, <1>3, <1>5 DEF CallInv, Progress, Written
<1> QED
  BY <1>1, <1>2, <1>3, <1>4, <1>6, OneCall DEF CallInv

LEMMA InvNext == IInv /\ [Next]_vars => IInv'
<1> SUFFICES ASSUME IInv, [Next]_vars PROVE IInv'
  OBVIOUS
<1>1. CASE UNCHANGED vars
  <2>1. rules' = rules /\ call' = call /\ workflows' = workflows /\ faults' = faults
    BY <1>1 DEF vars
  <2>2. TypeInv'
    BY <2>1 DEF IInv, TypeInv
  <2> QED
    BY <2>1, <2>2 DEF IInv
<1>2. CASE \E i \in RuleIds, rule \in RuleInputs : CreateRule(i, rule)
  BY <1>2, InvCreateRule
<1>3. CASE \E t \in Tenants, i \in RuleIds : DeleteRule(t, i)
  BY <1>3, InvDeleteRule
<1>4. ASSUME NEW c \in Calls,
             \/ \E in \in CallInputs : Receive(c, in)
             \/ EvaluateSteps(c) \/ EvaluateStepsFails(c)
             \/ InsertRow(c) \/ InsertSteps(c) \/ InsertStepsFails(c) \/ Abandon(c)
      PROVE  IInv'
  BY <1>4, InvReceive, InvEvaluateSteps, InvEvaluateStepsFails, InvInsertRow,
     InvInsertSteps, InvGivesUp
<1> QED
  BY <1>1, <1>2, <1>3, <1>4 DEF Next

\* Creating workflows beside each other, and rules that come and go, keep the invariant.
THEOREM RulesInvariant == Spec => []IInv
BY InvInit, InvNext, PTL DEF Spec

-----------------------------------------------------------------------------
(* What follows from it.                                                   *)

\* Rules, calls, rows and plans keep their types; totalSteps is never below 1, whatever
\* orders a rule or a client names.
THEOREM RulesTypeCorrect == Spec => []TypeOK
<1>1. IInv => TypeOK
  <2> SUFFICES ASSUME IInv PROVE TypeOK
    OBVIOUS
  <2>1. DOMAIN rules \subseteq RuleIds /\ (\A i \in DOMAIN rules : rules[i] \in Rule)
    BY DEF IInv, TypeInv
  <2>2. faults \in 0..MaxFaults
    BY DEF IInv, TypeInv
  <2>3. ASSUME NEW c \in Calls
        PROVE  /\ call[c].pc \in
                    {"idle", "evaluate", "insertRow", "insertSteps", "done", "failed"}
               /\ call[c].plan \in Seq(Step)
               /\ call[c].source \in Sources \cup {None}
               /\ call[c].pc = "idle" \/ call[c].in \in Input
               /\ workflows[c].exists \in BOOLEAN /\ workflows[c].steps \in Seq(Step)
               /\ workflows[c].total \in Nat \ {0}
    <3>1. /\ call[c] \in Call /\ workflows[c] \in Workflow /\ workflows[c].total >= 1
          /\ Progress(call[c])
      BY CallFacts DEF CallInv
    <3> QED
      BY <3>1 DEF Call, Workflow, Positions, Progress
  <2> QED
    BY <2>1, <2>2, <2>3 DEF TypeOK
<1> QED
  BY <1>1, RulesInvariant, PTL

\* Whatever rules exist, come and go, a workflow is planned by a rule that applied to it
\* when it was planned, and that none that applied outranked; by the default matrix only
\* if none applied.
THEOREM BestRulePlans == Spec => []PlannedByBestRule
<1>1. IInv => PlannedByBestRule
  <2> SUFFICES ASSUME IInv, NEW c \in Calls
               PROVE  LET candidates == {r \in call[c].read :
                                           Selected(r, call[c].in) /\ Applies(r, call[c].in)}
                      IN  /\ call[c].source = "rule" =>
                               /\ call[c].rule \in candidates
                               /\ \A r \in candidates : r.priority <= call[c].rule.priority
                          /\ call[c].source = "matrix" => candidates = {}
    BY DEF PlannedByBestRule
  <2>1. Best(call[c])
    BY CallFacts DEF CallInv
  <2> QED
    BY <2>1 DEF Best, Candidates
<1> QED
  BY <1>1, RulesInvariant, PTL

\* Two rules that share a limit leave no amount between their outer limits to the default
\* matrix: the shared one belongs to both, and every other lies on one side of it.
THEOREM LimitsMeet == Spec => []NoAmountBetween
<1>1. IInv => NoAmountBetween
  <2> SUFFICES ASSUME IInv, NEW c \in Calls, NEW r1 \in call[c].read, NEW r2 \in call[c].read,
                      r1.max # None, r1.max = r2.min,
                      \A r \in {r1, r2} :
                        /\ Selected(r, call[c].in) /\ r.steps # <<>>
                        /\ r.department \in {None, call[c].in.department},
                      r1.min # None => r1.min <= call[c].in.amount,
                      r2.max # None => call[c].in.amount <= r2.max,
                      call[c].source = "matrix"
               PROVE  FALSE
    BY DEF NoAmountBetween
  <2>1. call[c] \in Call /\ Progress(call[c]) /\ Best(call[c])
    BY CallFacts DEF CallInv
  <2>2. r1 \in Rule /\ r2 \in Rule
    BY <2>1 DEF Call
  <2>3. call[c].pc # "idle"
    BY <2>1, RulesAssumption DEF Progress, NoCall, Sources
  <2>4. call[c].in.amount \in Int
    BY <2>1, <2>3 DEF Progress, Input
  <2>5. r1.max \in Int /\ r2.min = r1.max
    BY <2>2 DEF Rule
  <2>6. CASE call[c].in.amount <= r1.max
    <3>1. Covers(r1, call[c].in.amount)
      BY <2>6 DEF Covers
    <3>2. r1 \in Candidates(call[c])
      BY <3>1 DEF Candidates, Applies
    <3> QED
      BY <2>1, <3>2 DEF Best
  <2>7. CASE r2.min <= call[c].in.amount
    <3>1. Covers(r2, call[c].in.amount)
      BY <2>7 DEF Covers
    <3>2. r2 \in Candidates(call[c])
      BY <3>1 DEF Candidates, Applies
    <3> QED
      BY <2>1, <3>2 DEF Best
  <2> QED
    BY <2>4, <2>5, <2>6, <2>7
<1> QED
  BY <1>1, RulesInvariant, PTL

\* A stored plan whose orders are implicit, and one of the default matrix, has a step at
\* every order up to totalSteps, however many steps the rule or the client names.
THEOREM ImplicitPlansCanBeApproved == Spec => []NoEmptyOrder
<1>1. IInv => NoEmptyOrder
  <2> SUFFICES ASSUME IInv, NEW c \in Calls, workflows[c].steps # <<>>,
                      LET defs == IF call[c].source = "custom" THEN call[c].in.customSteps
                                  ELSE call[c].rule.steps
                      IN  \/ call[c].source \in {"matrix", "fallback"}
                          \/ \A i \in DOMAIN defs : defs[i].order = 0
               PROVE  \A n \in 1..workflows[c].total :
                        \E i \in DOMAIN workflows[c].steps : workflows[c].steps[i].order = n
    BY DEF NoEmptyOrder, Stored
  <2> DEFINE q == call[c]  wf == workflows[c]
  <2>1. /\ q \in Call /\ Progress(q) /\ Origin(q)
        /\ q.pc = "done" /\ wf.steps = q.plan /\ wf.total = TotalSteps(q.plan)
    BY CallFacts DEF CallInv, Written
  <2>2. q.in \in Input /\ q.source \in Sources
    BY <2>1 DEF Progress, Call
  <2>3. /\ q.in.amount \in Nat /\ q.in.approver \in Approvers \cup {None}
        /\ q.in.customSteps \in Seq(Step)
    BY <2>2 DEF Input
  <2> HIDE DEF q, wf
  <2>4. CASE q.source \in {"matrix", "fallback"}
    <3>1. q.plan = DefaultMatrix(q.in.amount, q.in.approver)
      BY <2>1, <2>4 DEF Origin
    <3> QED
      BY <2>1, <2>3, <3>1, MatrixHasNoGap DEF q, wf
  <2>5. CASE q.source = "custom"
    <3>1. /\ q.plan = Expand(q.in.customSteps) /\ q.in.customSteps # <<>>
          /\ \A i \in DOMAIN q.in.customSteps : q.in.customSteps[i].order = 0
      BY <2>1, <2>5 DEF Origin, q
    <3> QED
      BY <2>1, <2>3, <3>1, ImplicitOrdersHaveNoGap DEF q, wf
  <2>6. CASE q.source = "rule"
    <3>1. /\ q.plan = Expand(q.rule.steps) /\ q.rule.steps # <<>> /\ q.rule \in Rule
          /\ \A i \in DOMAIN q.rule.steps : q.rule.steps[i].order = 0
      BY <2>1, <2>6 DEF Origin, q
    <3>2. q.rule.steps \in Seq(Step)
      BY <3>1 DEF Rule
    <3> QED
      BY <2>1, <3>1, <3>2, ImplicitOrdersHaveNoGap DEF q, wf
  <2> QED
    BY <2>2, <2>4, <2>5, <2>6 DEF Sources
<1> QED
  BY <1>1, RulesInvariant, PTL
=============================================================================
