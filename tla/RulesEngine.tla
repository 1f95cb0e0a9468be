----------------------------- MODULE RulesEngine -----------------------------
(***************************************************************************)
(* Who has to approve a workflow: RulesEngineService (services/rules.      *)
(* engine.ts), the routes on rules, and the part of createWorkflow that    *)
(* turns its answer into rows.                                             *)
(*                                                                         *)
(* evaluateSteps reads the rules in one SELECT; the workflow's row and its *)
(* steps are two INSERTs later.  Rules come and go in between, other       *)
(* workflows are created, statements fail.                                 *)
(***************************************************************************)
EXTENDS Integers, Sequences, FiniteSets, FiniteSetsExt, SequencesExt

CONSTANTS
  RuleIds,      \* ids createRule draws
  RuleInputs,   \* what clients ask createRule for, by tenant: records of Rule
  Calls,        \* calls of createWorkflow, one per workflow
  CallInputs,   \* what clients ask createWorkflow for: records of Input
  Tenants, Types, Departments, Roles, Approvers,
  None,         \* null or undefined
  LowTier,      \* 10000 in the code
  HighTier,     \* 100000
  MaxFaults     \* bound: statements that fail and handlers that are cut short

\* A step as rules and clients define it, or as it is stored.  An order of 0 stands
\* for a missing one too; names of departments count up to their case.
Step == [order : Int, role : Roles, approver : Approvers \cup {None}]

Rule == [tenant : Tenants, type : Types, active : BOOLEAN, priority : Int,
         min : Nat \cup {None}, max : Nat \cup {None},
         department : Departments \cup {None}, steps : Seq(Step)]

Input == [tenant : Tenants, type : Types, amount : Nat,
          department : Departments \cup {None}, approver : Approvers \cup {None},
          customSteps : Seq(Step)]

MatrixRoles == {"TEAM_LEAD", "DEPT_MANAGER", "FINANCE_DIRECTOR"}

\* what a plan is made from: fallback is the matrix after a failed SELECT
Sources == {"custom", "rule", "matrix", "fallback"}

ASSUME RulesAssumption ==
  /\ None \notin Nat \cup Departments \cup Approvers \cup RuleIds \cup Rule \cup Sources
  /\ RuleInputs \subseteq Rule /\ CallInputs \subseteq Input
  /\ MatrixRoles \subseteq Roles
  /\ LowTier \in Nat /\ HighTier \in Nat /\ LowTier <= HighTier
  /\ MaxFaults \in Nat

VARIABLES
  rules,      \* workflow_rules: the rules stored, by id
  call,       \* what each createWorkflow holds
  workflows,  \* the rows of workflows and workflow_steps, by call
  faults      \* faults so far

vars == <<rules, call, workflows, faults>>

-----------------------------------------------------------------------------
(* evaluateSteps                                                           *)

\* mutant of Expand: the index itself
MutantExpand(defs) ==
  [i \in DOMAIN defs |-> [defs[i] EXCEPT !.order = IF @ = 0 THEN i - 1 ELSE @]]

\* the steps of a rule or of the client, numbered where they name no order
Expand(defs) == [i \in DOMAIN defs |-> [defs[i] EXCEPT !.order = IF @ = 0 THEN i ELSE @]]

\* generateDefaultMatrixSteps
DefaultMatrix(amount, approver) ==
  LET lead == [order |-> 1, role |-> "TEAM_LEAD", approver |-> approver]
      manager == [order |-> 2, role |-> "DEPT_MANAGER", approver |-> None]
      director == [order |-> 2, role |-> "FINANCE_DIRECTOR", approver |-> None]
  IN  CASE amount < LowTier -> <<lead>>
        [] amount > HighTier -> <<lead, manager, director>>
        [] OTHER -> <<lead, manager>>

\* mutant of Covers: neither limit belongs to the range
MutantCovers(rule, amount) ==
  /\ rule.min # None => rule.min < amount
  /\ rule.max # None => amount < rule.max

\* both limits belong to the range
Covers(rule, amount) ==
  /\ rule.min # None => rule.min <= amount
  /\ rule.max # None => amount <= rule.max

\* the WHERE clause
Selected(rule, in) == rule.tenant = in.tenant /\ rule.type = in.type /\ rule.active

\* the body of the loop: is this the rule to expand?
Applies(rule, in) ==
  /\ Covers(rule, in.amount)
  /\ rule.department # None => in.department = rule.department
  /\ rule.steps # <<>>

\* mutant of Ordered: ORDER BY priority ASC
MutantOrdered(rows) ==
  \A i, j \in DOMAIN rows : i < j => rows[i].priority <= rows[j].priority

Ordered(rows) ==
  \A i, j \in DOMAIN rows : i < j => rows[i].priority >= rows[j].priority

Hits(rows, in) == {i \in DOMAIN rows : Applies(rows[i], in)}

\* the rule the loop stops at, None if it runs through
FirstHit(rows, in) == IF Hits(rows, in) = {} THEN None ELSE rows[Min(Hits(rows, in))]

\* The rows the SELECT may return: ids in an order that only the priority decides.
Results(in) ==
  LET ids == {i \in DOMAIN rules : Selected(rules[i], in)}
      Rows(seq) == [n \in DOMAIN seq |-> rules[seq[n]]]
  IN  {rows \in {Rows(seq) : seq \in SetToSeqs(ids)} : Ordered(rows)}

PlanOf(rule, in) ==
  IF rule = None THEN DefaultMatrix(in.amount, in.approver) ELSE Expand(rule.steps)

\* mutant of TotalSteps: the largest order, without the initial value
MutantTotalSteps(plan) == Max({plan[i].order : i \in DOMAIN plan})

\* maxStepOrder of createWorkflow
TotalSteps(plan) == Max({1} \cup {plan[i].order : i \in DOMAIN plan})

-----------------------------------------------------------------------------
NoCall == [pc |-> "idle", in |-> None, plan |-> <<>>, source |-> None,
           rule |-> None, read |-> {}]  \* the last two: history
NoWorkflow == [exists |-> FALSE, total |-> 1, steps |-> <<>>]

TypeOK ==
  /\ DOMAIN rules \subseteq RuleIds /\ \A i \in DOMAIN rules : rules[i] \in Rule
  /\ \A c \in Calls :
       /\ call[c].pc \in {"idle", "evaluate", "insertRow", "insertSteps", "done", "failed"}
       /\ call[c].plan \in Seq(Step)
       /\ call[c].source \in Sources \cup {None}
       /\ call[c].pc = "idle" \/ call[c].in \in Input
       /\ workflows[c].exists \in BOOLEAN /\ workflows[c].steps \in Seq(Step)
       /\ workflows[c].total \in Nat \ {0}
  /\ faults \in 0..MaxFaults

Init ==
  /\ rules = <<>>
  /\ call = [c \in Calls |-> NoCall]
  /\ workflows = [c \in Calls |-> NoWorkflow]
  /\ faults = 0

Fault == faults < MaxFaults /\ faults' = faults + 1

-----------------------------------------------------------------------------
(* The routes on rules.                                                    *)

\* POST /rules refuses a rule without steps
ValidRule(rule) == rule.steps # <<>>

\* A new rule may take a deleted one's id here, which the code's uuids never do.
CreateRule(i, rule) ==
  /\ i \notin DOMAIN rules /\ ValidRule(rule)
  /\ rules' = [j \in DOMAIN rules \cup {i} |-> IF j = i THEN rule ELSE rules[j]]
  /\ UNCHANGED <<call, workflows, faults>>

\* DELETE /rules/:id: the other tenants' rules are out of reach
DeleteRule(t, i) ==
  /\ i \in DOMAIN rules /\ rules[i].tenant = t
  /\ rules' = [j \in DOMAIN rules \ {i} |-> rules[j]]
  /\ UNCHANGED <<call, workflows, faults>>

-----------------------------------------------------------------------------
(* createWorkflow                                                          *)

\* custom steps need no rule and no database
Receive(c, in) ==
  /\ call[c].pc = "idle"
  /\ call' = [call EXCEPT ![c] =
       IF in.customSteps # <<>>
       THEN [NoCall EXCEPT !.pc = "insertRow", !.in = in, !.source = "custom",
                           !.plan = Expand(in.customSteps)]
       ELSE [NoCall EXCEPT !.pc = "evaluate", !.in = in]]
  /\ UNCHANGED <<rules, workflows, faults>>

\* the SELECT and the loop over its rows
EvaluateSteps(c) ==
  /\ call[c].pc = "evaluate"
  /\ \E rows \in Results(call[c].in) :
       LET in == call[c].in  rule == FirstHit(rows, in) IN
       call' = [call EXCEPT ![c].pc = "insertRow", ![c].plan = PlanOf(rule, in),
                            ![c].source = IF rule = None THEN "matrix" ELSE "rule",
                            ![c].rule = rule, ![c].read = Range(rules)]
  /\ UNCHANGED <<rules, workflows, faults>>

\* the SELECT fails: a warning, and the default matrix
EvaluateStepsFails(c) ==
  /\ call[c].pc = "evaluate" /\ Fault
  /\ call' = [call EXCEPT ![c].pc = "insertRow", ![c].source = "fallback",
                          ![c].plan = PlanOf(None, call[c].in)]
  /\ UNCHANGED <<rules, workflows>>

InsertRow(c) ==
  /\ call[c].pc = "insertRow"
  /\ workflows' = [workflows EXCEPT ![c].exists = TRUE,
                                    ![c].total = TotalSteps(call[c].plan)]
  /\ call' = [call EXCEPT ![c].pc = "insertSteps"]
  /\ UNCHANGED <<rules, faults>>

InsertSteps(c) ==
  /\ call[c].pc = "insertSteps"
  /\ workflows' = [workflows EXCEPT ![c].steps = call[c].plan]
  /\ call' = [call EXCEPT ![c].pc = "done"]
  /\ UNCHANGED <<rules, faults>>

\* logged, and the client is told of a success
InsertStepsFails(c) ==
  /\ call[c].pc = "insertSteps" /\ Fault
  /\ call' = [call EXCEPT ![c].pc = "done"]
  /\ UNCHANGED <<rules, workflows>>

\* the process dies, or the INSERT of the row fails and the client is told so
Abandon(c) ==
  /\ call[c].pc \in {"evaluate", "insertRow", "insertSteps"} /\ Fault
  /\ call' = [call EXCEPT ![c].pc = "failed"]
  /\ UNCHANGED <<rules, workflows>>

Next ==
  \/ \E i \in RuleIds, rule \in RuleInputs : CreateRule(i, rule)
  \/ \E t \in Tenants, i \in RuleIds : DeleteRule(t, i)
  \/ \E c \in Calls :
       \/ \E in \in CallInputs : Receive(c, in)
       \/ EvaluateSteps(c) \/ EvaluateStepsFails(c)
       \/ InsertRow(c) \/ InsertSteps(c) \/ InsertStepsFails(c) \/ Abandon(c)

Spec == Init /\ [][Next]_vars

-----------------------------------------------------------------------------
Stored(c) == workflows[c].steps # <<>>
\* The rule a workflow is planned by is one of its tenant, for its type, that applies
\* to it, and none of those stored when it was planned that do has a higher priority;
\* the default matrix plans it only if there is no such rule, custom steps or not.
PlannedByBestRule ==
  \A c \in Calls :
    LET candidates == {r \in call[c].read : Selected(r, call[c].in) /\ Applies(r, call[c].in)}
    IN  /\ call[c].source = "rule" =>
             /\ call[c].rule \in candidates
             /\ \A r \in candidates : r.priority <= call[c].rule.priority
        /\ call[c].source = "matrix" => candidates = {}

\* Amounts on either side of a limit that two rules share are covered: together they
\* leave no amount between their outer limits to the default matrix.
NoAmountBetween ==
  \A c \in Calls : \A r1, r2 \in call[c].read :
    /\ r1.max # None /\ r1.max = r2.min
    /\ \A r \in {r1, r2} :
         Selected(r, call[c].in) /\ r.steps # <<>> /\ r.department \in {None, call[c].in.department}
    /\ r1.min # None => r1.min <= call[c].in.amount
    /\ r2.max # None => call[c].in.amount <= r2.max
    => call[c].source # "matrix"

\* Steps without explicit orders, and those of the default matrix, can be approved one
\* order after the other: none of the orders 1 to totalSteps is empty.  Explicit orders
\* may leave gaps, at which approve finds no step and answers 422.
NoEmptyOrder ==
  \A c \in Calls :
    LET in == call[c].in  plan == workflows[c].steps
        defs == IF call[c].source = "custom" THEN in.customSteps ELSE call[c].rule.steps
        implicit == \A i \in DOMAIN defs : defs[i].order = 0
    IN  Stored(c) /\ (call[c].source \in {"matrix", "fallback"} \/ implicit) =>
          \A n \in 1..workflows[c].total : \E i \in DOMAIN plan : plan[i].order = n
=============================================================================
