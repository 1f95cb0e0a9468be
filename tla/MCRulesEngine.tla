---------------------------- MODULE MCRulesEngine ----------------------------
(***************************************************************************)
(* An instance of RulesEngine for TLC.  The rules meet at amounts, overlap *)
(* in departments and differ in priority; the amounts lie on the limits   *)
(* and beyond them.                                                        *)
(***************************************************************************)
EXTENDS RulesEngine, TLC

CONSTANTS t1, t2, eng, expense, purchase, i1, i2, c1, c2

MCRoles == MatrixRoles \cup {"ANY_ROLE"}
At(n) == [order |-> n, role |-> "ANY_ROLE", approver |-> None]

RuleFor(min, max, priority, steps) ==
  [tenant |-> t1, type |-> expense, active |-> TRUE, priority |-> priority,
   min |-> min, max |-> max, department |-> None, steps |-> steps]

Low == RuleFor(None, 2, 1, <<At(0), At(0)>>)
High == RuleFor(2, 3, 1, <<At(1), At(3)>>)
Department == [RuleFor(None, None, 2, <<At(0)>>) EXCEPT !.department = eng]
MCRuleInputs ==
  {Low, High, Department, [Low EXCEPT !.tenant = t2, !.priority = 5],
   [High EXCEPT !.active = FALSE, !.priority = 9]}

InputOf(type, amount, department, custom) ==
  [tenant |-> t1, type |-> type, amount |-> amount, department |-> department,
   approver |-> None, customSteps |-> custom]
MCCallInputs ==
  {InputOf(expense, amount, None, <<>>) : amount \in {2, 3, 5}}
  \cup {InputOf(expense, 3, eng, <<>>), InputOf(purchase, 2, None, <<>>),
        InputOf(expense, 3, None, <<At(-1)>>)}

Symmetry == Permutations(RuleIds) \cup Permutations(Calls)
=============================================================================
