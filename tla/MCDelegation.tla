---------------------------- MODULE MCDelegation -----------------------------
(***************************************************************************)
(* An instance of Delegation for TLC: two reviewers in parallel, one of    *)
(* them by name; windows that begin later, that have ended, that run the   *)
(* other way round, and one of another tenant.                             *)
(***************************************************************************)
EXTENDS Delegation, TLC

CONSTANTS w1, w2, bob, eve, t1, t2

MCStepApprover == [s \in Steps |-> IF s = 1 THEN bob ELSE Nobody]

From(x, y, from, until) ==
  [tenant |-> t1, delegator |-> x, delegatee |-> y, from |-> from, until |-> until]
MCDelegationInputs ==
  {From(bob, eve, 0, 0), From(bob, eve, 1, 2), From(eve, bob, 0, 2),
   [From(bob, eve, 0, 2) EXCEPT !.tenant = t2]}

Symmetry == Permutations(Workers)
=============================================================================
