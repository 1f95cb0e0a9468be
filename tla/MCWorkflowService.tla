------------------------- MODULE MCWorkflowService -------------------------
(***************************************************************************)
(* Instances of WorkflowService for TLC.  Each plan of steps is one that   *)
(* createWorkflow can produce.                                             *)
(***************************************************************************)
EXTENDS WorkflowService, TLC

CONSTANTS s1, s2, s3, s4

\* the default matrix above 100000: a lead, then two directors in parallel who
\* must both approve
MatrixOrder  == s1 :> 1 @@ s2 :> 2 @@ s3 :> 2
MatrixPolicy == [s \in {s1, s2, s3} |-> "ALL_MUST_APPROVE"]

\* two reviewers, one of whom decides alone, then one more
EitherOrder  == s1 :> 1 @@ s2 :> 1 @@ s3 :> 2
EitherPolicy ==
  s1 :> "ANY_CAN_APPROVE" @@ s2 :> "ALL_MUST_APPROVE" @@ s3 :> "ALL_MUST_APPROVE"

\* custom steps: both policies at one order, then two reviewers
MixedOrder  == s1 :> 1 @@ s2 :> 1 @@ s3 :> 2 @@ s4 :> 2
MixedPolicy == s1 :> "ANY_CAN_APPROVE" @@ s2 :> "ALL_MUST_APPROVE"
               @@ s3 :> "ALL_MUST_APPROVE" @@ s4 :> "ALL_MUST_APPROVE"

\* two reviewers in parallel, alone
PairOrder  == s1 :> 1 @@ s2 :> 1
PairPolicy == [s \in {s1, s2} |-> "ALL_MUST_APPROVE"]

WorkerSymmetry == Permutations(Workers)
=============================================================================
