----------------------------- MODULE MCHostPages -----------------------------
(* An instance of HostPages for TLC: two workflows of one tenant, and a     *)
(* tenant without any; an administrator and a team lead.                   *)
EXTENDS HostPages

CONSTANTS ta, tb, w1, w2, demo, admin, bob

StepFor(n, role, any) == [order |-> n, role |-> role, approver |-> None, any |-> any]

MCRole == [u \in Users |-> IF u = bob THEN "team_lead" ELSE "admin"]
MCRequester == [id \in Ids |-> admin]
MCTenantOf == [w \in Workflows |-> ta]
MCPlan == [id \in Ids |->
  CASE id = w1 -> <<StepFor(1, "DEPT_MANAGER", TRUE), StepFor(1, "TEAM_LEAD", TRUE),
                    StepFor(2, "LEGAL_COUNSEL", FALSE)>>
    [] id = demo -> <<StepFor(1, "TEAM_LEAD", FALSE), StepFor(2, "DEPT_MANAGER", FALSE),
                      StepFor(2, "FINANCE_DIRECTOR", FALSE)>>
    [] OTHER -> <<StepFor(1, "TEAM_LEAD", FALSE)>>]

\* The administrator opens a page on a draft beside a pending workflow, or the expenses
\* on a pending workflow with another one to come.
MCInit == /\ Init
          /\ session = [tenant |-> ta, user |-> admin]
          /\ \/ server[w1].status = "DRAFT" /\ server[w2] \in {Served(Fresh(w2), "submit", None)}
             \/ page = "expenses" /\ server[w1].status = "PENDING" /\ server[w2] = None
MCSpec == MCInit /\ [][Next]_vars /\ WF_vars(Answer \/ Return \/ Poll)
=============================================================================
