-------------------------- MODULE SerialWorkflow ---------------------------
(***************************************************************************)
(* The handlers of WorkflowService implement the atomic ApprovalProcess    *)
(* when one runs at a time and none is cut short (one worker, MaxAbandons  *)
(* = 0).  A handler's operation takes place when it saves its event: until *)
(* then the process is still what the handler read when it started.        *)
(***************************************************************************)
EXTENDS WorkflowService

Writing(w)  == req[w].pc \in {"markStep", "settle", "saveEvent"}
Creating(w) == req[w].pc = "insertSteps"
Purging(w)  == req[w].pc \in {"deleteOutbox", "deleteRow"}

\* what has not taken place yet, undone
MappedFlow ==
  IF \E w \in Workers : Creating(w) \/ Purging(w) THEN NoRow
  ELSE IF \E w \in Workers : Writing(w)
       THEN req[CHOOSE w \in Workers : Writing(w)].row
       ELSE row

MappedVerdict ==
  IF \E w \in Workers : Writing(w)
  THEN req[CHOOSE w \in Workers : Writing(w)].steps ELSE steps

MappedLog == IF \E w \in Workers : Purging(w) THEN <<>> ELSE outbox

MappedUsed == created /\ \A w \in Workers : ~Creating(w)

Process == INSTANCE ApprovalProcess
           WITH flow <- MappedFlow, verdict <- MappedVerdict,
                log <- MappedLog, used <- MappedUsed

\* A handler that runs alone does what the atomic process does: no caller can
\* tell its sequence of separate statements from one transaction.
ImplementsApprovalProcess == Process!ASpec
=============================================================================
