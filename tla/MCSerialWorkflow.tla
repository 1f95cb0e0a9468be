-------------------------- MODULE MCSerialWorkflow --------------------------
(* SerialWorkflow on the step plans of MCWorkflowService.                  *)
EXTENDS SerialWorkflow, MCWorkflowService
=============================================================================
