-------------------------- MODULE MCEventConsumers -------------------------
(* Instances of EventConsumers for TLC: one valid event, one that violates *)
(* its schema and one that cannot be parsed.                               *)
EXTENDS EventConsumers

CONSTANTS valid, malformed, unparseable
=============================================================================
