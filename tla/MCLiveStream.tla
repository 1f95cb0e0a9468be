---------------------------- MODULE MCLiveStream -----------------------------
(* An instance of LiveStream for TLC: two tenants with an event each.        *)
EXTENDS LiveStream

CONSTANTS ta, tb, e1, e2

MCEventTenant == [e \in Events |-> IF e = e2 THEN tb ELSE ta]
=============================================================================
