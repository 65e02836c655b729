------------------------ MODULE MCEndpointInvocations -------------------------
(* Instances of EndpointInvocations for TLC. *)
EXTENDS EndpointInvocations, TLC

CONSTANTS i1, i2, a1, a2, b1
===============================================================================
