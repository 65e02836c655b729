-------------------------- MODULE MCEndpointRollout ----------------------------
(* Instances of EndpointRollout for TLC. *)
EXTENDS EndpointRollout, TLC

CONSTANTS m1, m2

(* The last build is the one of the other module. *)
MCModuleOf == [b \in Builds |-> IF m2 \in Modules /\ b = MaxBuilds THEN m2
                                ELSE m1]
===============================================================================
