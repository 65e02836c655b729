--------------------------- MODULE MCRevisionBuilds ---------------------------
(* Instances of RevisionBuilds for TLC. *)
EXTENDS RevisionBuilds, TLC

CONSTANTS i1, i2, m1, m2, r1, r2, r3

MCModuleOf ==
    [r \in Revisions |-> IF m2 \in Modules /\ r = r3 THEN m2 ELSE m1]

(* State constraints that leave out requests a run is not about. *)
WithoutRetries ==
    /\ rebuild = None /\ \A r \in Revisions : retry[r] = None
    /\ \A m \in Modules : enqueue[m] = None

(* A race is between two transactions. *)
TwoTransactions ==
    Cardinality({r \in Revisions : retry[r] # None})
      + Cardinality({m \in Modules : enqueue[m] # None})
      + (IF rebuild # None THEN 1 ELSE 0)
      + Cardinality({s \in Reconcilers : missing[s] # {}}) <= 2

(* A run has a new base image or a fault, and not both. *)
WithoutRetriesOneDisturbance == WithoutRetries /\ tag - 1 + faults <= 1

Symmetry == Permutations(Instances) \cup Permutations(Revisions)
===============================================================================
