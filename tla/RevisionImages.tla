---------------------------- MODULE RevisionImages ----------------------------
(***************************************************************************)
(* The durable state contracts of backend/app/revision_images.py: the      *)
(* statuses a revision image build, an endpoint deployment and a managed   *)
(* container may have, which changes between them are legal, and the same  *)
(* contract for builds as the trigger installed by backend/app/services.py *)
(* writes it.                                                              *)
(***************************************************************************)

BuildStatuses ==
    {"queued", "building", "ready", "failed", "superseded", "pruned"}

DeploymentPhases ==
    {"legacy_static", "pending", "rolling", "ready", "draining", "rollback",
     "failed"}

ContainerLifecycles ==
    {"created", "starting", "ready", "busy", "draining", "stopped", "failed",
     "missing", "removed"}

BuildTransitions ==
    [queued     |-> {"building", "failed", "pruned"},
     building   |-> {"queued", "ready", "failed"},
     ready      |-> {"superseded", "pruned"},
     failed     |-> {"pruned"},
     superseded |-> {"pruned"},
     pruned     |-> {}]

DeploymentTransitions ==
    [legacy_static |-> {"pending"},
     pending       |-> {"rolling", "rollback", "failed"},
     rolling       |-> {"draining", "ready", "rollback", "failed"},
     draining      |-> {"ready", "rollback", "failed"},
     ready         |-> {"pending", "rolling"},
     rollback      |-> {"draining", "ready", "failed"},
     failed        |-> {"rollback", "pending"}]

ContainerTransitions ==
    [created  |-> {"starting", "failed", "removed"},
     starting |-> {"ready", "failed", "missing", "removed"},
     ready    |-> {"busy", "draining", "failed", "missing", "stopped"},
     busy     |-> {"ready", "draining", "failed", "missing", "stopped"},
     draining |-> {"stopped", "failed", "missing"},
     stopped  |-> {"removed", "missing"},
     failed   |-> {"removed", "missing"},
     missing  |-> {"removed"},
     removed  |-> {}]

(* _validated_transition accepts a repeated state as well as a legal step. *)
ValidTransition(table, old, new) == new = old \/ new \in table[old]

(* The build trigger: an update of a row is refused unless one of these    *)
(* holds for the status it had and the status it gets.                     *)
TriggerAllows(old, new) ==
    /\ old = "queued" => new \in {"queued", "building", "failed", "pruned"}
    /\ old = "building" => new \in {"building", "queued", "ready", "failed"}
    /\ old = "ready" => new \in {"ready", "superseded", "pruned"}
    /\ old = "failed" => new \in {"failed", "pruned"}
    /\ old = "superseded" => new \in {"superseded", "pruned"}
    /\ old = "pruned" => new = "pruned"
===============================================================================
