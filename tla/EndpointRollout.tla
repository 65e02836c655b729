---------------------------- MODULE EndpointRollout ----------------------------
(***************************************************************************)
(* One managed endpoint: its deployment rows, its containers and their     *)
(* rows, the registrations of the workers that run in them, and the        *)
(* reconciler of the deployer that rolls a target build out, promotes it,  *)
(* rolls it back, scales, and takes a deleted endpoint down.               *)
(*                                                                         *)
(* A container is identified by generation, slot and build: its name, and  *)
(* so the id of its worker, is computed from them.  A cycle of the         *)
(* reconciler schedules a new image, reads deployment, registrations, rows *)
(* and Docker, and then executes the statements and Docker calls it        *)
(* decided on (plan) one by one, while requests and workers move on.       *)
(* Time is abstracted: the timeout a plan asks for has elapsed or not.     *)
(***************************************************************************)
EXTENDS Naturals, FiniteSets, Sequences, RevisionImages

CONSTANTS
    Modules,        \* modules the endpoint can serve
    MaxBuilds,      \* builds, numbered in the order they become ready
    ModuleOf,       \* the module of each build
    Broken,         \* builds whose worker does not start
    MaxReplicas,    \* bound: pinned_worker_count
    MaxGeneration,  \* bound: rollout generations
    MaxRequests,    \* bound: updates and deletions by operators
    MaxFaults,      \* bound: failed starts, deaths of workers and deployers
    None            \* no container

Builds == 1..MaxBuilds     \* 0 is the SQL null

ASSUME RolloutAssumption ==
    /\ MaxBuilds \in Nat \ {0} /\ MaxReplicas \in Nat \ {0}
    /\ MaxGeneration \in Nat /\ MaxRequests \in Nat /\ MaxFaults \in Nat
    /\ ModuleOf \in [Builds -> Modules]
    /\ Broken \subseteq Builds

VARIABLES
    published,    \* builds that have become ready: 1..published
    superseded,   \* those of them that a rebuild of their revision replaced
    deployment,   \* the latest row of endpoint_deployments
    generations,  \* rollout_generation of every row of the endpoint
    life,         \* of the row of bundle_endpoints
    worker,       \* containers in Docker and the process in each
    record,       \* managed_endpoint_containers that are not "removed"
    registry,     \* endpoint_worker_registrations; "stale": expired
    assigned,     \* assigned_endpoint_id is set
    view,         \* what it read, as far as the plan depends on it
    plan,         \* what it has still to do; empty between two cycles
    requests,     \* operator requests so far
    faults        \* faults so far

buildVars == <<published, superseded>>
tableVars == <<buildVars, deployment, generations, life>>
workerVars == <<worker, record, registry, assigned>>
reconcilerVars == <<view, plan>>
vars == <<tableVars, workerVars, reconcilerVars, requests, faults>>

-------------------------------------------------------------------------------
Containers == [gen : 0..MaxGeneration, slot : 0..(MaxReplicas - 1),
               build : Builds]

Nothing == [row |-> 0, replicas |-> 0, timedOut |-> FALSE]

Owned == {k \in Containers : worker[k] # "absent"}

(* Mutant: an observed container is taken for a ready one. *)
ReadyWhenObserved(k) == record[k] = "ready"

(* ready_for: a live registration bound to the slot. *)
ReadyFor(k) == assigned[k] /\ registry[k] \in {"listening", "running"}

(* The registration is live and says that a task is running. *)
ActiveTask(k) == registry[k] = "running"

(* _identity_matches_intent *)
Matches(k) == k.gen = deployment.gen

InRollout == deployment.phase \in {"pending", "rolling", "draining", "rollback"}

DesiredArtifact ==
    IF deployment.phase # "rollback" /\ deployment.target # 0
    THEN deployment.target ELSE deployment.active

(* module_import_id of the endpoint, which a promotion sets. *)
EndpointModule ==
    ModuleOf[IF deployment.active # 0 THEN deployment.active ELSE 1]

(* The ready build of the current revision of a module, if it has one: the *)
(* last one published, which nothing has superseded.                       *)
IsNewest(b, m) ==
    /\ b \in 1..published /\ ModuleOf[b] = m
    /\ \A c \in 1..published : ModuleOf[c] = m => c <= b

(* validate_managed_endpoint_worker_identity, for a container row in one   *)
(* of the lifecycles: a worker whose build is no longer "ready" is refused *)
(* although the deployment names the build.                                *)
Validates(k, lifecycles) ==
    /\ life # "gone"
    /\ k.build \in {deployment.active, deployment.target, deployment.previous}
    /\ k.build \notin superseded
    /\ k.slot < deployment.replicas
    /\ k.gen \in generations
    /\ record[k] \in lifecycles

(* create_bundle_endpoint: a pending rollout of the module's build. *)
Init ==
    /\ published = 1 /\ superseded = {}
    /\ \E n \in 1..MaxReplicas :
         deployment = [row |-> 1, gen |-> 0, phase |-> "pending", active |-> 0,
                       target |-> 1, previous |-> 0, failed |-> 0,
                       replicas |-> n]
    /\ generations = {0}
    /\ life = "live"
    /\ worker = [k \in Containers |-> "absent"]
    /\ record = [k \in Containers |-> "none"]
    /\ registry = [k \in Containers |-> "none"]
    /\ assigned = [k \in Containers |-> FALSE]
    /\ view = Nothing /\ plan = <<>>
    /\ requests = 0 /\ faults = 0

-------------------------------------------------------------------------------
(* Scheduling a rollout. *)

(* A ready deployment gets a new row; any other is changed in place. *)
Schedule(b) ==
    /\ deployment.gen < MaxGeneration
    /\ deployment' = [deployment EXCEPT
         !.row = IF deployment.phase = "ready" THEN @ + 1 ELSE @,
         !.gen = @ + 1, !.phase = "pending", !.target = b, !.failed = 0]
    /\ generations' =
         (IF deployment.phase = "ready" THEN generations
          ELSE generations \ {deployment.gen}) \cup {deployment.gen + 1}

(* A module gets an image, of a new revision or, rebuilt, of its current   *)
(* one.  The publication of the latter supersedes the image before it.     *)
NewImage ==
    /\ published < MaxBuilds
    /\ published' = published + 1
    /\ \/ UNCHANGED superseded
       \/ superseded' = superseded \cup
            {b \in Builds : IsNewest(b, ModuleOf[published + 1])}
    /\ UNCHANGED <<deployment, generations, life, workerVars, reconcilerVars,
                   requests, faults>>

Request ==
    /\ life = "live"
    /\ requests < MaxRequests /\ requests' = requests + 1
    /\ UNCHANGED <<buildVars, reconcilerVars, faults>>

(* The operator moves the endpoint to another module, whose image is ready. *)
UpdateModule(b) ==
    /\ Request
    /\ ModuleOf[b] # EndpointModule /\ IsNewest(b, ModuleOf[b])
    /\ b \notin {deployment.active, deployment.target}
    /\ Schedule(b)
    /\ UNCHANGED <<life, workerVars>>

SetReplicas(n) ==
    /\ Request
    /\ deployment.replicas # n
    /\ deployment' = [deployment EXCEPT !.replicas = n]
    /\ UNCHANGED <<generations, life, workerVars>>

(* The endpoint is tombstoned and its registrations are fenced. *)
DeleteEndpoint ==
    /\ Request
    /\ life' = "deleting"
    /\ deployment' = [deployment EXCEPT !.phase = "draining"]
    /\ registry' = [k \in Containers |->
                      IF registry[k] = "none" THEN "none" ELSE "stale"]
    /\ assigned' = [k \in Containers |-> FALSE]
    /\ UNCHANGED <<generations, worker, record>>

-------------------------------------------------------------------------------
(* The worker in a container.  In "boot" its process starts, or has exited  *)
(* (a registration that is refused ends it) and Docker starts it again.    *)

Becomes(k, place) == worker' = [worker EXCEPT ![k] = place]
OnlyWorker == UNCHANGED <<tableVars, record, reconcilerVars, requests>>

(* Mutant: a draining container may register as well. *)
JoinDraining(k) ==
    /\ worker[k] = "boot" /\ k.build \notin Broken
    /\ Validates(k, {"ready", "draining"})
    /\ Becomes(k, "joining")
    /\ OnlyWorker /\ UNCHANGED <<registry, assigned, faults>>

(* The registration statement has locked the container's row, "ready".     *)
Join(k) ==
    /\ worker[k] = "boot" /\ k.build \notin Broken
    /\ Validates(k, {"ready"})
    /\ Becomes(k, "joining")
    /\ OnlyWorker /\ UNCHANGED <<registry, assigned, faults>>

Register(k) ==
    /\ worker[k] = "joining"
    /\ Becomes(k, "up")
    /\ registry' = [registry EXCEPT ![k] = "preparing"]
    /\ assigned' = [assigned EXCEPT ![k] = TRUE]
    /\ OnlyWorker /\ UNCHANGED faults

(* A turn of the worker's loop: without its assignment, or when its        *)
(* heartbeat is refused, the process ends.                                 *)
Listen(k) ==
    /\ worker[k] = "up"
    /\ IF /\ assigned[k] /\ registry[k] \in {"preparing", "listening"}
          /\ Validates(k, {"ready", "draining"})
       THEN registry' = [registry EXCEPT ![k] = "listening"] /\ UNCHANGED worker
       ELSE Becomes(k, "boot") /\ UNCHANGED registry
    /\ OnlyWorker /\ UNCHANGED <<assigned, faults>>

(* A job of the build's queue is claimed.  Whether the queue holds one is  *)
(* left open.                                                              *)
Claim(k) ==
    /\ worker[k] = "up" /\ assigned[k] /\ registry[k] = "listening"
    /\ Becomes(k, "busy")
    /\ registry' = [registry EXCEPT ![k] = "running"]
    /\ OnlyWorker /\ UNCHANGED <<assigned, faults>>

(* The invocation is answered; the heartbeat that gives the task back may  *)
(* be refused.                                                             *)
Answer(k) ==
    /\ worker[k] = "busy"
    /\ Becomes(k, "up")
    /\ registry' =
         IF registry[k] = "running" /\ Validates(k, {"ready", "draining"})
         THEN [registry EXCEPT ![k] = "listening"] ELSE registry
    /\ OnlyWorker /\ UNCHANGED <<assigned, faults>>

(* heartbeat_expires_at passes and the backend marks the row stale: only   *)
(* when no heartbeat of this worker would be accepted.                     *)
Expire(k) ==
    /\ registry[k] \in {"preparing", "listening", "running"}
    /\ ~(worker[k] \in {"up", "busy"} /\ Validates(k, {"ready", "draining"}))
    /\ registry' = [registry EXCEPT ![k] = "stale"]
    /\ OnlyWorker /\ UNCHANGED <<worker, assigned, faults>>

Die(k) ==
    /\ worker[k] \in {"joining", "up", "busy"}
    /\ faults < MaxFaults /\ faults' = faults + 1
    /\ Becomes(k, "boot")
    /\ OnlyWorker /\ UNCHANGED <<registry, assigned>>

Work(k) ==
    \/ Join(k) \/ Register(k) \/ Listen(k) \/ Claim(k) \/ Answer(k)
    \/ Expire(k) \/ Die(k)

-------------------------------------------------------------------------------
(* The plan of a cycle: what is done, with the container it is done to. *)

On(op, k) == <<[op |-> op, key |-> k]>>
Removal(k) == On("stop", k) \o On("forget", k)

(* Mutant: a drained container is removed in the same cycle. *)
DrainAtOnce(k, immediate, late) ==
    On("block", k) \o On("mark", k) \o
    (IF ActiveTask(k) THEN <<>> ELSE Removal(k))

(* Mutant: an active task holds the removal back without a limit. *)
DrainForEver(k, immediate, late) ==
    IF record[k] # "draining" THEN On("block", k) \o On("mark", k)
    ELSE IF ActiveTask(k) THEN <<>> ELSE Removal(k)

(* _drain_and_remove *)
Drain(k, immediate, late) ==
    IF record[k] # "draining"
    THEN (IF record[k] = "none" THEN On("adopt", k) ELSE <<>>)
         \o On("block", k) \o On("mark", k)
         \o (IF immediate /\ ~ActiveTask(k) THEN Removal(k) ELSE <<>>)
    ELSE IF ActiveTask(k) /\ ~late THEN <<>> ELSE Removal(k)

RolloutTimedOut(late) ==
    deployment.phase \in {"rolling", "draining"} /\ late

Canonical(s) == [gen |-> deployment.gen, slot |-> s, build |-> DesiredArtifact]
Obsolete(s) == {k \in Owned : k.slot = s /\ k # Canonical(s)}

Settled(s, up) ==
    /\ Canonical(s) \in up /\ ReadyFor(Canonical(s))
    /\ InRollout \/ Obsolete(s) = {}

(* The first slot that is not as desired gets one measure. *)
Repair(s, up, late) ==
    LET k == Canonical(s)
        fail == On("fail", None)
    IN  IF worker[k] = "absent"
        THEN IF RolloutTimedOut(late) THEN {fail}
             ELSE {On("start", k) \o On("adopt", k)
                   \o (IF deployment.phase = "pending"
                       THEN On("rolling", None) ELSE <<>>)}
        ELSE IF k \notin up
        THEN {Removal(k) \o (IF RolloutTimedOut(late) THEN fail ELSE <<>>)}
        ELSE IF ~ReadyFor(k)
        THEN IF late THEN {fail} ELSE {<<>>}
        ELSE {Drain(old, FALSE, late) : old \in Obsolete(s)}

Excess == {k \in Owned : \/ k.slot >= deployment.replicas
                         \/ k # Canonical(k.slot)}

(* _reconcile_intent *)
Converge(up, late) ==
    LET open == {s \in 0..(deployment.replicas - 1) : ~Settled(s, up)}
        last == {k \in Excess : \A j \in Excess : j.slot <= k.slot}
    IN  IF DesiredArtifact = 0
        THEN IF deployment.phase = "failed" THEN {<<>>} ELSE {On("fail", None)}
        ELSE IF open # {}
        THEN Repair(CHOOSE s \in open : \A t \in open : s <= t, up, late)
        ELSE IF InRollout
        THEN {On(IF deployment.phase = "rollback" THEN "restore" ELSE "promote",
                 None)}
        ELSE IF Excess = {} THEN {<<>>}
        ELSE {Drain(k, k.slot >= deployment.replicas, late) : k \in last}

(* run_cycle after its readings *)
Plans(up, late) ==
    LET missing == {k \in Containers : record[k] # "none" /\ k \notin Owned}
    IN  IF missing # {} THEN {On("forget", k) : k \in missing}
        ELSE IF life = "live" THEN Converge(up, late)
        ELSE IF Owned # {} THEN {Drain(k, FALSE, late) : k \in Owned}
        ELSE IF life = "deleting" THEN {On("finalize", None)} ELSE {<<>>}

-------------------------------------------------------------------------------
(* The reconciler. *)

OnlyReconciler == UNCHANGED <<buildVars, requests>>

(* reconcile_deployment_targets: a deployment at rest gets the newest image *)
(* of its module, unless that is the one that failed.  A cycle does so for *)
(* one endpoint only, before it reads.                                     *)
Wanted(b) ==
    /\ life = "live" /\ deployment.phase \in {"ready", "failed"}
    /\ IsNewest(b, IF deployment.failed # 0 THEN ModuleOf[deployment.failed]
                   ELSE EndpointModule)
    /\ b \notin {deployment.active, deployment.target, deployment.failed}

ReconcileTargets ==
    /\ plan = <<>>
    /\ \E b \in Builds : Wanted(b) /\ Schedule(b)
    /\ UNCHANGED <<life, workerVars, view, plan, faults>> /\ OnlyReconciler

(* The lists are read, the rows of the current generation's containers are *)
(* brought up to date, and the cycle's plan is made.  Docker shows the     *)
(* containers in "up" as running.                                          *)
Read(up, late) ==
    /\ plan = <<>>
    /\ record' = [k \in Containers |->
                    IF life = "live" /\ Matches(k) /\ k \in Owned
                       /\ record[k] # "draining"
                    THEN IF k \in up THEN "ready" ELSE "stopped"
                    ELSE record[k]]
    /\ plan' \in Plans(up, late)
    /\ view' = IF plan' = <<>> THEN Nothing
               ELSE [row |-> deployment.row, replicas |-> deployment.replicas,
                     timedOut |-> /\ Head(plan').op = "stop"
                                  /\ ActiveTask(Head(plan').key) /\ late]
    /\ UNCHANGED <<deployment, generations, life, worker, registry, assigned,
                   faults>> /\ OnlyReconciler

ReadWith(late) ==
    \E up \in SUBSET Owned :
        {k \in Owned : worker[k] # "boot"} \subseteq up /\ Read(up, late)

GoOn(rest) == plan' = rest /\ view' = IF rest = <<>> THEN Nothing ELSE view

Due(op) == plan # <<>> /\ Head(plan).op = op
Key == Head(plan).key

(* A name that exists cannot occur here; other failures end the rollout.   *)
StartContainer ==
    /\ Due("start")
    /\ \/ /\ Becomes(Key, "boot")
          /\ GoOn(Tail(plan)) /\ UNCHANGED faults
       \/ /\ faults < MaxFaults /\ faults' = faults + 1
          /\ GoOn(On("fail", None)) /\ UNCHANGED worker
    /\ UNCHANGED <<deployment, generations, life, record, registry, assigned>>
    /\ OnlyReconciler

StopRemoveContainer ==
    /\ Due("stop")
    /\ Becomes(Key, "absent")
    /\ GoOn(Tail(plan))
    /\ UNCHANGED <<deployment, generations, life, record, registry, assigned,
                   faults>> /\ OnlyReconciler

SetRecord(lifecycle) == record' = [record EXCEPT ![Key] = lifecycle]

(* Statements on a container's row wait for a registration that locks it.  *)
ObserveContainer ==
    /\ Due("adopt") /\ worker[Key] # "joining"
    /\ \/ record[Key] = "draining" /\ UNCHANGED record
       \/ record[Key] # "draining" /\ SetRecord("ready")
       \/ /\ record[Key] # "draining" /\ worker[Key] = "boot"
          /\ SetRecord("stopped")
    /\ GoOn(Tail(plan))
    /\ UNCHANGED <<deployment, generations, life, worker, registry, assigned,
                   faults>> /\ OnlyReconciler

(* The statement changes the container's row and the registrations that    *)
(* its snapshot contains.  While a first registration is being committed   *)
(* it waits for the container's row, and does not see the registration.    *)
BlockWorkerClaims ==
    /\ Due("block")
    /\ \/ /\ worker[Key] # "joining"
          /\ IF record[Key] = "ready" THEN SetRecord("draining")
             ELSE UNCHANGED record
          /\ assigned' = [assigned EXCEPT ![Key] = FALSE]
          /\ GoOn(Tail(plan))
       \/ /\ worker[Key] = "joining" /\ registry[Key] = "none"
          /\ GoOn(Tail(plan))
          /\ UNCHANGED <<record, assigned>>
    /\ UNCHANGED <<deployment, generations, life, worker, registry, faults>>
    /\ OnlyReconciler

MarkContainerDraining ==
    /\ Due("mark") /\ worker[Key] # "joining"
    /\ SetRecord("draining")
    /\ GoOn(Tail(plan))
    /\ UNCHANGED <<deployment, generations, life, worker, registry, assigned,
                   faults>> /\ OnlyReconciler

(* The row becomes "removed" and takes the registration with it. *)
RecordContainerRemoved ==
    /\ Due("forget")
    /\ SetRecord("none")
    /\ registry' = [registry EXCEPT ![Key] = "none"]
    /\ assigned' = [assigned EXCEPT ![Key] = FALSE]
    /\ GoOn(Tail(plan))
    /\ UNCHANGED <<deployment, generations, life, worker, faults>>
    /\ OnlyReconciler

(* The statements on the deployment name the row that was read, whatever   *)
(* it holds now.                                                           *)
SameRow == view.row = deployment.row
OnlyDeployment == UNCHANGED <<generations, life, workerVars, faults>> /\ OnlyReconciler

MarkDeploymentRolling ==
    /\ Due("rolling")
    /\ deployment' = [deployment EXCEPT
         !.phase = IF @ = "pending" /\ SameRow THEN "rolling" ELSE @]
    /\ GoOn(Tail(plan))
    /\ OnlyDeployment

(* Mutant: the failed build stays the target. *)
FailKeepingTarget ==
    /\ Due("fail")
    /\ IF SameRow
       THEN deployment' = [deployment EXCEPT
              !.failed = @, !.phase = IF deployment.active = 0 THEN "failed" ELSE "rolling"]
       ELSE UNCHANGED deployment
    /\ GoOn(<<>>)
    /\ OnlyDeployment

(* If a new row was added since, a second one in "rollback" violates the   *)
(* index of open rollouts, and the cycle ends with an error.               *)
FailOrRollbackDeployment ==
    /\ Due("fail")
    /\ IF SameRow
       THEN deployment' = [deployment EXCEPT
              !.failed = deployment.target, !.target = deployment.active,
              !.phase = IF deployment.active = 0 THEN "failed" ELSE "rollback"]
       ELSE UNCHANGED deployment
    /\ GoOn(<<>>)
    /\ OnlyDeployment

CompleteDeployment ==
    /\ Due("promote") \/ Due("restore")
    /\ deployment' =
         IF Head(plan).op = "restore"
         THEN [deployment EXCEPT !.target = 0, !.phase = "ready"]
         ELSE [deployment EXCEPT !.previous = deployment.active,
                 !.active = deployment.target, !.target = 0, !.phase = "ready"]
    /\ GoOn(<<>>)
    /\ OnlyDeployment

FinalizeEndpointDeletion ==
    /\ Due("finalize")
    /\ life' = IF \A k \in Containers : record[k] = "none" THEN "gone" ELSE life
    /\ GoOn(<<>>)
    /\ UNCHANGED <<deployment, generations, workerVars, faults>>
    /\ OnlyReconciler

(* The deployer dies, loses its session, or a statement or a call of       *)
(* Docker raises: the cycle is given up.                                   *)
CycleFails ==
    /\ plan # <<>>
    /\ faults < MaxFaults /\ faults' = faults + 1
    /\ GoOn(<<>>)
    /\ UNCHANGED <<tableVars, workerVars, requests>>

Act ==
    \/ StartContainer \/ StopRemoveContainer \/ ObserveContainer
    \/ BlockWorkerClaims \/ MarkContainerDraining \/ RecordContainerRemoved
    \/ MarkDeploymentRolling \/ FailOrRollbackDeployment \/ CompleteDeployment
    \/ FinalizeEndpointDeletion

-------------------------------------------------------------------------------
Next ==
    \/ NewImage \/ DeleteEndpoint
    \/ \E b \in Builds : UpdateModule(b)
    \/ \E n \in 1..MaxReplicas : SetReplicas(n)
    \/ \E k \in Containers : Work(k)
    \/ ReconcileTargets \/ Act \/ CycleFails
    \/ \E late \in BOOLEAN : ReadWith(late)

Spec == Init /\ [][Next]_vars

(* The reconciler goes on and timeouts elapse; containers that are started *)
(* again and again are seen running and their workers register; workers    *)
(* keep listening and lose registrations they cannot renew.  An invocation *)
(* may take for ever.                                                      *)
Reconciler == Act \/ \E late \in BOOLEAN : ReadWith(late)
SeenRunning ==
    \E k \in Containers :
        /\ worker[k] = "boot" /\ k = Canonical(k.slot) /\ record[k] # "ready"
        /\ ReadWith(TRUE) \/ ObserveContainer
        /\ record'[k] = "ready"
Settle == \E k \in Containers : Register(k) \/ Listen(k) \/ Expire(k)

Fairness ==
    /\ WF_vars(Reconciler) /\ SF_vars(ReadWith(TRUE)) /\ SF_vars(SeenRunning)
    /\ WF_vars(Settle) /\ SF_vars(\E k \in Containers : Join(k))

FairSpec == Spec /\ Fairness

-------------------------------------------------------------------------------
Operations == {"start", "adopt", "block", "mark", "stop", "forget", "rolling",
               "fail", "promote", "restore", "finalize"}

(* Every variable keeps its type, and a container that is being registered *)
(* keeps the row the registration has locked.                              *)
TypeOK ==
    /\ published \in Builds /\ superseded \subseteq Builds
    /\ deployment \in
         [row : 1..(MaxGeneration + 1), gen : 0..MaxGeneration,
          phase : DeploymentPhases, active : 0..MaxBuilds,
          target : 0..MaxBuilds, previous : 0..MaxBuilds,
          failed : 0..MaxBuilds, replicas : 1..MaxReplicas]
    /\ generations \subseteq 0..MaxGeneration
    /\ deployment.gen \in generations
    /\ life \in {"live", "deleting", "gone"}
    /\ worker \in [Containers -> {"absent", "boot", "joining", "up", "busy"}]
    /\ record \in [Containers -> {"none", "ready", "stopped", "draining"}]
    /\ registry \in [Containers -> {"none", "preparing", "listening",
                                    "running", "stale"}]
    /\ assigned \in [Containers -> BOOLEAN]
    /\ \A k \in Containers : worker[k] = "joining" => record[k] = "ready"
    /\ view \in [row : 0..(MaxGeneration + 1), replicas : 0..MaxReplicas,
                 timedOut : BOOLEAN]
    /\ plan \in Seq([op : Operations, key : Containers \cup {None}])
    /\ requests \in 0..MaxRequests
    /\ faults \in 0..MaxFaults

(* A worker drained while it runs an invocation keeps its container until  *)
(* the invocation is answered, its heartbeats cease to be accepted, or the *)
(* drain times out.  Left out are workers of surplus slots, and one whose  *)
(* first registration the drain did not see.                               *)
Stopped(k) == worker[k] # "absent" /\ worker'[k] = "absent"
DrainKeepsClaimStep ==
    \A k \in Containers :
        /\ Stopped(k) /\ record[k] = "draining" /\ ~assigned[k]
        /\ worker[k] = "busy" /\ registry[k] = "running"
        /\ k.slot < view.replicas
        => view.timedOut
DrainKeepsClaim == [][DrainKeepsClaimStep]_vars

(* A slot that the deployment wants is drained only when another container *)
(* of the slot has registered.                                             *)
SlotHandedOverStep ==
    \A k \in Containers :
        /\ assigned[k] /\ ~assigned'[k] /\ record'[k] = "draining"
        /\ k.slot < view.replicas /\ life = "live" /\ life' = "live"
        => \E j \in Containers :
             /\ j # k /\ j.slot = k.slot
             /\ worker[j] # "absent" /\ registry[j] # "none"
SlotHandedOver == [][SlotHandedOverStep]_vars

(* The containers of a deleted endpoint are taken down, whatever its       *)
(* workers run, and the endpoint is removed.                               *)
DeletionFinishes == life = "deleting" ~> life = "gone"

(* A rollout is decided: the endpoint comes to rest, "ready" or "failed",  *)
(* whatever its builds do and also if its active build is superseded while *)
(* another is rolled out.  Excepted is a rollback to a build that does not *)
(* start, or whose workers are refused because a rebuild has superseded it.*)
AtRest == deployment.phase \in {"ready", "failed"} \/ life # "live"
CannotRestore ==
    /\ deployment.phase = "rollback"
    /\ deployment.active \in Broken \cup superseded
RolloutEnds == ~AtRest ~> AtRest \/ CannotRestore

-------------------------------------------------------------------------------
(* Runbook: "Target workers receive no traffic until every exact desired   *)
(* slot is ready and the reconciler atomically promotes target to active." *)
(* A build that is promoted has a container in every slot.                 *)
PromotedBuildRuns ==
    [][deployment'.active # deployment.active =>
         \A s \in 0..(view.replicas - 1) :
             \E k \in Owned : k.slot = s /\ k.build = deployment'.active]_vars
===============================================================================
