------------------------- MODULE EndpointRolloutProofs -------------------------
(* Theorems about EndpointRollout for every value of its constants. *)
EXTENDS EndpointRollout, WellFoundedInduction, TLAPS

-------------------------------------------------------------------------------
(* The invariant: what a plan was made from still holds when it is executed. *)

OnContainer == {"start", "adopt", "block", "mark", "stop", "forget"}
Steps == [op : Operations, key : Containers \cup {None}]
StepsFor(k) == [op : OnContainer, key : {k}]
                 \cup [op : Operations \ OnContainer, key : {None}]

(* A worker that is stopped has nothing to answer, or is out of time.       *)
Spared(k) == \/ view.timedOut
             \/ record[k] # "draining"
             \/ worker[k] \in {"absent", "boot"}
             \/ registry[k] # "running" \/ assigned[k]

(* Another container of the slot has a worker that has registered.          *)
Replaced(k) == \E j \in Containers : /\ j # k /\ j.slot = k.slot
                                     /\ worker[j] # "absent" /\ registry[j] # "none"

(* A plan is about one container.  Its row is removed only when the container *)
(* is, and a slot that the deployment wants is not drained for nothing.     *)
Surplus(k) == k.slot >= view.replicas
PlanFor(k) ==
    /\ plan \in Seq(StepsFor(k))
    /\ \A n \in 1..Len(plan) :
         /\ plan[n].op = "forget" =>
              /\ worker[k] = "absent" \/ \E m \in 1..(n - 1) : plan[m].op = "stop"
              /\ \A m \in 1..Len(plan) : plan[m].op # "start"
         /\ plan[n].op = "stop" => Surplus(k) \/ (n = 1 /\ Spared(k))
         /\ plan[n].op = "block" => Surplus(k) \/ life # "live" \/ Replaced(k)
Planned == \E k \in Containers : PlanFor(k)

(* Rows of the deployment are fewer than its generations.                   *)
Numbered == deployment.row <= deployment.gen + 1

-------------------------------------------------------------------------------
(* Types. *)

DeploymentRows ==
    [row : 1..(MaxGeneration + 1), gen : 0..MaxGeneration, phase : DeploymentPhases,
     active : 0..MaxBuilds, target : 0..MaxBuilds, previous : 0..MaxBuilds,
     failed : 0..MaxBuilds, replicas : 1..MaxReplicas]
TableTypes == /\ published \in Builds /\ superseded \subseteq Builds
              /\ deployment \in DeploymentRows
              /\ generations \subseteq 0..MaxGeneration /\ deployment.gen \in generations
              /\ life \in {"live", "deleting", "gone"} /\ Numbered
WorkerTypes == /\ worker \in [Containers -> {"absent", "boot", "joining", "up", "busy"}]
               /\ record \in [Containers -> {"none", "ready", "stopped", "draining"}]
               /\ registry \in [Containers -> {"none", "preparing", "listening", "running",
                                               "stale"}]
               /\ assigned \in [Containers -> BOOLEAN]
Locked == \A k \in Containers : worker[k] = "joining" => record[k] = "ready"
Views == [row : 0..(MaxGeneration + 1), replicas : 0..MaxReplicas, timedOut : BOOLEAN]
PlanTypes == view \in Views /\ plan \in Seq(Steps) /\ Planned
BoundTypes == requests \in 0..MaxRequests /\ faults \in 0..MaxFaults
Sound == TypeOK /\ Numbered /\ Planned

LEMMA SoundParts ==
    /\ Sound <=> TableTypes /\ WorkerTypes /\ Locked /\ PlanTypes /\ BoundTypes
    /\ Sound' <=> TableTypes' /\ WorkerTypes' /\ Locked' /\ PlanTypes' /\ BoundTypes'
BY DEF Sound, TypeOK, TableTypes, DeploymentRows, WorkerTypes, Locked, Views, PlanTypes, Steps,
       BoundTypes

(* What nothing is written to keeps its type. *)
LEMMA PartsKept ==
    /\ UNCHANGED tableVars /\ TableTypes => TableTypes'
    /\ UNCHANGED workerVars /\ WorkerTypes /\ Locked => WorkerTypes' /\ Locked'
    /\ UNCHANGED <<requests, faults>> /\ BoundTypes => BoundTypes'
BY DEF tableVars, buildVars, TableTypes, Numbered, workerVars, WorkerTypes, Locked, BoundTypes

LEMMA BoundKept ==
    ASSUME BoundTypes,
           \/ requests < MaxRequests /\ requests' = requests + 1 /\ UNCHANGED faults
           \/ faults < MaxFaults /\ faults' = faults + 1 /\ UNCHANGED requests
           \/ UNCHANGED <<requests, faults>>
    PROVE  BoundTypes'
BY RolloutAssumption DEF BoundTypes, RolloutAssumption

LEMMA PhasesKnown ==
    {"pending", "rolling", "draining", "rollback", "ready", "failed"} \subseteq DeploymentPhases
BY DEF DeploymentPhases

(* A rollout that is scheduled has a generation of its own. *)
LEMMA ScheduleSound ==
    ASSUME TableTypes, NEW b \in Builds, Schedule(b), UNCHANGED <<buildVars, life>>
    PROVE  TableTypes'
<1>1. /\ deployment.gen \in Nat /\ deployment.row \in Nat /\ deployment.row >= 1
      /\ MaxGeneration \in Nat /\ deployment.gen < MaxGeneration
      /\ deployment.row <= deployment.gen + 1 /\ deployment \in DeploymentRows
  BY RolloutAssumption DEF TableTypes, DeploymentRows, Schedule, RolloutAssumption, Numbered
<1>2. b \in 0..MaxBuilds /\ 0 \in 0..MaxBuilds
  BY RolloutAssumption DEF Builds, RolloutAssumption
<1>3. /\ (IF deployment.phase = "ready" THEN deployment.row + 1 ELSE deployment.row)
           \in 1..(MaxGeneration + 1)
      /\ deployment.gen + 1 \in 0..MaxGeneration
  BY <1>1
<1>4. deployment' = [deployment EXCEPT
         !.row = IF deployment.phase = "ready" THEN deployment.row + 1 ELSE deployment.row,
         !.gen = deployment.gen + 1, !.phase = "pending", !.target = b, !.failed = 0]
  BY <1>1 DEF Schedule, DeploymentRows
<1>5. deployment' \in DeploymentRows
  BY <1>1, <1>2, <1>3, <1>4, PhasesKnown DEF DeploymentRows
<1>6. deployment'.gen = deployment.gen + 1
      /\ deployment'.row \in {deployment.row, deployment.row + 1}
  BY <1>1, <1>4 DEF DeploymentRows
<1>7. Numbered'
  BY <1>1, <1>6 DEF Numbered
<1>8. generations' \subseteq 0..MaxGeneration /\ deployment'.gen \in generations'
  BY <1>3, <1>6 DEF Schedule, TableTypes
<1> QED BY <1>5, <1>7, <1>8 DEF TableTypes, buildVars

(* The statements on a deployment leave its row and its generation.         *)
LEMMA DeploymentSound ==
    ASSUME TableTypes, UNCHANGED <<buildVars, generations, life>>,
           deployment' \in DeploymentRows, deployment'.row = deployment.row,
           deployment'.gen = deployment.gen
    PROVE  TableTypes'
BY DEF TableTypes, Numbered, buildVars

(* A plan that is not continued stays true of what others change.           *)
LEMMA PlanKept ==
    ASSUME PlanTypes, UNCHANGED <<view, plan>>,
           \A k \in Containers : /\ worker[k] = "absent" => worker'[k] = "absent"
                                 /\ Spared(k) => Spared(k)'
                                 /\ Replaced(k) => Replaced(k)',
           life # "live" => life' # "live"
    PROVE  PlanTypes'
<1>1. PICK k \in Containers : PlanFor(k)
  BY DEF PlanTypes, Planned
<1>2. PlanFor(k)'
  <2>1. plan' \in Seq(StepsFor(k)) /\ plan' = plan /\ Surplus(k)' = Surplus(k)
    BY <1>1 DEF PlanFor, Surplus
  <2> SUFFICES ASSUME NEW n \in 1..Len(plan)
               PROVE  /\ plan[n].op = "forget" =>
                           /\ worker'[k] = "absent" \/ \E m \in 1..(n - 1) : plan[m].op = "stop"
                           /\ \A m \in 1..Len(plan) : plan[m].op # "start"
                      /\ plan[n].op = "stop" => Surplus(k) \/ (n = 1 /\ Spared(k)')
                      /\ plan[n].op = "block" => Surplus(k) \/ life' # "live" \/ Replaced(k)'
    BY <2>1 DEF PlanFor
  <2>2. ASSUME plan[n].op = "forget"
        PROVE  /\ worker'[k] = "absent" \/ \E m \in 1..(n - 1) : plan[m].op = "stop"
               /\ \A m \in 1..Len(plan) : plan[m].op # "start"
    BY <1>1, <2>2 DEF PlanFor
  <2>3. plan[n].op = "stop" => Surplus(k) \/ (n = 1 /\ Spared(k)')
    BY <1>1 DEF PlanFor
  <2>4. plan[n].op = "block" => Surplus(k) \/ life' # "live" \/ Replaced(k)'
    BY <1>1 DEF PlanFor
  <2> QED BY <2>2, <2>3, <2>4
<1> QED BY <1>2 DEF PlanTypes, Planned

LEMMA NoPlan ==
    ASSUME NEW p \in Seq(Steps), plan' = p, view' \in Views,
           \A n \in 1..Len(p) : p[n] \in [op : Operations \ OnContainer, key : {None}]
    PROVE  PlanTypes'
<1>1. PICK k : k \in Containers
  <2>1. [gen |-> 0, slot |-> 0, build |-> 1] \in Containers
    BY RolloutAssumption DEF Containers, RolloutAssumption, Builds
  <2> QED BY <2>1
<1>2. p \in Seq(StepsFor(k))
  BY DEF StepsFor
<1>3. \A n \in 1..Len(p) : p[n].op \notin {"forget", "stop", "block"}
  BY DEF OnContainer
<1>4. PlanFor(k)'
  BY <1>2, <1>3 DEF PlanFor
<1> QED BY <1>1, <1>4 DEF PlanTypes, Planned

LEMMA PlanGivenUp ==
    ASSUME plan' = <<>>, view' \in Views
    PROVE  PlanTypes'
<1>1. plan' \in Seq(Steps) /\ \A n \in 1..Len(plan') : FALSE
  OBVIOUS
<1> QED BY <1>1, NoPlan

-------------------------------------------------------------------------------
(* Workers, requests and the plan they run beside. *)

(* A step of one worker changes what is known of its container only.        *)
LEMMA WorkParts ==
    ASSUME Sound, NEW k \in Containers, Work(k)
    PROVE  /\ UNCHANGED <<tableVars, record, view, plan>> /\ BoundTypes'
           /\ WorkerTypes' /\ (worker[k] = "absent" <=> worker'[k] = "absent")
           /\ \A j \in Containers \ {k} : UNCHANGED <<worker[j], registry[j], assigned[j]>>
           /\ registry[k] # "none" => registry'[k] # "none"
           /\ worker'[k] = "joining" => record[k] = "ready"
           /\ record[k] = "draining" /\ worker[k] = "boot" => worker'[k] = "boot"
           /\ registry'[k] = "running" => registry[k] = "running" \/ assigned[k]
           /\ assigned'[k] = assigned[k] \/ worker[k] = "joining"
<1> USE SoundParts DEF WorkerTypes
<1>1. /\ UNCHANGED <<tableVars, record, view, plan>> /\ BoundTypes'
  BY BoundKept DEF Work, Join, Register, Listen, Claim, Answer, Expire, Die, OnlyWorker,
                   reconcilerVars
<1>2. CASE Join(k)
  BY <1>1, <1>2 DEF Join, Validates, Becomes
<1>3. CASE Register(k)
  BY <1>1, <1>3 DEF Register, Becomes
<1>4. CASE Listen(k)
  BY <1>1, <1>4 DEF Listen, Becomes
<1>5. CASE Claim(k)
  BY <1>1, <1>5 DEF Claim, Becomes
<1>6. CASE Answer(k)
  BY <1>1, <1>6 DEF Answer, Becomes
<1>7. CASE Expire(k)
  BY <1>1, <1>7 DEF Expire, Locked
<1>8. CASE Die(k)
  BY <1>1, <1>8 DEF Die, Becomes
<1> QED BY <1>2, <1>3, <1>4, <1>5, <1>6, <1>7, <1>8 DEF Work

LEMMA WorkSound ==
    ASSUME Sound, NEW k \in Containers, Work(k)
    PROVE  Sound'
<1> USE SoundParts, WorkParts
<1>1. TableTypes' /\ WorkerTypes' /\ BoundTypes'
  BY PartsKept
<1>2. Locked'
  BY DEF Locked
<1>3. \A j \in Containers : /\ worker[j] = "absent" => worker'[j] = "absent"
                            /\ Spared(j) => Spared(j)'
                            /\ Replaced(j) => Replaced(j)'
  <2> SUFFICES ASSUME NEW j \in Containers
               PROVE  /\ worker[j] = "absent" => worker'[j] = "absent"
                      /\ Spared(j) => Spared(j)'
                      /\ Replaced(j) => Replaced(j)'
    OBVIOUS
  <2>1. worker[j] = "absent" => worker'[j] = "absent"
    OBVIOUS
  <2>2. ASSUME Replaced(j) PROVE Replaced(j)'
    <3>1. PICK i \in Containers : /\ i # j /\ i.slot = j.slot
                                  /\ worker[i] # "absent" /\ registry[i] # "none"
      BY <2>2 DEF Replaced
    <3>2. worker'[i] # "absent" /\ registry'[i] # "none"
      BY <3>1
    <3> QED BY <3>1, <3>2 DEF Replaced
  <2>3. ASSUME Spared(j) PROVE Spared(j)'
    <3>1. CASE j # k
      BY <2>3, <3>1 DEF Spared
    <3>2. CASE j = k /\ record[k] = "draining"
      <4>1. worker[k] # "joining"
        BY <3>2 DEF Locked
      <4> QED BY <2>3, <3>2, <4>1 DEF Spared
    <3>3. CASE record[k] # "draining"
      BY <2>3, <3>1, <3>3 DEF Spared
    <3> QED BY <3>1, <3>2, <3>3
  <2> QED BY <2>1, <2>2, <2>3
<1>4. PlanTypes'
  BY <1>3, PlanKept DEF tableVars
<1> QED BY <1>1, <1>2, <1>4

(* Requests leave the plan as it is; a deletion fences every registration.  *)
LEMMA RequestSound ==
    ASSUME Sound,
           \/ NewImage \/ DeleteEndpoint \/ ReconcileTargets
           \/ \E b \in Builds : UpdateModule(b)
           \/ \E n \in 1..MaxReplicas : SetReplicas(n)
    PROVE  Sound'
<1> USE SoundParts
<1>1. UNCHANGED <<view, plan>>
  BY DEF NewImage, DeleteEndpoint, ReconcileTargets, UpdateModule, SetReplicas, Request,
         reconcilerVars
<1>2. UNCHANGED workerVars /\ (life # "live" => life' # "live") => PlanTypes'
  BY <1>1, PlanKept DEF workerVars, Spared, Replaced
<1>3. /\ MaxBuilds \in Nat /\ published \in Nat /\ deployment \in DeploymentRows
  BY RolloutAssumption DEF TableTypes, Builds, RolloutAssumption
<1>4. CASE NewImage
  <2>1. TableTypes'
    BY <1>3, <1>4 DEF NewImage, TableTypes, Builds, Numbered
  <2> QED BY <1>2, <1>4, <2>1, PartsKept DEF NewImage
<1>5. ASSUME NEW b \in Builds, UpdateModule(b) PROVE Sound'
  <2>1. TableTypes'
    BY <1>5, ScheduleSound DEF UpdateModule, Request
  <2>2. BoundTypes'
    BY <1>5, BoundKept DEF UpdateModule, Request
  <2> QED BY <1>2, <1>5, <2>1, <2>2, PartsKept DEF UpdateModule
<1>6. ASSUME NEW n \in 1..MaxReplicas, SetReplicas(n) PROVE Sound'
  <2>1. deployment' \in DeploymentRows /\ deployment'.row = deployment.row
        /\ deployment'.gen = deployment.gen
    BY <1>3, <1>6 DEF SetReplicas, DeploymentRows
  <2>2. TableTypes'
    BY <1>6, <2>1, DeploymentSound DEF SetReplicas, Request
  <2>3. BoundTypes'
    BY <1>6, BoundKept DEF SetReplicas, Request
  <2> QED BY <1>2, <1>6, <2>2, <2>3, PartsKept DEF SetReplicas
<1>7. CASE ReconcileTargets
  <2>1. TableTypes'
    BY <1>7, ScheduleSound DEF ReconcileTargets, OnlyReconciler
  <2> QED BY <1>2, <1>7, <2>1, PartsKept DEF ReconcileTargets, OnlyReconciler
<1>8. CASE DeleteEndpoint
  <2>1. deployment' \in DeploymentRows /\ deployment'.row = deployment.row
        /\ deployment'.gen = deployment.gen
    BY <1>3, <1>8, PhasesKnown DEF DeleteEndpoint, DeploymentRows
  <2>2. TableTypes'
    BY <1>8, <2>1 DEF TableTypes, Numbered, DeleteEndpoint, Request, buildVars
  <2>3. BoundTypes'
    BY <1>8, BoundKept DEF DeleteEndpoint, Request
  <2>4. WorkerTypes' /\ Locked'
    BY <1>8 DEF DeleteEndpoint, WorkerTypes, Locked
  <2>5. \A k \in Containers : Spared(k)' /\ (Replaced(k) => Replaced(k)')
    BY <1>8 DEF DeleteEndpoint, Spared, Replaced
  <2>6. PlanTypes'
    BY <1>1, <1>8, <2>5, PlanKept DEF DeleteEndpoint
  <2> QED BY <2>2, <2>3, <2>4, <2>6
<1> QED BY <1>4, <1>5, <1>6, <1>7, <1>8

-------------------------------------------------------------------------------
(* The plan is executed. *)

LEMMA Continued ==
    ASSUME PlanTypes, plan # <<>>, GoOn(Tail(plan))
    PROVE  /\ plan' \in Seq(Steps) /\ Len(plan') = Len(plan) - 1 /\ Len(plan) \in Nat
           /\ \A n \in 1..Len(plan') : n + 1 \in 1..Len(plan) /\ plan'[n] = plan[n + 1]
           /\ 1 \in 1..Len(plan) /\ Head(plan) = plan[1]
           /\ view' = view \/ plan' = <<>>
           /\ view' \in Views
<1>1. plan \in Seq(Steps) /\ plan' = Tail(plan) /\ view \in Views
  BY DEF PlanTypes, GoOn
<1>2. Nothing \in Views
  BY RolloutAssumption DEF Nothing, Views, RolloutAssumption
<1> QED BY <1>1, <1>2 DEF GoOn

LEMMA PlanGoesOn ==
    ASSUME PlanTypes, NEW k \in Containers, PlanFor(k), plan # <<>>, GoOn(Tail(plan)),
           Head(plan).op = "stop" => worker'[k] = "absent",
           worker[k] = "absent" => worker'[k] = "absent" \/ Head(plan).op = "start",
           life # "live" => life' # "live",
           Replaced(k) => Replaced(k)'
    PROVE  PlanTypes'
<1>1. CASE plan' = <<>>
  BY <1>1, Continued, PlanGivenUp
<1>2. CASE view' = view
  <2>1. plan' \in Seq(StepsFor(k)) /\ Surplus(k)' = Surplus(k)
    BY <1>2 DEF PlanFor, GoOn, Surplus
  <2>2. ASSUME NEW n \in 1..Len(plan'), plan'[n].op = "forget"
        PROVE  /\ worker'[k] = "absent" \/ \E m \in 1..(n - 1) : plan'[m].op = "stop"
               /\ \A m \in 1..Len(plan') : plan'[m].op # "start"
    <3>1. n + 1 \in 1..Len(plan) /\ plan[n + 1].op = "forget" /\ n \in Nat
      BY <2>2, Continued
    <3>2. \A m \in 1..Len(plan) : plan[m].op # "start"
      BY <3>1 DEF PlanFor
    <3>3. \A m \in 1..Len(plan') : plan'[m].op # "start"
      BY <3>2, Continued
    <3>4. CASE worker[k] = "absent"
      BY <3>2, <3>3, <3>4, Continued
    <3>5. CASE \E m \in 1..n : plan[m].op = "stop"
      <4>1. PICK m \in 1..n : plan[m].op = "stop"
        BY <3>5
      <4>2. CASE m = 1
        BY <3>3, <4>1, <4>2, Continued
      <4>3. CASE m # 1
        <5>1. m - 1 \in 1..(n - 1) /\ m - 1 \in 1..Len(plan') /\ (m - 1) + 1 = m
          BY <3>1, <4>1, <4>3, Continued
        <5>2. plan'[m - 1].op = "stop"
          BY <4>1, <5>1, Continued
        <5> QED BY <3>3, <5>1, <5>2
      <4> QED BY <4>2, <4>3
    <3>6. worker[k] = "absent" \/ \E m \in 1..((n + 1) - 1) : plan[m].op = "stop"
      BY <3>1 DEF PlanFor
    <3> QED BY <3>1, <3>4, <3>5, <3>6
  <2>3. ASSUME NEW n \in 1..Len(plan'), plan'[n].op = "stop" PROVE Surplus(k)
    <3>1. n + 1 \in 1..Len(plan) /\ plan[n + 1].op = "stop" /\ n + 1 # 1
      BY <2>3, Continued
    <3> QED BY <3>1 DEF PlanFor
  <2>4. ASSUME NEW n \in 1..Len(plan'), plan'[n].op = "block"
        PROVE  Surplus(k) \/ life' # "live" \/ Replaced(k)'
    <3>1. n + 1 \in 1..Len(plan) /\ plan[n + 1].op = "block"
      BY <2>4, Continued
    <3> QED BY <3>1 DEF PlanFor
  <2>5. PlanFor(k)'
    BY <2>1, <2>2, <2>3, <2>4 DEF PlanFor
  <2> QED BY <1>2, <2>5, Continued DEF PlanTypes, Planned
<1> QED BY <1>1, <1>2, Continued

(* A container that a step of the plan names is the plan's.                 *)
LEMMA PlannedKey ==
    ASSUME NEW k \in Containers, PlanFor(k), plan # <<>>
    PROVE  /\ Head(plan).op \in OnContainer => Head(plan).key = k
           /\ Head(plan).op = "forget" => worker[k] = "absent"
           /\ Head(plan).op = "stop" => Surplus(k) \/ Spared(k)
           /\ Head(plan).op = "block" => Surplus(k) \/ life # "live" \/ Replaced(k)
<1>1. 1 \in 1..Len(plan) /\ Head(plan) = plan[1] /\ Head(plan) \in StepsFor(k)
  BY DEF PlanFor
<1>2. Head(plan).op \in OnContainer => Head(plan).key = k
  BY <1>1 DEF StepsFor
<1> QED BY <1>1, <1>2 DEF PlanFor

(* The statements on one container and its worker.                          *)
LEMMA ContainerStep ==
    ASSUME Sound, plan # <<>>, GoOn(Tail(plan)), UNCHANGED tableVars,
           Head(plan).op \in OnContainer, BoundTypes', WorkerTypes', Locked',
           \A j \in Containers \ {Key} : UNCHANGED <<worker[j], registry[j]>>,
           Head(plan).op = "stop" => worker'[Key] = "absent",
           Head(plan).op # "start" /\ worker[Key] = "absent" => worker'[Key] = "absent"
    PROVE  Sound'
<1>1. PICK k \in Containers : PlanFor(k)
  BY SoundParts DEF PlanTypes, Planned
<1>2. Key = k
  BY <1>1, PlannedKey DEF Key
<1>3. Replaced(k) => Replaced(k)'
  BY <1>2 DEF Replaced
<1>4. PlanTypes'
  BY <1>1, <1>2, <1>3, PlanGoesOn, SoundParts DEF tableVars
<1> QED BY <1>4, PartsKept, SoundParts

(* The statements on the deployment, and what ends a plan.                  *)
LEMMA LastStep ==
    ASSUME Sound, plan # <<>>, GoOn(<<>>) \/ GoOn(On("fail", None)), TableTypes',
           UNCHANGED workerVars, BoundTypes'
    PROVE  Sound'
<1>1. view' \in Views
  <2>1. Nothing \in Views /\ view \in Views
    BY RolloutAssumption, SoundParts DEF Nothing, Views, RolloutAssumption, PlanTypes
  <2> QED BY <2>1 DEF GoOn
<1>2. PlanTypes'
  <2>1. CASE GoOn(<<>>)
    BY <1>1, <2>1, PlanGivenUp DEF GoOn
  <2>2. CASE GoOn(On("fail", None))
    <3>1. On("fail", None) \in Seq(Steps) /\ Len(On("fail", None)) = 1
          /\ On("fail", None)[1] \in [op : Operations \ OnContainer, key : {None}]
      BY DEF On, Steps, Operations, OnContainer
    <3>2. plan' = On("fail", None)
      BY <2>2 DEF GoOn
    <3> QED BY <1>1, <3>1, <3>2, NoPlan
  <2> QED BY <2>1, <2>2
<1> QED BY <1>2, PartsKept, SoundParts

LEMMA StatementSound ==
    ASSUME Sound, FailOrRollbackDeployment \/ CompleteDeployment \/ FinalizeEndpointDeletion
                  \/ CycleFails
    PROVE  Sound'
<1> USE SoundParts
<1>1. plan # <<>> /\ GoOn(<<>>) /\ UNCHANGED workerVars
  BY DEF FailOrRollbackDeployment, CompleteDeployment, FinalizeEndpointDeletion, CycleFails, Due,
         OnlyDeployment
<1>2. BoundTypes'
  BY BoundKept DEF FailOrRollbackDeployment, CompleteDeployment, FinalizeEndpointDeletion,
                   CycleFails, OnlyDeployment, OnlyReconciler
<1>3. deployment \in DeploymentRows /\ 0 \in 0..MaxBuilds
  BY RolloutAssumption DEF TableTypes, RolloutAssumption
<1>4. CASE FailOrRollbackDeployment \/ CompleteDeployment
  <2>1. deployment' \in DeploymentRows /\ deployment'.row = deployment.row
        /\ deployment'.gen = deployment.gen
    <3>1. CASE FailOrRollbackDeployment
      BY <1>3, <3>1, PhasesKnown DEF FailOrRollbackDeployment, DeploymentRows
    <3>2. CASE CompleteDeployment
      BY <1>3, <3>2, PhasesKnown DEF CompleteDeployment, DeploymentRows
    <3> QED BY <1>4, <3>1, <3>2
  <2>2. TableTypes'
    BY <1>4, <2>1, DeploymentSound
       DEF FailOrRollbackDeployment, CompleteDeployment, OnlyDeployment, OnlyReconciler
  <2> QED BY <1>1, <1>2, <2>2, LastStep
<1>5. CASE FinalizeEndpointDeletion
  <2>1. TableTypes'
    BY <1>5 DEF FinalizeEndpointDeletion, OnlyReconciler, TableTypes, Numbered, buildVars
  <2> QED BY <1>1, <1>2, <2>1, LastStep
<1>6. CASE CycleFails
  BY <1>1, <1>2, <1>6, LastStep, PartsKept DEF CycleFails
<1> QED BY <1>4, <1>5, <1>6

LEMMA ActSound ==
    ASSUME Sound, Act
    PROVE  Sound'
<1> USE SoundParts
<1>1. plan # <<>>
  BY DEF Act, StartContainer, StopRemoveContainer, ObserveContainer, BlockWorkerClaims,
         MarkContainerDraining, RecordContainerRemoved, MarkDeploymentRolling,
         FailOrRollbackDeployment, CompleteDeployment, FinalizeEndpointDeletion, Due
<1>2. BoundTypes'
  BY BoundKept DEF Act, StartContainer, StopRemoveContainer, ObserveContainer, BlockWorkerClaims,
         MarkContainerDraining, RecordContainerRemoved, MarkDeploymentRolling,
         FailOrRollbackDeployment, CompleteDeployment, FinalizeEndpointDeletion,
         OnlyDeployment, OnlyReconciler
<1>3. WorkerTypes /\ Locked
  OBVIOUS
<1>4. CASE StartContainer
  <2>1. UNCHANGED tableVars
    BY <1>4 DEF StartContainer, OnlyReconciler, tableVars
  <2>2. CASE GoOn(On("fail", None)) /\ UNCHANGED worker
    BY <1>1, <1>2, <1>4, <2>1, <2>2, LastStep, PartsKept DEF StartContainer, workerVars
  <2>3. CASE Becomes(Key, "boot") /\ GoOn(Tail(plan))
    <3>1. WorkerTypes' /\ Locked' /\ \A j \in Containers \ {Key} : UNCHANGED worker[j]
      BY <1>3, <1>4, <2>3 DEF StartContainer, Becomes, WorkerTypes, Locked
    <3>2. Head(plan).op = "start" /\ "start" \in OnContainer
      BY <1>4 DEF StartContainer, Due, OnContainer
    <3> QED BY <1>1, <1>2, <1>4, <2>1, <2>3, <3>1, <3>2, ContainerStep DEF StartContainer
  <2> QED BY <1>4, <2>2, <2>3 DEF StartContainer
<1>5. CASE StopRemoveContainer
  <2>1. /\ WorkerTypes' /\ Locked' /\ \A j \in Containers \ {Key} : UNCHANGED worker[j]
        /\ Key \in Containers => worker'[Key] = "absent"
    <3>1. worker' = [worker EXCEPT ![Key] = "absent"] /\ UNCHANGED record
      BY <1>5 DEF StopRemoveContainer, Becomes
    <3>2. WorkerTypes' /\ Locked'
      BY <1>3, <1>5, <3>1 DEF StopRemoveContainer, WorkerTypes, Locked
    <3> QED BY <1>3, <3>1, <3>2 DEF WorkerTypes
  <2>2. Head(plan).op = "stop" /\ "stop" \in OnContainer /\ GoOn(Tail(plan))
    BY <1>5 DEF StopRemoveContainer, Due, OnContainer
  <2>3. Key \in Containers
    BY <1>1, <2>2, PlannedKey DEF PlanTypes, Planned, Key
  <2>4. UNCHANGED <<tableVars, registry>>
    BY <1>5 DEF StopRemoveContainer, OnlyReconciler, tableVars
  <2> QED BY <1>1, <1>2, <2>1, <2>2, <2>3, <2>4, ContainerStep
<1>6. CASE ObserveContainer \/ BlockWorkerClaims \/ MarkContainerDraining
  <2>1. WorkerTypes' /\ Locked'
    BY <1>3, <1>6 DEF ObserveContainer, BlockWorkerClaims, MarkContainerDraining, SetRecord,
                      WorkerTypes, Locked
  <2>2. Head(plan).op \in {"adopt", "block", "mark"} /\ GoOn(Tail(plan))
        /\ Head(plan).op \in OnContainer
    BY <1>6 DEF ObserveContainer, BlockWorkerClaims, MarkContainerDraining, Due, OnContainer
  <2>3. UNCHANGED <<tableVars, worker, registry>>
    BY <1>6 DEF ObserveContainer, BlockWorkerClaims, MarkContainerDraining, OnlyReconciler,
                tableVars
  <2> QED BY <1>1, <1>2, <2>1, <2>2, <2>3, ContainerStep
<1>7. CASE RecordContainerRemoved
  <2>1. Head(plan).op = "forget" /\ "forget" \in OnContainer /\ GoOn(Tail(plan))
    BY <1>7 DEF RecordContainerRemoved, Due, OnContainer
  <2>2. Key \in Containers /\ worker[Key] = "absent"
    BY <1>1, <2>1, PlannedKey DEF PlanTypes, Planned, Key
  <2>3. /\ WorkerTypes' /\ Locked' /\ \A j \in Containers \ {Key} : UNCHANGED registry[j]
    BY <1>3, <1>7, <2>2 DEF RecordContainerRemoved, SetRecord, WorkerTypes, Locked
  <2>4. UNCHANGED <<tableVars, worker>>
    BY <1>7 DEF RecordContainerRemoved, OnlyReconciler, tableVars
  <2> QED BY <1>1, <1>2, <2>1, <2>3, <2>4, ContainerStep
<1>8. CASE MarkDeploymentRolling
  <2>1. Head(plan).op = "rolling" /\ GoOn(Tail(plan)) /\ UNCHANGED workerVars
    BY <1>8 DEF MarkDeploymentRolling, Due, OnlyDeployment
  <2>2. deployment' \in DeploymentRows /\ deployment'.row = deployment.row
        /\ deployment'.gen = deployment.gen
    BY <1>8, PhasesKnown DEF MarkDeploymentRolling, TableTypes, DeploymentRows
  <2>3. TableTypes' /\ UNCHANGED life
    BY <1>8, <2>2, DeploymentSound DEF MarkDeploymentRolling, OnlyDeployment, OnlyReconciler
  <2>4. PICK k \in Containers : PlanFor(k)
    BY DEF PlanTypes, Planned
  <2>5. PlanTypes'
    BY <1>1, <2>1, <2>3, <2>4, PlanGoesOn DEF workerVars, Replaced
  <2> QED BY <1>2, <2>1, <2>3, <2>5, PartsKept
<1> QED BY <1>4, <1>5, <1>6, <1>7, <1>8, StatementSound DEF Act

-------------------------------------------------------------------------------
(* A plan is made. *)

LEMMA Concat ==
    ASSUME NEW S, NEW s \in Seq(S), NEW t \in Seq(S)
    PROVE  /\ s \o t \in Seq(S) /\ Len(s \o t) = Len(s) + Len(t)
           /\ Len(s) \in Nat /\ Len(t) \in Nat
           /\ \A n \in 1..Len(s) : (s \o t)[n] = s[n]
           /\ \A n \in 1..Len(t) : (s \o t)[Len(s) + n] = t[n]
           /\ \A n \in 1..Len(s \o t) :
                n \in 1..Len(s) \/ (n - Len(s) \in 1..Len(t) /\ (s \o t)[n] = t[n - Len(s)])
OBVIOUS

(* A row is removed after the container was stopped. *)
Orderly(p) == \A n \in 1..Len(p) : p[n].op = "forget" => \E m \in 1..(n - 1) : p[m].op = "stop"

LEMMA OrderlyConcat ==
    ASSUME NEW S, NEW s \in Seq(S), NEW t \in Seq(S), Orderly(s), Orderly(t)
    PROVE  Orderly(s \o t)
<1> SUFFICES ASSUME NEW n \in 1..Len(s \o t), (s \o t)[n].op = "forget"
             PROVE  \E m \in 1..(n - 1) : (s \o t)[m].op = "stop"
  BY DEF Orderly
<1>1. CASE n \in 1..Len(s)
  <2>1. PICK m \in 1..(n - 1) : s[m].op = "stop"
    BY <1>1, Concat DEF Orderly
  <2>2. m \in 1..Len(s)
    BY <1>1, Concat
  <2> QED BY <2>1, <2>2, Concat
<1>2. CASE n - Len(s) \in 1..Len(t) /\ (s \o t)[n] = t[n - Len(s)]
  <2>1. PICK m \in 1..(n - Len(s) - 1) : t[m].op = "stop"
    BY <1>2 DEF Orderly
  <2>2. m \in 1..Len(t) /\ Len(s) + m \in 1..(n - 1)
    BY <1>2, Concat
  <2>3. (s \o t)[Len(s) + m].op = "stop"
    BY <2>1, <2>2, Concat
  <2> QED BY <2>2, <2>3
<1> QED BY <1>1, <1>2, Concat

LEMMA OpsConcat ==
    ASSUME NEW S, NEW s \in Seq(S), NEW t \in Seq(S), NEW T,
           \A n \in 1..Len(s) : s[n].op \in T, \A n \in 1..Len(t) : t[n].op \in T
    PROVE  \A n \in 1..Len(s \o t) : (s \o t)[n].op \in T
<1> SUFFICES ASSUME NEW n \in 1..Len(s \o t) PROVE (s \o t)[n].op \in T
  OBVIOUS
<1>1. CASE n \in 1..Len(s)
  BY <1>1, Concat
<1>2. CASE n - Len(s) \in 1..Len(t) /\ (s \o t)[n] = t[n - Len(s)]
  BY <1>2
<1> QED BY <1>1, <1>2, Concat

LEMMA OneStep ==
    ASSUME NEW k \in Containers, NEW op \in OnContainer
    PROVE  /\ On(op, k) \in Seq(StepsFor(k)) /\ Len(On(op, k)) = 1 /\ On(op, k)[1].op = op
           /\ \A n \in 1..Len(On(op, k)) : n = 1
           /\ op # "forget" => Orderly(On(op, k))
<1>1. [op |-> op, key |-> k] \in StepsFor(k)
  BY DEF StepsFor
<1>2. On(op, k) \in Seq(StepsFor(k)) /\ Len(On(op, k)) = 1 /\ On(op, k)[1].op = op
  BY <1>1 DEF On
<1> QED BY <1>2 DEF Orderly

LEMMA NoStep ==
    ASSUME NEW S
    PROVE  <<>> \in Seq(S) /\ Len(<<>>) = 0 /\ Orderly(<<>>) /\ \A n \in 1..Len(<<>>) : FALSE
BY DEF Orderly

LEMMA RemovalSteps ==
    ASSUME NEW k \in Containers
    PROVE  /\ Removal(k) \in Seq(StepsFor(k)) /\ Len(Removal(k)) = 2 /\ Orderly(Removal(k))
           /\ Removal(k)[1].op = "stop" /\ Removal(k)[2].op = "forget"
           /\ \A n \in 1..Len(Removal(k)) : n \in {1, 2}
<1>1. "stop" \in OnContainer /\ "forget" \in OnContainer
  BY DEF OnContainer
<1> DEFINE s == On("stop", k)
           t == On("forget", k)
<1>2. /\ s \in Seq(StepsFor(k)) /\ Len(s) = 1 /\ s[1].op = "stop"
      /\ t \in Seq(StepsFor(k)) /\ Len(t) = 1 /\ t[1].op = "forget"
  BY <1>1, OneStep
<1> HIDE DEF s, t
<1>3. s \o t \in Seq(StepsFor(k)) /\ Len(s \o t) = 2
      /\ (s \o t)[1].op = "stop" /\ (s \o t)[2].op = "forget"
  <2>1. Len(s \o t) = 2 /\ 1 \in 1..Len(s) /\ 1 \in 1..Len(t)
    BY <1>2, Concat
  <2>2. (s \o t)[1] = s[1] /\ (s \o t)[Len(s) + 1] = t[1]
    BY <1>2, <2>1, Concat
  <2> QED BY <1>2, <2>1, <2>2, Concat
<1>4. Removal(k) = s \o t
  BY DEF Removal, s, t
<1>5. \A n \in 1..Len(Removal(k)) : n \in {1, 2}
  BY <1>3, <1>4
<1>6. Orderly(Removal(k))
  BY <1>3, <1>4, <1>5 DEF Orderly
<1> QED BY <1>3, <1>4, <1>5, <1>6

(* What a plan that drains a container consists of. *)
Draining == {"adopt", "block", "mark"}
LEMMA DrainSteps ==
    ASSUME NEW k \in Containers, NEW immediate \in BOOLEAN, NEW late \in BOOLEAN,
           NEW p, p = Drain(k, immediate, late)
    PROVE  /\ p \in Seq(StepsFor(k)) /\ Orderly(p)
           /\ \A n \in 1..Len(p) :
                /\ p[n].op # "start"
                /\ p[n].op = "stop" => immediate \/ (n = 1 /\ (late \/ ~ActiveTask(k)))
<1>1. CASE record[k] # "draining"
  <2> DEFINE a == IF record[k] = "none" THEN On("adopt", k) ELSE <<>>
             b == On("block", k)
             c == On("mark", k)
             d == IF immediate /\ ~ActiveTask(k) THEN Removal(k) ELSE <<>>
  <2>1. p = a \o b \o c \o d
    BY <1>1 DEF Drain
  <2>2. {"adopt", "block", "mark"} \subseteq OnContainer
    BY DEF OnContainer
  <2>3. a \in Seq(StepsFor(k)) /\ Orderly(a) /\ \A n \in 1..Len(a) : a[n].op \in Draining
    <3>1. CASE record[k] = "none"
      BY <2>2, <3>1, OneStep DEF Draining
    <3>2. CASE record[k] # "none"
      BY <3>2, NoStep
    <3> QED BY <3>1, <3>2
  <2>4. b \in Seq(StepsFor(k)) /\ Orderly(b) /\ \A n \in 1..Len(b) : b[n].op \in Draining
    BY <2>2, OneStep DEF Draining
  <2>5. c \in Seq(StepsFor(k)) /\ Orderly(c) /\ \A n \in 1..Len(c) : c[n].op \in Draining
    BY <2>2, OneStep DEF Draining
  <2>6. d \in Seq(StepsFor(k)) /\ Orderly(d)
        /\ \A n \in 1..Len(d) : immediate /\ d[n].op \in {"stop", "forget"}
    <3>1. CASE immediate /\ ~ActiveTask(k)
      BY <3>1, RemovalSteps
    <3>2. CASE ~(immediate /\ ~ActiveTask(k))
      BY <3>2, NoStep
    <3> QED BY <3>1, <3>2
  <2> HIDE DEF a, b, c, d
  <2> DEFINE ab == a \o b
             abc == ab \o c
  <2>7. ab \in Seq(StepsFor(k)) /\ Orderly(ab) /\ \A n \in 1..Len(ab) : ab[n].op \in Draining
    BY <2>3, <2>4, OpsConcat, OrderlyConcat, Concat
  <2> HIDE DEF ab
  <2>8. abc \in Seq(StepsFor(k)) /\ Orderly(abc) /\ \A n \in 1..Len(abc) : abc[n].op \in Draining
    BY <2>5, <2>7, OpsConcat, OrderlyConcat, Concat
  <2> HIDE DEF abc
  <2>9. p = abc \o d
    BY <2>1 DEF ab, abc
  <2>10. p \in Seq(StepsFor(k)) /\ Orderly(p)
    BY <2>6, <2>8, <2>9, OrderlyConcat, Concat
  <2>11. ASSUME NEW n \in 1..Len(p)
         PROVE  p[n].op \in Draining \/ (immediate /\ p[n].op \in {"stop", "forget"})
    <3>1. CASE n \in 1..Len(abc)
      BY <2>6, <2>8, <2>9, <3>1, Concat
    <3>2. CASE n - Len(abc) \in 1..Len(d) /\ p[n] = d[n - Len(abc)]
      BY <2>6, <3>2
    <3> QED BY <2>6, <2>8, <2>9, <3>1, <3>2, Concat
  <2> QED BY <2>10, <2>11 DEF Draining
<1>2. CASE record[k] = "draining" /\ ActiveTask(k) /\ ~late
  BY <1>2, NoStep DEF Drain
<1>3. CASE record[k] = "draining" /\ ~(ActiveTask(k) /\ ~late)
  BY <1>3, RemovalSteps DEF Drain
<1> QED BY <1>1, <1>2, <1>3

(* The slots that are not as desired have a first one. *)
LEMMA LeastNumber ==
    ASSUME NEW T \in SUBSET Nat, T # {}
    PROVE  \E x \in T : \A y \in T : x <= y
<1> DEFINE R == OpToRel(<, Nat)
<1>1. \E x \in T : \A y \in T : <<y, x>> \notin R
  <2>1. IsWellFoundedOn(R, Nat)
    BY NatLessThanWellFounded
  <2> HIDE DEF R
  <2> QED BY <2>1, WFMin
<1>2. \A x, y \in Nat : y < x => <<y, x>> \in R
  BY DEF OpToRel
<1> HIDE DEF R
<1>3. PICK x \in T : \A y \in T : <<y, x>> \notin R
  BY <1>1
<1>4. \A y \in T : ~(y < x)
  BY <1>2, <1>3
<1> QED BY <1>4

(* A plan as it is when it has been made. *)
Desired(k) == k.slot < deployment.replicas
Made(p, k, late) ==
    /\ p \in Seq(StepsFor(k)) /\ Orderly(p)
    /\ \A n \in 1..Len(p) :
         /\ p[n].op = "forget" => \A m \in 1..Len(p) : p[m].op # "start"
         /\ p[n].op = "stop" =>
              ~Desired(k) \/ (n = 1 /\ (late \/ ~ActiveTask(k) \/ worker[k] = "boot"))
         /\ p[n].op = "block" => ~Desired(k) \/ life # "live" \/ Replaced(k)

LEMMA DrainMade ==
    ASSUME NEW k \in Containers, NEW immediate \in BOOLEAN, NEW late \in BOOLEAN,
           immediate => ~Desired(k), ~Desired(k) \/ life # "live" \/ Replaced(k)
    PROVE  Made(Drain(k, immediate, late), k, late)
<1> DEFINE p == Drain(k, immediate, late)
<1>1. /\ p \in Seq(StepsFor(k)) /\ Orderly(p)
      /\ \A n \in 1..Len(p) : /\ p[n].op # "start"
                              /\ p[n].op = "stop" => immediate \/ (n = 1 /\ (late \/ ~ActiveTask(k)))
  BY DrainSteps
<1> HIDE DEF p
<1>2. Made(p, k, late)
  BY <1>1 DEF Made
<1> QED BY <1>2 DEF p

(* A measure about the deployment, perhaps after others.                    *)
Closing == Operations \ OnContainer
LEMMA StatementMade ==
    ASSUME NEW k \in Containers, NEW late, NEW p,
           p = <<>> \/ \E op \in Closing : p = On(op, None)
    PROVE  /\ p \in Seq(StepsFor(k)) /\ Orderly(p)
           /\ \A n \in 1..Len(p) : p[n].op \in Closing
           /\ Made(p, k, late)
<1>1. p \in Seq(StepsFor(k)) /\ \A n \in 1..Len(p) : p[n].op \in Closing
  <2>1. CASE p = <<>>
    BY <2>1, NoStep
  <2>2. ASSUME NEW op \in Closing, p = On(op, None) PROVE <1>1!1 /\ <1>1!2
    <3>1. [op |-> op, key |-> None] \in StepsFor(k)
      BY DEF StepsFor, Closing
    <3> QED BY <2>2, <3>1 DEF On
  <2> QED BY <2>1, <2>2
<1>2. {"forget", "stop", "block"} \cap Closing = {}
  BY DEF Closing, OnContainer
<1> QED BY <1>1, <1>2 DEF Made, Orderly

LEMMA StartMade ==
    ASSUME NEW k \in Containers, NEW late, NEW q, q = <<>> \/ q = On("rolling", None)
    PROVE  Made(On("start", k) \o On("adopt", k) \o q, k, late)
<1> DEFINE a == On("start", k)
           b == On("adopt", k)
           ab == a \o b
           T == {"start", "adopt"} \cup Closing
<1>1. "start" \in OnContainer /\ "adopt" \in OnContainer /\ "rolling" \in Closing
  BY DEF OnContainer, Closing, Operations
<1>2. a \in Seq(StepsFor(k)) /\ Orderly(a) /\ \A n \in 1..Len(a) : a[n].op \in T
  BY <1>1, OneStep
<1>3. b \in Seq(StepsFor(k)) /\ Orderly(b) /\ \A n \in 1..Len(b) : b[n].op \in T
  BY <1>1, OneStep
<1>4. q \in Seq(StepsFor(k)) /\ Orderly(q) /\ \A n \in 1..Len(q) : q[n].op \in T
  BY <1>1, StatementMade
<1>5. {"forget", "stop", "block"} \cap T = {}
  BY DEF Closing, OnContainer
<1> HIDE DEF a, b, T
<1>6. ab \in Seq(StepsFor(k)) /\ Orderly(ab) /\ \A n \in 1..Len(ab) : ab[n].op \in T
  BY <1>2, <1>3, OpsConcat, OrderlyConcat, Concat
<1> DEFINE p == ab \o q
<1> HIDE DEF ab
<1>7. p \in Seq(StepsFor(k)) /\ Orderly(p) /\ \A n \in 1..Len(p) : p[n].op \in T
  BY <1>4, <1>6, OpsConcat, OrderlyConcat, Concat
<1> HIDE DEF p
<1>8. Made(p, k, late)
  BY <1>5, <1>7 DEF Made
<1> QED BY <1>8 DEF p, ab, a, b

LEMMA RemovalMade ==
    ASSUME NEW k \in Containers, NEW late, NEW q, q = <<>> \/ q = On("fail", None),
           worker[k] = "boot"
    PROVE  Made(Removal(k) \o q, k, late)
<1> DEFINE p == Removal(k) \o q
<1>1. q \in Seq(StepsFor(k)) /\ Orderly(q) /\ \A n \in 1..Len(q) : q[n].op \in Closing
  <2>1. "fail" \in Closing
    BY DEF Closing, Operations, OnContainer
  <2> QED BY <2>1, StatementMade
<1>2. p \in Seq(StepsFor(k)) /\ Orderly(p)
  BY <1>1, RemovalSteps, OrderlyConcat, Concat
<1>3. {"start", "forget", "stop", "block"} \cap Closing = {}
  BY DEF Closing, OnContainer
<1>4. ASSUME NEW n \in 1..Len(p) PROVE p[n].op \in {"stop", "forget"} \cup Closing
                                       /\ (p[n].op = "stop" => n = 1)
  <2>1. CASE n \in 1..Len(Removal(k))
    BY <1>1, <2>1, RemovalSteps, Concat
  <2>2. CASE n - Len(Removal(k)) \in 1..Len(q) /\ p[n] = q[n - Len(Removal(k))]
    BY <1>1, <1>3, <2>2
  <2> QED BY <1>1, <2>1, <2>2, RemovalSteps, Concat
<1> HIDE DEF p
<1>5. Made(p, k, late)
  BY <1>2, <1>3, <1>4 DEF Made
<1> QED BY <1>5 DEF p

(* The containers the deployment asks for, one per slot. *)
LEMMA CanonicalKnown ==
    ASSUME TableTypes, DesiredArtifact # 0, NEW s \in 0..(deployment.replicas - 1)
    PROVE  Canonical(s) \in Containers /\ Canonical(s).slot = s
<1>1. deployment \in DeploymentRows /\ MaxReplicas \in Nat /\ MaxBuilds \in Nat
  BY RolloutAssumption DEF TableTypes, RolloutAssumption
<1>2. /\ deployment.gen \in 0..MaxGeneration /\ deployment.replicas \in 1..MaxReplicas
      /\ deployment.active \in 0..MaxBuilds /\ deployment.target \in 0..MaxBuilds
  BY <1>1 DEF DeploymentRows
<1>3. DesiredArtifact \in Builds
  BY <1>1, <1>2 DEF DesiredArtifact, Builds
<1>4. s \in 0..(MaxReplicas - 1)
  BY <1>1, <1>2
<1> QED BY <1>2, <1>3, <1>4 DEF Canonical, Containers

LEMMA SettledReplaces ==
    ASSUME NEW k \in Containers, NEW up \in SUBSET Owned, NEW s,
           Canonical(s) \in up, ReadyFor(Canonical(s)), k.slot = s, k # Canonical(s)
    PROVE  Replaced(k)
<1>1. Canonical(s) \in Containers /\ worker[Canonical(s)] # "absent"
  BY DEF Owned
<1>2. Canonical(s).slot = s
  BY DEF Canonical
<1>3. registry[Canonical(s)] # "none"
  BY DEF ReadyFor
<1> QED BY <1>1, <1>2, <1>3 DEF Replaced

LEMMA RepairMade ==
    ASSUME TableTypes, DesiredArtifact # 0, NEW s \in 0..(deployment.replicas - 1),
           NEW up \in SUBSET Owned, {k \in Owned : worker[k] # "boot"} \subseteq up,
           NEW late \in BOOLEAN, NEW p \in Repair(s, up, late)
    PROVE  \E k \in Containers : Made(p, k, late)
<1> DEFINE c == Canonical(s)
<1>1. c \in Containers
  BY CanonicalKnown
<1> HIDE DEF c
<1>2. "fail" \in Closing
  BY DEF Closing, Operations, OnContainer
<1>3. CASE worker[c] = "absent" /\ RolloutTimedOut(late)
  <2>1. p = On("fail", None)
    BY <1>3 DEF Repair, c
  <2> QED BY <1>1, <1>2, <2>1, StatementMade
<1>4. CASE worker[c] = "absent" /\ ~RolloutTimedOut(late)
  <2> DEFINE q == IF deployment.phase = "pending" THEN On("rolling", None) ELSE <<>>
  <2>1. p = On("start", c) \o On("adopt", c) \o q
    BY <1>4 DEF Repair, c
  <2>2. q = <<>> \/ q = On("rolling", None)
    OBVIOUS
  <2> HIDE DEF q
  <2> QED BY <1>1, <2>1, <2>2, StartMade
<1>5. CASE worker[c] # "absent" /\ c \notin up
  <2> DEFINE q == IF RolloutTimedOut(late) THEN On("fail", None) ELSE <<>>
  <2>1. p = Removal(c) \o q
    BY <1>5 DEF Repair, c
  <2>2. q = <<>> \/ q = On("fail", None)
    OBVIOUS
  <2> HIDE DEF q
  <2>3. worker[c] = "boot"
    BY <1>1, <1>5 DEF Owned
  <2> QED BY <1>1, <2>1, <2>2, <2>3, RemovalMade
<1>6. CASE worker[c] # "absent" /\ c \in up /\ ~ReadyFor(c)
  <2>1. p = On("fail", None) \/ p = <<>>
    BY <1>6 DEF Repair, c
  <2> QED BY <1>1, <1>2, <2>1, StatementMade
<1>7. CASE worker[c] # "absent" /\ c \in up /\ ReadyFor(c)
  <2>1. PICK old \in Obsolete(s) : p = Drain(old, FALSE, late)
    BY <1>7 DEF Repair, c
  <2>2. old \in Containers /\ old.slot = s /\ old # Canonical(s)
    BY <2>1 DEF Obsolete, Owned
  <2>3. Replaced(old)
    BY <1>7, <2>2, SettledReplaces DEF c
  <2> QED BY <2>1, <2>2, <2>3, DrainMade
<1> QED BY <1>3, <1>4, <1>5, <1>6, <1>7

LEMMA ConvergeMade ==
    ASSUME TableTypes, NEW up \in SUBSET Owned, {k \in Owned : worker[k] # "boot"} \subseteq up,
           NEW late \in BOOLEAN, NEW p \in Converge(up, late)
    PROVE  \E k \in Containers : Made(p, k, late)
<1> DEFINE open == {s \in 0..(deployment.replicas - 1) : ~Settled(s, up)}
           last == {k \in Excess : \A j \in Excess : j.slot <= k.slot}
<1>1. deployment \in DeploymentRows /\ deployment.replicas \in Nat /\ deployment.replicas > 0
  BY RolloutAssumption DEF TableTypes, DeploymentRows, RolloutAssumption
<1>2. {"fail", "restore", "promote"} \subseteq Closing
  BY DEF Closing, Operations, OnContainer
<1>3. ASSUME p = <<>> \/ \E op \in Closing : p = On(op, None)
      PROVE  \E k \in Containers : Made(p, k, late)
  <2>1. PICK k : k \in Containers
    <3>1. [gen |-> 0, slot |-> 0, build |-> 1] \in Containers
      BY RolloutAssumption DEF Containers, RolloutAssumption, Builds
    <3> QED BY <3>1
  <2> QED BY <1>3, <2>1, StatementMade
<1>4. CASE DesiredArtifact = 0
  BY <1>2, <1>3, <1>4 DEF Converge
<1>5. CASE DesiredArtifact # 0 /\ open # {}
  <2> DEFINE s == CHOOSE s \in open : \A t \in open : s <= t
  <2>1. open \in SUBSET Nat
    BY <1>1
  <2>2. s \in open
    BY <1>5, <2>1, LeastNumber
  <2>3. s \in 0..(deployment.replicas - 1)
    BY <2>2
  <2>4. p \in Repair(s, up, late)
    BY <1>5 DEF Converge
  <2> HIDE DEF s, open
  <2> QED BY <1>5, <2>3, <2>4, RepairMade
<1>6. CASE DesiredArtifact # 0 /\ open = {} /\ InRollout
  BY <1>2, <1>3, <1>6 DEF Converge
<1>7. CASE DesiredArtifact # 0 /\ open = {} /\ ~InRollout /\ Excess = {}
  BY <1>3, <1>7 DEF Converge
<1>8. CASE DesiredArtifact # 0 /\ open = {} /\ ~InRollout /\ Excess # {}
  <2>1. PICK k \in last : p = Drain(k, k.slot >= deployment.replicas, late)
    BY <1>8 DEF Converge
  <2>2. k \in Containers /\ (k.slot >= deployment.replicas \/ k # Canonical(k.slot))
    BY <2>1 DEF Excess, Owned
  <2>3. k.slot \in Nat
    BY <2>2 DEF Containers
  <2>4. ~Desired(k) \/ Replaced(k)
    <3>1. CASE k.slot < deployment.replicas
      <4>1. Settled(k.slot, up) /\ k # Canonical(k.slot)
        BY <1>1, <1>8, <2>2, <2>3, <3>1
      <4> QED BY <2>2, <4>1, SettledReplaces DEF Settled
    <3> QED BY <3>1 DEF Desired
  <2>5. (k.slot >= deployment.replicas) \in BOOLEAN
        /\ (k.slot >= deployment.replicas => ~Desired(k))
    BY <1>1, <2>3 DEF Desired
  <2> QED BY <2>1, <2>2, <2>4, <2>5, DrainMade
<1> QED BY <1>4, <1>5, <1>6, <1>7, <1>8

(* Every plan is about one container, and made for a reason.                *)
LEMMA PlanMade ==
    ASSUME TableTypes, NEW up \in SUBSET Owned, {k \in Owned : worker[k] # "boot"} \subseteq up,
           NEW late \in BOOLEAN, NEW p \in Plans(up, late)
    PROVE  \E k \in Containers : \/ Made(p, k, late)
                                 \/ p = On("forget", k) /\ worker[k] = "absent"
<1> DEFINE missing == {k \in Containers : record[k] # "none" /\ k \notin Owned}
<1>1. CASE missing # {}
  <2>1. PICK k \in missing : p = On("forget", k)
    BY <1>1 DEF Plans
  <2> QED BY <2>1 DEF Owned
<1>2. CASE missing = {} /\ life = "live"
  BY <1>2, ConvergeMade DEF Plans
<1>3. CASE missing = {} /\ life # "live" /\ Owned # {}
  <2>1. PICK k \in Owned : p = Drain(k, FALSE, late)
    BY <1>3 DEF Plans
  <2> QED BY <1>3, <2>1, DrainMade DEF Owned
<1>4. CASE missing = {} /\ life # "live" /\ Owned = {}
  <2>1. p = <<>> \/ p = On("finalize", None)
    BY <1>4 DEF Plans
  <2>2. "finalize" \in Closing
    BY DEF Closing, Operations, OnContainer
  <2>3. [gen |-> 0, slot |-> 0, build |-> 1] \in Containers
    BY RolloutAssumption DEF Containers, RolloutAssumption, Builds
  <2> QED BY <2>1, <2>2, <2>3, StatementMade
<1> QED BY <1>1, <1>2, <1>3, <1>4

-------------------------------------------------------------------------------
(* The cycle's readings, and the theorems. *)

LEMMA ReadParts ==
    ASSUME Sound, NEW up \in SUBSET Owned, {k \in Owned : worker[k] # "boot"} \subseteq up,
           NEW late \in BOOLEAN, Read(up, late)
    PROVE  TableTypes' /\ WorkerTypes' /\ Locked' /\ BoundTypes'
<1> USE SoundParts
<1>1. TableTypes' /\ BoundTypes' /\ UNCHANGED <<worker, registry, assigned>>
  BY BoundKept DEF Read, OnlyReconciler, TableTypes, Numbered, buildVars
<1>2. \A k \in Containers : record'[k] \in {"none", "ready", "stopped", "draining"}
  BY DEF Read, WorkerTypes
<1>3. WorkerTypes'
  BY <1>1, <1>2 DEF Read, WorkerTypes
<1>4. ASSUME NEW k \in Containers, worker'[k] = "joining" PROVE record'[k] = "ready"
  <2>1. k \in up /\ record[k] = "ready"
    BY <1>1, <1>4 DEF Owned, Locked
  <2> QED BY <2>1 DEF Read
<1> QED BY <1>1, <1>3, <1>4 DEF Locked

LEMMA ReadSound ==
    ASSUME Sound, NEW up \in SUBSET Owned, {k \in Owned : worker[k] # "boot"} \subseteq up,
           NEW late \in BOOLEAN, Read(up, late)
    PROVE  Sound'
<1>1. TableTypes' /\ WorkerTypes' /\ Locked' /\ BoundTypes' /\ TableTypes /\ WorkerTypes
  BY ReadParts, SoundParts
<1>2. /\ UNCHANGED <<deployment, life, worker, registry, assigned>>
      /\ plan' \in Plans(up, late)
  BY DEF Read
<1>3. deployment.replicas \in 1..MaxReplicas /\ deployment.row \in 1..(MaxGeneration + 1)
      /\ MaxReplicas \in Nat /\ MaxGeneration \in Nat
  BY <1>1, RolloutAssumption DEF TableTypes, DeploymentRows, RolloutAssumption
<1>4. CASE plan' = <<>>
  <2>1. view' \in Views
    BY <1>3, <1>4 DEF Read, Nothing, Views
  <2> QED BY <1>1, <1>4, <2>1, PlanGivenUp, SoundParts
<1>5. CASE plan' # <<>>
  <2>1. /\ view'.replicas = deployment.replicas /\ view' \in Views
        /\ view'.timedOut = (Head(plan').op = "stop" /\ ActiveTask(Head(plan').key) /\ late)
    <3> DEFINE out == Head(plan').op = "stop" /\ ActiveTask(Head(plan').key) /\ late
    <3>1. view' = [row |-> deployment.row, replicas |-> deployment.replicas, timedOut |-> out]
      BY <1>5 DEF Read
    <3>2. out \in BOOLEAN /\ deployment.replicas \in 0..MaxReplicas
          /\ deployment.row \in 0..(MaxGeneration + 1)
      BY <1>3
    <3> HIDE DEF out
    <3>3. view'.replicas = deployment.replicas /\ view' \in Views /\ view'.timedOut = out
      BY <3>1, <3>2 DEF Views
    <3> QED BY <3>3 DEF out
  <2>2. PICK k \in Containers : \/ Made(plan', k, late)
                                \/ plan' = On("forget", k) /\ worker[k] = "absent"
    BY <1>1, <1>2, PlanMade
  <2>3. k.slot \in Nat
    BY <2>2 DEF Containers
  <2>4. PlanFor(k)'
    <3>1. CASE plan' = On("forget", k) /\ worker[k] = "absent"
      <4>1. "forget" \in OnContainer
        BY DEF OnContainer
      <4>2. /\ plan' \in Seq(StepsFor(k)) /\ plan'[1].op = "forget"
            /\ \A n \in 1..Len(plan') : n = 1
        BY <3>1, <4>1, OneStep
      <4> QED BY <1>2, <3>1, <4>2 DEF PlanFor
    <3>2. CASE Made(plan', k, late)
      <4>1. plan' \in Seq(StepsFor(k)) /\ Orderly(plan')
        BY <3>2 DEF Made
      <4>2. Surplus(k)' <=> ~Desired(k)
        BY <1>3, <2>1, <2>3 DEF Surplus, Desired
      <4>3. ASSUME NEW n \in 1..Len(plan'), plan'[n].op = "forget"
            PROVE  /\ \E m \in 1..(n - 1) : plan'[m].op = "stop"
                   /\ \A m \in 1..Len(plan') : plan'[m].op # "start"
        BY <3>2, <4>1, <4>3 DEF Made, Orderly
      <4>4. ASSUME NEW n \in 1..Len(plan'), plan'[n].op = "stop"
            PROVE  Surplus(k)' \/ (n = 1 /\ Spared(k)')
        <5>1. ~Desired(k) \/ (n = 1 /\ (late \/ ~ActiveTask(k) \/ worker[k] = "boot"))
          BY <3>2, <4>4 DEF Made
        <5>2. ASSUME n = 1, late \/ ~ActiveTask(k) \/ worker[k] = "boot" PROVE Spared(k)'
          <6>1. Head(plan') = plan'[1] /\ Head(plan') \in StepsFor(k)
            BY <4>1, <4>4, <5>2
          <6>2. Head(plan').op = "stop" /\ Head(plan').key = k
            BY <4>4, <5>2, <6>1 DEF StepsFor, OnContainer
          <6>3. view'.timedOut = (ActiveTask(k) /\ late)
            BY <2>1, <6>2
          <6> QED BY <1>2, <5>2, <6>3 DEF Spared, ActiveTask
        <5> QED BY <4>2, <5>1, <5>2
      <4>5. ASSUME NEW n \in 1..Len(plan'), plan'[n].op = "block"
            PROVE  Surplus(k)' \/ life' # "live" \/ Replaced(k)'
        <5>1. ~Desired(k) \/ life # "live" \/ Replaced(k)
          BY <3>2, <4>5 DEF Made
        <5>2. Replaced(k) => Replaced(k)'
          BY <1>2 DEF Replaced
        <5> QED BY <1>2, <4>2, <5>1, <5>2
      <4> QED BY <4>1, <4>3, <4>4, <4>5 DEF PlanFor
    <3> QED BY <2>2, <3>1, <3>2
  <2>5. plan' \in Seq(Steps)
    <3>1. StepsFor(k) \subseteq Steps
      BY <2>2 DEF StepsFor, Steps, OnContainer, Operations
    <3>2. plan' \in Seq(StepsFor(k))
      BY <2>4 DEF PlanFor
    <3> QED BY <3>1, <3>2
  <2> QED BY <1>1, <2>1, <2>2, <2>4, <2>5, SoundParts DEF PlanTypes, Planned
<1> QED BY <1>4, <1>5

LEMMA InitSound ==
    Init => Sound
<1> SUFFICES ASSUME Init PROVE Sound
  OBVIOUS
<1>1. /\ MaxBuilds \in Nat \ {0} /\ MaxReplicas \in Nat \ {0} /\ MaxGeneration \in Nat
      /\ MaxRequests \in Nat /\ MaxFaults \in Nat
  BY RolloutAssumption DEF RolloutAssumption
<1>2. PICK n \in 1..MaxReplicas :
        deployment = [row |-> 1, gen |-> 0, phase |-> "pending", active |-> 0, target |-> 1,
                      previous |-> 0, failed |-> 0, replicas |-> n]
  BY DEF Init
<1>3. TableTypes
  BY <1>1, <1>2, PhasesKnown DEF Init, TableTypes, DeploymentRows, Builds, Numbered
<1>4. WorkerTypes /\ Locked /\ BoundTypes
  BY <1>1 DEF Init, WorkerTypes, Locked, BoundTypes
<1>5. view \in Views /\ plan \in Seq(Steps)
  BY <1>1 DEF Init, Nothing, Views
<1>6. [gen |-> 0, slot |-> 0, build |-> 1] \in Containers
  BY <1>1 DEF Containers, Builds
<1>7. \A k \in Containers : PlanFor(k)
  BY DEF Init, PlanFor
<1> QED BY <1>3, <1>4, <1>5, <1>6, <1>7, SoundParts DEF PlanTypes, Planned

LEMMA SoundStep ==
    Sound /\ [Next]_vars => Sound'
<1> SUFFICES ASSUME Sound, [Next]_vars PROVE Sound'
  OBVIOUS
<1>1. CASE UNCHANGED vars
  <2>1. PlanTypes'
    BY <1>1, SoundParts, PlanKept
       DEF vars, workerVars, reconcilerVars, tableVars, Spared, Replaced
  <2> QED BY <1>1, <2>1, SoundParts, PartsKept DEF vars
<1>2. CASE \/ NewImage \/ DeleteEndpoint \/ ReconcileTargets
           \/ \E b \in Builds : UpdateModule(b)
           \/ \E n \in 1..MaxReplicas : SetReplicas(n)
  BY <1>2, RequestSound
<1>3. ASSUME NEW k \in Containers, Work(k) PROVE Sound'
  BY <1>3, WorkSound
<1>4. CASE Act \/ CycleFails
  BY <1>4, ActSound, StatementSound
<1>5. ASSUME NEW late \in BOOLEAN, ReadWith(late) PROVE Sound'
  BY <1>5, ReadSound DEF ReadWith
<1> QED BY <1>1, <1>2, <1>3, <1>4, <1>5 DEF Next

(* Every variable keeps its type, at any number of builds, replicas,        *)
(* generations, requests and faults.                                        *)
THEOREM RolloutTypes == Spec => []TypeOK
<1>1. Sound => TypeOK
  BY DEF Sound
<1> QED BY <1>1, InitSound, SoundStep, PTL DEF Spec

(* No step but the reconciler's makes a container disappear.                *)
LEMMA OnlyStops ==
    ASSUME Sound, Next, NEW k \in Containers, Stopped(k)
    PROVE  StopRemoveContainer
<1> USE DEF Stopped
<1>1. ~UNCHANGED worker
  OBVIOUS
<1>2. \A j \in Containers : ~Work(j)
  <2> SUFFICES ASSUME NEW j \in Containers, Work(j) PROVE FALSE
    OBVIOUS
  <2> QED BY WorkParts
<1>3. ~StartContainer
  BY SoundParts DEF StartContainer, Becomes, WorkerTypes
<1> QED
  BY <1>1, <1>2, <1>3
     DEF Next, NewImage, DeleteEndpoint, UpdateModule, SetReplicas, Request, ReconcileTargets,
         Act, ObserveContainer, BlockWorkerClaims, MarkContainerDraining,
         RecordContainerRemoved, MarkDeploymentRolling, FailOrRollbackDeployment,
         CompleteDeployment, FinalizeEndpointDeletion, OnlyDeployment, CycleFails, ReadWith,
         Read, workerVars

(* A worker that is drained while it runs an invocation keeps its container  *)
(* until the drain times out, whatever requests, workers and faults do.     *)
THEOREM DrainingKeepsTheClaim == Spec => DrainKeepsClaim
<1>1. ASSUME Sound, [Next]_vars PROVE [DrainKeepsClaimStep]_vars
  <2>1. ASSUME Next, NEW k \in Containers, Stopped(k), record[k] = "draining", ~assigned[k],
               worker[k] = "busy", registry[k] = "running", k.slot < view.replicas
        PROVE  view.timedOut
    <3>1. StopRemoveContainer
      BY <1>1, <2>1, OnlyStops
    <3>2. plan # <<>> /\ Head(plan).op = "stop" /\ worker' = [worker EXCEPT ![Key] = "absent"]
      BY <3>1 DEF StopRemoveContainer, Due, Becomes
    <3>3. PICK j \in Containers : PlanFor(j)
      BY <1>1, SoundParts DEF PlanTypes, Planned
    <3>4. Key = j /\ (Surplus(j) \/ Spared(j))
      BY <3>2, <3>3, PlannedKey DEF Key, OnContainer
    <3>5. j = k
      BY <1>1, <2>1, <3>2, <3>4, SoundParts DEF Stopped, WorkerTypes
    <3>6. k.slot \in Nat /\ view.replicas \in Nat
      BY <1>1, SoundParts, RolloutAssumption
         DEF Containers, PlanTypes, Views, RolloutAssumption
    <3>7. Spared(k)
      BY <2>1, <3>4, <3>5, <3>6 DEF Surplus
    <3> QED BY <2>1, <3>7 DEF Spared
  <2> QED BY <1>1, <2>1 DEF DrainKeepsClaimStep
<1> QED BY <1>1, InitSound, SoundStep, PTL DEF Spec, DrainKeepsClaim

(* A registration is given up by a deletion, a block or a removal only.     *)
LEMMA OnlyUnassigns ==
    ASSUME Sound, Next, NEW k \in Containers, assigned[k], ~assigned'[k]
    PROVE  DeleteEndpoint \/ BlockWorkerClaims \/ RecordContainerRemoved
<1>1. ~UNCHANGED assigned
  OBVIOUS
<1>2. \A j \in Containers : ~Work(j)
  <2> SUFFICES ASSUME NEW j \in Containers, Work(j) PROVE FALSE
    OBVIOUS
  <2>1. UNCHANGED assigned \/ Register(j)
    BY DEF Work, Join, Listen, Claim, Answer, Expire, Die
  <2>2. ~Register(j)
    BY SoundParts DEF Register, WorkerTypes
  <2> QED BY <1>1, <2>1, <2>2
<1> QED
  BY <1>1, <1>2
     DEF Next, NewImage, UpdateModule, SetReplicas, Request, ReconcileTargets, Act,
         StartContainer, StopRemoveContainer, ObserveContainer, MarkContainerDraining,
         MarkDeploymentRolling, FailOrRollbackDeployment, CompleteDeployment,
         FinalizeEndpointDeletion, OnlyDeployment, CycleFails, ReadWith, Read, workerVars

(* A slot that the deployment wants is drained only when another container   *)
(* of the slot has registered.                                              *)
THEOREM DrainedSlotsAreTaken == Spec => SlotHandedOver
<1>1. ASSUME Sound, [Next]_vars PROVE [SlotHandedOverStep]_vars
  <2>1. ASSUME Next, NEW k \in Containers, assigned[k], ~assigned'[k], record'[k] = "draining",
               k.slot < view.replicas, life = "live", life' = "live"
        PROVE  Replaced(k)
    <3>1. ~DeleteEndpoint
      BY <2>1 DEF DeleteEndpoint
    <3>2. WorkerTypes
      BY <1>1, SoundParts
    <3>3. RecordContainerRemoved => FALSE
      <4> SUFFICES ASSUME RecordContainerRemoved PROVE FALSE
        OBVIOUS
      <4>1. Key = k
        BY <2>1, <3>2 DEF RecordContainerRemoved, WorkerTypes
      <4>2. record'[k] = "none"
        BY <3>2, <4>1 DEF RecordContainerRemoved, SetRecord, WorkerTypes
      <4> QED BY <2>1, <4>2
    <3>4. BlockWorkerClaims
      BY <1>1, <2>1, <3>1, <3>3, OnlyUnassigns
    <3>5. plan # <<>> /\ Head(plan).op = "block"
      BY <3>4 DEF BlockWorkerClaims, Due
    <3>6. PICK j \in Containers : PlanFor(j)
      BY <1>1, SoundParts DEF PlanTypes, Planned
    <3>7. Key = j /\ (Surplus(j) \/ life # "live" \/ Replaced(j))
      BY <3>5, <3>6, PlannedKey DEF Key, OnContainer
    <3>8. j = k
      BY <2>1, <3>2, <3>4, <3>7 DEF BlockWorkerClaims, WorkerTypes
    <3>9. k.slot \in Nat /\ view.replicas \in Nat
      BY <1>1, SoundParts, RolloutAssumption
         DEF Containers, PlanTypes, Views, RolloutAssumption
    <3> QED BY <2>1, <3>7, <3>8, <3>9 DEF Surplus
  <2> QED BY <1>1, <2>1 DEF SlotHandedOverStep, Replaced
<1> QED BY <1>1, InitSound, SoundStep, PTL DEF Spec, SlotHandedOver
===============================================================================
