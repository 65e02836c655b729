------------------------ MODULE OptimizationJobsProofs -------------------------
(* Theorems about OptimizationJobs for every value of its constants. *)
EXTENDS OptimizationJobs, QueueLemmas, FiniteSetTheorems

-------------------------------------------------------------------------------
(* Types. *)

Kinds == {"none", "job", "eval", "materialize"}
Messages == {"job", "eval"} \X (Jobs \cup {NoJob}) \X Runs

ProcessTypes ==
    /\ pc \in [Processes -> Places]
    /\ kind \in [Processes -> Kinds]
    /\ job \in [Processes -> Jobs \cup {NoJob}]
    /\ run \in [Processes -> 0..MaxRuns]
    /\ child \in [Processes -> [alive : BOOLEAN, result : Results]]
    /\ payload \in [Processes -> Results]
    /\ outcome \in [Processes -> Terminal \cup {"none"}]
    /\ inTime \in SUBSET Processes
RowTypes == status \in [Jobs -> Statuses] /\ recorded \in [Jobs -> 0..MaxRuns]
QueueTypes == queue \in Seq(Messages)
SlotTypes == holding \in SUBSET Processes /\ Cardinality(holding) <= InstallLimit
PlanTypes == /\ plan \in [Runs -> PlanStatuses]
             /\ verdict \in [Runs -> {"none", "succeeded", "failed"}]
GitTypes == branch \in SUBSET Jobs /\ pushed \in [Jobs -> SUBSET Runs]
BoundTypes == /\ runs \in 0..MaxRuns /\ cancels \in 0..MaxCancels
              /\ faults \in 0..MaxFaults

(* Where a process is decides what it works on. *)
ShapeOf(place, what, j, k, o) ==
    /\ place \in {"read", "start", "prepare", "drain", "look", "copy", "await", "end"}
         => what = "job"
    /\ place \in {"slot", "install"} => what \in {"job", "eval"}
    /\ place = "evaluate" => what = "eval"
    /\ place \in {"branch", "push", "record"} => what \in {"job", "materialize"}
    /\ place = "idle" <=> what = "none"
    /\ what \in {"job", "materialize"} => j \in Jobs
    /\ what = "eval" => j = NoJob
    /\ what # "none" => k \in Runs
    /\ place = "end" <=> o \in Terminal
    /\ o = "succeeded" => what = "job"
Shaped == \A p \in Processes : ShapeOf(pc[p], kind[p], job[p], run[p], outcome[p])

JobMessages == \A m \in Range(queue) : m[1] = "job" => m[2] \in Jobs

Sound == TypeOK /\ Shaped /\ JobMessages /\ IsFiniteSet(holding)

LEMMA TypeParts ==
    /\ TypeOK <=> /\ ProcessTypes /\ RowTypes /\ QueueTypes /\ SlotTypes /\ PlanTypes
                  /\ GitTypes /\ BoundTypes
    /\ TypeOK' <=> /\ ProcessTypes' /\ RowTypes' /\ QueueTypes' /\ SlotTypes' /\ PlanTypes'
                   /\ GitTypes' /\ BoundTypes'
BY DEF TypeOK, ProcessTypes, RowTypes, QueueTypes, SlotTypes, PlanTypes, GitTypes, BoundTypes,
       Kinds, Messages

LEMMA BoundKept ==
    ASSUME BoundTypes, Fault \/ Cancellation \/ UNCHANGED boundVars
    PROVE  BoundTypes'
BY ConstantsAssumption DEF BoundTypes, Fault, Cancellation, boundVars, ConstantsAssumption

ProcessSound == ProcessTypes /\ Shaped

LEMMA TakeSound ==
    ASSUME ProcessSound, NEW p \in Processes, NEW what \in Kinds, NEW j \in Jobs \cup {NoJob},
           NEW k \in Runs, NEW place \in Places, Take(p, what, j, k, place),
           ShapeOf(place, what, j, k, outcome[p])
    PROVE  ProcessSound'
BY DEF ProcessSound, ProcessTypes, Shaped, Take, Goto, Runs

LEMMA StepSound ==
    ASSUME ProcessSound, NEW p \in Processes, NEW place \in Places, StepTo(p, place),
           ShapeOf(place, kind[p], job[p], run[p], outcome[p])
    PROVE  ProcessSound'
BY DEF ProcessSound, ProcessTypes, Shaped, StepTo, Goto

LEMMA LeaveSound ==
    ASSUME ProcessSound, NEW p \in Processes, NEW what \in Terminal, Leave(p, what),
           kind[p] = "job"
    PROVE  ProcessSound'
<1>1. ShapeOf("end", kind[p], job[p], run[p], what)
  BY DEF ProcessSound, Shaped, ShapeOf, Terminal
<1> QED BY <1>1 DEF ProcessSound, ProcessTypes, Shaped, Leave, Goto, Places, NoChild, Results,
                    Optimizing, Terminal

LEMMA SpawnSound ==
    ASSUME ProcessSound, NEW p \in Processes, Spawn(p), kind[p] = "job", outcome[p] = "none"
    PROVE  ProcessSound'
<1>1. ShapeOf("drain", kind[p], job[p], run[p], outcome[p])
  BY DEF ProcessSound, Shaped, ShapeOf, Terminal
<1> QED BY <1>1 DEF ProcessSound, ProcessTypes, Shaped, Spawn, Goto, Places, Results, Optimizing

LEMMA FinishSound ==
    ASSUME ProcessSound, NEW p \in Processes, NEW S, S \subseteq Processes, FinishAnd(p, S)
    PROVE  ProcessSound'
<1>1. ShapeOf("idle", "none", NoJob, 0, "none")
  BY DEF ShapeOf, Terminal
<1>2. 0 \in 0..MaxRuns /\ "idle" \in Places /\ "none" \in Kinds
      /\ NoChild \in [alive : BOOLEAN, result : Results] /\ "none" \in Results
  BY ConstantsAssumption DEF ConstantsAssumption, Places, Kinds, NoChild, Results
<1>3. ProcessTypes'
  BY <1>2 DEF ProcessSound, ProcessTypes, FinishAnd, Goto
<1> QED BY <1>1, <1>3 DEF ProcessSound, ProcessTypes, Shaped, FinishAnd, Goto

(* A slot that is taken while one is free, or given back. *)
LEMMA SlotSound ==
    ASSUME SlotTypes, IsFiniteSet(holding), NEW p \in Processes,
           \/ Cardinality(holding) < InstallLimit /\ holding' = holding \cup {p}
           \/ holding' = holding \ {p}
           \/ UNCHANGED holding
    PROVE  SlotTypes' /\ IsFiniteSet(holding')
<1>1. Cardinality(holding) \in Nat /\ InstallLimit \in Nat
  BY FS_CardinalityType, ConstantsAssumption DEF ConstantsAssumption
<1>2. CASE Cardinality(holding) < InstallLimit /\ holding' = holding \cup {p}
  <2>1. IsFiniteSet(holding') /\ Cardinality(holding') \in {Cardinality(holding),
                                                           Cardinality(holding) + 1}
    BY <1>2, FS_AddElement
  <2>2. Cardinality(holding') <= InstallLimit
    BY <1>1, <1>2, <2>1
  <2> QED BY <1>2, <2>1, <2>2 DEF SlotTypes
<1>3. CASE holding' = holding \ {p}
  BY <1>1, <1>3, FS_RemoveElement DEF SlotTypes
<1>4. CASE UNCHANGED holding
  BY <1>4 DEF SlotTypes
<1> QED BY <1>2, <1>3, <1>4

(* Everything but the processes, when nothing else is written. *)
LEMMA RestKept ==
    /\ UNCHANGED rowVars /\ RowTypes => RowTypes'
    /\ UNCHANGED queue /\ QueueTypes /\ JobMessages => QueueTypes' /\ JobMessages'
    /\ UNCHANGED planVars /\ PlanTypes => PlanTypes'
    /\ UNCHANGED gitVars /\ GitTypes => GitTypes'
    /\ UNCHANGED holding /\ SlotTypes /\ IsFiniteSet(holding)
         => SlotTypes' /\ IsFiniteSet(holding')
    /\ UNCHANGED processVars /\ ProcessSound => ProcessSound'
BY DEF rowVars, planVars, gitVars, processVars, RowTypes, QueueTypes, JobMessages, PlanTypes,
       GitTypes, SlotTypes, ProcessSound, ProcessTypes, Shaped

LEMMA SoundParts ==
    /\ Sound <=> /\ ProcessSound /\ RowTypes /\ QueueTypes /\ JobMessages /\ SlotTypes
                 /\ IsFiniteSet(holding) /\ PlanTypes /\ GitTypes /\ BoundTypes
    /\ Sound' <=> /\ ProcessSound' /\ RowTypes' /\ QueueTypes' /\ JobMessages' /\ SlotTypes'
                  /\ IsFiniteSet(holding') /\ PlanTypes' /\ GitTypes' /\ BoundTypes'
BY TypeParts DEF Sound, ProcessSound

LEMMA AppendSound ==
    ASSUME QueueTypes, JobMessages, NEW m \in Messages, m[1] = "job" => m[2] \in Jobs,
           queue' = Append(queue, m)
    PROVE  QueueTypes' /\ JobMessages'
<1>1. Range(queue') = Range(queue) \cup {m}
  BY AppendElement DEF QueueTypes
<1> QED BY <1>1 DEF QueueTypes, JobMessages

(* The requests and what they enqueue. *)
LEMMA RequestSound ==
    ASSUME Sound,
           \/ \E j \in Jobs : \/ CreateJob(j) \/ CancelJob(j) \/ DeleteJob(j)
                              \/ \E p \in Requests : RunRequest(p, j)
                                                     \/ MaterializeRequest(p, j)
           \/ \E k \in Runs : CancelPlan(k) \/ DeletePlan(k)
    PROVE  Sound'
<1> USE SoundParts
<1>1. ASSUME NEW k \in Runs, CancelPlan(k) \/ DeletePlan(k) PROVE Sound'
  <2>1. PlanTypes'
    BY <1>1 DEF CancelPlan, DeletePlan, PlanTypes, PlanStatuses, Statuses, Terminal
  <2> QED BY <1>1, <2>1, RestKept, BoundKept DEF CancelPlan, DeletePlan
<1>2. ASSUME NEW j \in Jobs, CancelJob(j) \/ DeleteJob(j) PROVE Sound'
  <2>1. RowTypes'
    BY <1>2 DEF CancelJob, DeleteJob, RowTypes, Statuses, Terminal
  <2>2. ProcessSound'
    BY <1>2 DEF CancelJob, DeleteJob, ProcessSound, ProcessTypes, Shaped, StillSeen
  <2>3. UNCHANGED <<queue, holding, planVars, gitVars>> /\ BoundTypes'
    BY <1>2, BoundKept DEF CancelJob, DeleteJob
  <2> QED BY <2>1, <2>2, <2>3, RestKept
<1>3. ASSUME runs < MaxRuns, runs' = runs + 1, UNCHANGED <<cancels, faults>>
      PROVE  BoundTypes' /\ runs + 1 \in Runs
  BY <1>3, ConstantsAssumption DEF BoundTypes, ConstantsAssumption, Runs
<1>4. ASSUME NEW j \in Jobs, CreateJob(j) PROVE Sound'
  <2>1. RowTypes'
    BY <1>4 DEF CreateJob, RowTypes, Statuses, Terminal
  <2>2. BoundTypes' /\ runs + 1 \in Runs
    BY <1>3, <1>4 DEF CreateJob
  <2>3. <<"job", j, runs + 1>> \in Messages /\ <<"job", j, runs + 1>>[2] \in Jobs
    BY <2>2 DEF Messages
  <2>4. QueueTypes' /\ JobMessages'
    BY <1>4, <2>3, AppendSound DEF CreateJob
  <2> QED BY <1>4, <2>1, <2>2, <2>4, RestKept DEF CreateJob
<1>5. ASSUME NEW j \in Jobs, NEW p \in Requests, RunRequest(p, j) \/ MaterializeRequest(p, j)
      PROVE  Sound'
  <2>1. p \in Processes
    BY DEF Processes
  <2>2. BoundTypes' /\ runs + 1 \in Runs
    BY <1>3, <1>5 DEF RunRequest, MaterializeRequest
  <2>3. outcome[p] = "none"
    BY <1>5, <2>1 DEF RunRequest, MaterializeRequest, ProcessSound, Shaped, ShapeOf, ProcessTypes
  <2>4. /\ ShapeOf("read", "job", j, runs + 1, outcome[p])
        /\ ShapeOf("branch", "materialize", j, runs + 1, outcome[p])
    BY <2>2, <2>3 DEF ShapeOf, Terminal
  <2>5. {"read", "branch"} \subseteq Places /\ {"job", "materialize"} \subseteq Kinds
    BY DEF Places, Kinds
  <2>6. ProcessSound'
    BY <1>5, <2>1, <2>2, <2>4, <2>5, TakeSound DEF RunRequest, MaterializeRequest
  <2> QED BY <1>5, <2>2, <2>6, RestKept DEF RunRequest, MaterializeRequest
<1> QED BY <1>1, <1>2, <1>4, <1>5

(* What happens to a worker or a child at any time. *)
LEMMA WorkerSound ==
    ASSUME Sound,
           \/ \E w \in Workers : Pop(w) \/ Crash(w)
           \/ \E p \in Processes : ChildReports(p) \/ ChildExits(p)
           \/ UNCHANGED vars
    PROVE  Sound'
<1> USE SoundParts
<1>1. ASSUME NEW w \in Workers, Pop(w) PROVE Sound'
  <2>1. w \in Processes
    BY DEF Processes
  <2>2. /\ Head(queue) \in Messages /\ Head(queue) \in Range(queue)
        /\ Tail(queue) \in Seq(Messages) /\ Range(Tail(queue)) \subseteq Range(queue)
    BY <1>1, TailRange DEF Pop, QueueTypes
  <2>3. QueueTypes' /\ JobMessages'
    BY <1>1, <2>2 DEF Pop, QueueTypes, JobMessages
  <2>4. outcome[w] = "none"
    BY <1>1, <2>1 DEF Pop, ProcessSound, Shaped, ShapeOf, ProcessTypes
  <2> DEFINE m == Head(queue)
  <2>5. m[2] \in Jobs \cup {NoJob} /\ m[3] \in Runs /\ (m[1] = "job" => m[2] \in Jobs)
    BY <2>2 DEF Messages, JobMessages
  <2>6. {"read", "slot", "evaluate"} \subseteq Places /\ {"job", "eval"} \subseteq Kinds
    BY DEF Places, Kinds, Optimizing
  <2> HIDE DEF m
  <2>7. CASE m[1] = "job" /\ Take(w, "job", m[2], m[3], "read") /\ UNCHANGED plan
    <3>1. ShapeOf("read", "job", m[2], m[3], outcome[w])
      BY <2>4, <2>5, <2>7 DEF ShapeOf, Terminal
    <3>2. ProcessSound'
      BY <2>1, <2>5, <2>6, <2>7, <3>1, TakeSound
    <3> QED BY <1>1, <2>3, <2>7, <3>2, RestKept DEF Pop, PlanTypes, BoundTypes, boundVars
  <2>8. CASE \E place \in {"slot", "evaluate"} : /\ Take(w, "eval", NoJob, m[3], place)
                                                /\ plan' = [plan EXCEPT ![m[3]] = "running"]
    <3>1. PICK place \in {"slot", "evaluate"} : Take(w, "eval", NoJob, m[3], place)
      BY <2>8
    <3>2. ShapeOf(place, "eval", NoJob, m[3], outcome[w])
      BY <2>4, <2>5 DEF ShapeOf, Terminal
    <3>3. ProcessSound'
      BY <2>1, <2>5, <2>6, <3>1, <3>2, TakeSound
    <3>4. PlanTypes'
      BY <1>1, <2>5, <2>8 DEF Pop, PlanTypes, PlanStatuses, Statuses
    <3> QED BY <1>1, <2>3, <3>3, <3>4, RestKept DEF Pop, BoundTypes, boundVars
  <2>9. CASE UNCHANGED <<processVars, plan>>
    BY <1>1, <2>3, <2>9, RestKept DEF Pop, PlanTypes, BoundTypes, boundVars
  <2> QED BY <1>1, <2>7, <2>8, <2>9 DEF Pop, m
<1>2. ASSUME NEW w \in Workers, Crash(w) PROVE Sound'
  <2>1. w \in Processes /\ inTime \subseteq Processes
    BY DEF Processes, ProcessSound, ProcessTypes
  <2>2. ProcessSound'
    BY <1>2, <2>1, FinishSound DEF Crash, Finish
  <2>3. SlotTypes' /\ IsFiniteSet(holding')
    BY <1>2, <2>1, SlotSound DEF Crash
  <2> QED BY <1>2, <2>2, <2>3, RestKept, BoundKept DEF Crash
<1>3. ASSUME NEW p \in Processes, ChildReports(p) \/ ChildExits(p) PROVE Sound'
  <2>1. UNCHANGED <<pc, kind, job, run, payload, outcome, inTime>>
    BY <1>3 DEF ChildReports, ChildExits
  <2>2. child \in [Processes -> [alive : BOOLEAN, result : Results]]
    BY DEF ProcessSound, ProcessTypes
  <2>3. child' \in [Processes -> [alive : BOOLEAN, result : Results]]
    <3>1. CASE ChildReports(p)
      <4>1. PICK r \in Results : child' = [child EXCEPT ![p].result = r]
        BY <3>1 DEF ChildReports, Results
      <4> QED BY <2>2, <4>1
    <3>2. CASE ChildExits(p)
      BY <2>2, <3>2 DEF ChildExits
    <3> QED BY <1>3, <3>1, <3>2
  <2>4. ProcessSound'
    BY <2>1, <2>3 DEF ProcessSound, ProcessTypes, Shaped
  <2>5. BoundTypes'
    BY <1>3, BoundKept DEF ChildReports, ChildExits
  <2> QED BY <1>3, <2>4, <2>5, RestKept DEF ChildReports, ChildExits
<1>4. CASE UNCHANGED vars
  BY <1>4, RestKept, BoundKept DEF vars
<1> QED BY <1>1, <1>2, <1>3, <1>4

(* The steps of an execution. *)
LEMMA ExecuteSound ==
    ASSUME Sound, NEW p \in Processes, Execute(p)
    PROVE  Sound'
<1> USE SoundParts
<1>1. /\ inTime \subseteq Processes /\ outcome[p] \in Terminal \cup {"none"}
      /\ ShapeOf(pc[p], kind[p], job[p], run[p], outcome[p])
  BY DEF ProcessSound, ProcessTypes, Shaped
<1>2. {"start", "slot", "install", "evaluate", "drain", "look", "copy", "await", "branch",
       "push", "record", "prepare"} \subseteq Places
  BY DEF Places, Optimizing
<1>3. {"failed", "canceled", "succeeded"} \subseteq Terminal
  BY DEF Terminal
<1>4. ASSUME Finish(p) PROVE ProcessSound'
  BY <1>1, <1>4, FinishSound DEF Finish
<1>5. ASSUME NEW j \in Jobs, NEW t \in Terminal \cup {"running"}, SetStatus(j, t)
      PROVE  status' \in [Jobs -> Statuses]
  BY <1>5 DEF SetStatus, RowTypes, Statuses, Terminal
<1>6. ASSUME ReadJob(p) PROVE Sound'
  <2>1. ShapeOf("start", kind[p], job[p], run[p], outcome[p])
    BY <1>1, <1>6 DEF ReadJob, ShapeOf, Terminal
  <2>2. ProcessSound'
    BY <1>2, <1>4, <1>6, <2>1, StepSound DEF ReadJob
  <2> QED BY <1>6, <2>2, RestKept, BoundKept DEF ReadJob
<1>7. ASSUME StartJob(p) PROVE Sound'
  <2>1. ShapeOf("prepare", kind[p], job[p], run[p], outcome[p]) /\ job[p] \in Jobs
    BY <1>1, <1>7 DEF StartJob, ShapeOf, Terminal
  <2>2. ProcessSound'
    BY <1>2, <1>7, <2>1 DEF StartJob, Goto, StillSeen, ProcessSound, ProcessTypes, Shaped
  <2>3. RowTypes'
    BY <1>5, <1>7, <2>1 DEF StartJob, RowTypes
  <2> QED BY <1>7, <2>2, <2>3, RestKept, BoundKept DEF StartJob
<1>8. ASSUME Prepare(p) PROVE Sound'
  <2>1. kind[p] = "job" /\ outcome[p] = "none"
        /\ ShapeOf("slot", kind[p], job[p], run[p], outcome[p])
    BY <1>1, <1>8 DEF Prepare, ShapeOf, Terminal
  <2>2. ProcessSound'
    BY <1>2, <1>3, <1>8, <2>1, StepSound, SpawnSound, LeaveSound DEF Prepare
  <2> QED BY <1>8, <2>2, RestKept, BoundKept DEF Prepare
<1>9. ASSUME pc[p] \in {"slot", "install"}, NEW t \in Terminal, InstallRaises(p, t)
      PROVE  ProcessSound'
  BY <1>1, <1>4, <1>9, LeaveSound DEF InstallRaises, ShapeOf
<1>10. ASSUME AcquireSlot(p) PROVE Sound'
  <2>1. ShapeOf("install", kind[p], job[p], run[p], outcome[p])
    BY <1>1, <1>10 DEF AcquireSlot, ShapeOf, Terminal
  <2>2. ProcessSound'
    BY <1>2, <1>3, <1>9, <1>10, <2>1, StepSound DEF AcquireSlot
  <2>3. SlotTypes' /\ IsFiniteSet(holding')
    BY <1>10, SlotSound DEF AcquireSlot
  <2> QED BY <1>10, <2>2, <2>3, RestKept, BoundKept DEF AcquireSlot
<1>11. ASSUME Install(p) PROVE Sound'
  <2>1. ASSUME Installed(p) PROVE ProcessSound'
    <3>1. CASE kind[p] = "eval"
      <4>1. ShapeOf("evaluate", kind[p], job[p], run[p], outcome[p])
        BY <1>1, <1>11, <3>1 DEF Install, ShapeOf, Terminal
      <4> QED BY <1>2, <2>1, <3>1, <4>1, StepSound DEF Installed
    <3>2. CASE kind[p] # "eval"
      <4>1. kind[p] = "job" /\ outcome[p] = "none"
        BY <1>1, <1>11, <3>2 DEF Install, ShapeOf
      <4> QED BY <2>1, <3>2, <4>1, SpawnSound DEF Installed
    <3> QED BY <3>1, <3>2
  <2>2. ProcessSound'
    BY <1>3, <1>9, <1>11, <2>1 DEF Install
  <2>3. SlotTypes' /\ IsFiniteSet(holding')
    BY <1>11, SlotSound DEF Install
  <2> QED BY <1>11, <2>2, <2>3, RestKept, BoundKept DEF Install
<1>12. ASSUME Drain(p) PROVE Sound'
  <2>1. ShapeOf("look", kind[p], job[p], run[p], outcome[p])
    BY <1>1, <1>12 DEF Drain, ShapeOf, Terminal
  <2>2. child \in [Processes -> [alive : BOOLEAN, result : Results]]
        /\ payload \in [Processes -> Results] /\ "none" \in Results
    BY DEF ProcessSound, ProcessTypes, Results
  <2>3. child' \in [Processes -> [alive : BOOLEAN, result : Results]]
        /\ payload' \in [Processes -> Results]
    BY <1>12, <2>2 DEF Drain
  <2>4. ProcessSound'
    BY <1>2, <1>12, <2>1, <2>3 DEF Drain, Goto, ProcessSound, ProcessTypes, Shaped
  <2> QED BY <1>12, <2>4, RestKept, BoundKept DEF Drain
<1>13. ASSUME Look(p) PROVE Sound'
  <2>1. /\ kind[p] = "job"
        /\ ShapeOf("copy", kind[p], job[p], run[p], outcome[p])
        /\ ShapeOf("drain", kind[p], job[p], run[p], outcome[p])
    BY <1>1, <1>13 DEF Look, ShapeOf, Terminal
  <2>2. ASSUME child' = [child EXCEPT ![p] = NoChild], payload' = [payload EXCEPT ![p] = "none"],
               Goto(p, "copy"), UNCHANGED <<kind, job, run, outcome, inTime>>
        PROVE  ProcessSound'
    BY <1>2, <2>1, <2>2 DEF Goto, ProcessSound, ProcessTypes, Shaped, NoChild, Results
  <2>3. ProcessSound'
    BY <1>2, <1>3, <1>13, <2>1, <2>2, StepSound, LeaveSound DEF Look
  <2> QED BY <1>13, <2>3, RestKept, BoundKept DEF Look
<1>14. ASSUME StartFollowup(p) PROVE Sound'
  <2>1. /\ kind[p] = "job" /\ run[p] \in Runs
        /\ ShapeOf("await", kind[p], job[p], run[p], outcome[p])
    BY <1>1, <1>14 DEF StartFollowup, ShapeOf, Terminal
  <2>2. ProcessSound'
    BY <1>2, <1>3, <1>14, <2>1, StepSound, LeaveSound DEF StartFollowup
  <2>3. PlanTypes'
    BY <1>14, <2>1 DEF StartFollowup, PlanTypes, PlanStatuses, Statuses
  <2>4. <<"eval", NoJob, run[p]>> \in Messages /\ <<"eval", NoJob, run[p]>>[1] # "job"
    BY <2>1 DEF Messages
  <2>5. QueueTypes' /\ JobMessages'
    BY <1>14, <2>4, AppendSound, RestKept DEF StartFollowup
  <2> QED BY <1>14, <2>2, <2>3, <2>5, RestKept, BoundKept DEF StartFollowup
<1>15. ASSUME AwaitFollowup(p) PROVE Sound'
  <2>1. kind[p] = "job" /\ ShapeOf("branch", kind[p], job[p], run[p], outcome[p])
    BY <1>1, <1>15 DEF AwaitFollowup, ShapeOf, Terminal
  <2>2. ProcessSound'
    BY <1>2, <1>3, <1>15, <2>1, StepSound, LeaveSound DEF AwaitFollowup
  <2> QED BY <1>15, <2>2, RestKept, BoundKept DEF AwaitFollowup
<1>16. ASSUME CreateBranch(p) \/ Push(p) \/ Record(p) PROVE Sound'
  <2>1. /\ kind[p] \in {"job", "materialize"} /\ job[p] \in Jobs /\ run[p] \in Runs
        /\ ShapeOf("push", kind[p], job[p], run[p], outcome[p])
        /\ ShapeOf("record", kind[p], job[p], run[p], outcome[p])
    BY <1>1, <1>16 DEF CreateBranch, Push, Record, ShapeOf, Terminal
  <2>2. ASSUME Fails(p) PROVE ProcessSound'
    BY <1>3, <1>4, <2>1, <2>2, LeaveSound DEF Fails
  <2>3. ProcessSound'
    BY <1>2, <1>3, <1>4, <1>16, <2>1, <2>2, StepSound, LeaveSound DEF CreateBranch, Push, Record
  <2>4. GitTypes'
    BY <1>16, <2>1 DEF CreateBranch, Push, Record, GitTypes, gitVars
  <2>5. BoundTypes'
    BY <1>16, BoundKept DEF CreateBranch, Push, Record
  <2> QED BY <1>16, <2>3, <2>4, <2>5, RestKept DEF CreateBranch, Push, Record
<1>17. ASSUME EndJob(p) PROVE Sound'
  <2>1. job[p] \in Jobs /\ outcome[p] \in Terminal /\ run[p] \in Runs
    BY <1>1, <1>17 DEF EndJob, ShapeOf
  <2>2. StillSeen(job[p], outcome[p]) \subseteq Processes
    BY <1>1 DEF StillSeen
  <2>3. ProcessSound'
    BY <1>17, <2>2, FinishSound DEF EndJob
  <2>4. RowTypes'
    BY <1>5, <1>17, <2>1 DEF EndJob, RowTypes, Runs
  <2> QED BY <1>17, <2>3, <2>4, RestKept, BoundKept DEF EndJob
<1>18. ASSUME Evaluate(p) PROVE Sound'
  <2>1. run[p] \in Runs
    BY <1>1, <1>18 DEF Evaluate, ShapeOf
  <2>2. PlanTypes'
    BY <1>18, <2>1 DEF Evaluate, PlanTypes, PlanStatuses, Statuses, Terminal
  <2> QED BY <1>4, <1>18, <2>2, RestKept, BoundKept DEF Evaluate
<1> QED BY <1>6, <1>7, <1>8, <1>10, <1>11, <1>12, <1>13, <1>14, <1>15, <1>16, <1>17, <1>18
        DEF Execute

LEMMA SoundStep == Sound /\ [Next]_vars => Sound'
BY RequestSound, WorkerSound, ExecuteSound DEF Next

LEMMA InitSound == Init => Sound
<1> SUFFICES ASSUME Init PROVE Sound
  OBVIOUS
<1> USE DEF Init
<1>1. 0 \in 0..MaxRuns /\ 0 \in 0..MaxCancels /\ 0 \in 0..MaxFaults /\ 0 <= InstallLimit
  BY ConstantsAssumption DEF ConstantsAssumption
<1>2. SlotTypes /\ IsFiniteSet(holding)
  BY <1>1, FS_EmptySet DEF SlotTypes
<1>3. QueueTypes /\ JobMessages
  BY DEF QueueTypes, JobMessages, Range
<1>4. RowTypes /\ BoundTypes
  BY <1>1 DEF RowTypes, BoundTypes, Statuses
<1>5. PlanTypes /\ GitTypes
  BY DEF PlanTypes, PlanStatuses, Statuses, GitTypes
<1>6. ProcessTypes
  BY <1>1 DEF ProcessTypes, Places, Kinds, Results, NoChild
<1>7. ShapeOf("idle", "none", NoJob, 0, "none")
  BY DEF ShapeOf, Terminal
<1>8. Shaped
  BY <1>7 DEF Shaped
<1> QED BY <1>2, <1>3, <1>4, <1>5, <1>6, <1>8, SoundParts DEF ProcessSound

(* Rows, queue, processes, plans and branches keep their types, and no more  *)
(* requirements are installed at once than the limit allows, whoever is      *)
(* canceled, fails or dies while it installs.                               *)
THEOREM OptimizationTypes == Spec => []TypeOK
<1>1. Sound => TypeOK
  BY DEF Sound
<1> QED BY <1>1, InitSound, SoundStep, PTL DEF Spec

-------------------------------------------------------------------------------
(* The invariant. *)

(* An execution has a number of its own, from its request or its message to *)
(* its end.                                                                 *)
Executes(p) == kind[p] \in {"job", "materialize"}
JobMessage(m) == m \in Range(queue) /\ m[1] = "job"
Numbered ==
    /\ \A p \in Processes : kind[p] # "none" => run[p] <= runs
    /\ \A m \in Range(queue) : m[3] <= runs
    /\ IsInjective(queue)
    /\ \A p, q \in Processes : Executes(p) /\ Executes(q) /\ run[p] = run[q] => p = q
    /\ \A m \in Messages, p \in Processes :
         JobMessage(m) /\ Executes(p) => run[p] # m[3]
    /\ \A m, n \in Messages : JobMessage(m) /\ JobMessage(n) /\ m[3] = n[3] => m = n

(* Its follow-up run is created once, taken by one worker, and the result   *)
(* of a run that succeeded is final.                                        *)
Early == Optimizing \cup {"read", "start", "copy"}
Followed ==
    /\ \A k \in Runs : k > runs => plan[k] = "absent"
    /\ \A p \in Processes : kind[p] = "job" /\ pc[p] \in Early => plan[run[p]] = "absent"
    /\ \A m \in Range(queue) : m[1] = "job" <=> plan[m[3]] = "absent"
    /\ \A p \in Processes :
         kind[p] = "eval" => plan[run[p]] \in {"running", "canceled", "deleted"}
    /\ \A p, q \in Processes :
         kind[p] = "eval" /\ kind[q] = "eval" /\ run[p] = run[q] => p = q
    /\ \A k \in Runs : plan[k] = "succeeded" => verdict[k] = "succeeded"

Final(k) == /\ verdict[k] = "succeeded" /\ plan[k] \in {"succeeded", "deleted"}
            /\ \A p \in Processes : kind[p] = "eval" => run[p] # k
Published(p) == kind[p] = "job" /\ (\/ pc[p] \in {"branch", "push", "record"}
                                   \/ outcome[p] = "succeeded")
Evaluated ==
    /\ \A p \in Processes : Published(p) => Final(run[p])
    /\ \A j \in Jobs : recorded[j] # 0 => Final(recorded[j])

(* Whoever has created the branch of a job is alone with it.                *)
Owns(p) == pc[p] \in {"push", "record"} \/ outcome[p] = "succeeded"
PushedOf(p) == IF pc[p] = "push" THEN {} ELSE {run[p]}
Owned ==
    /\ \A p \in Processes : Owns(p) => job[p] \in branch /\ pushed[job[p]] = PushedOf(p)
    /\ \A p, q \in Processes : Owns(p) /\ Owns(q) /\ job[p] = job[q] => p = q
    /\ \A j \in Jobs : j \notin branch => pushed[j] = {}
    /\ \A j \in Jobs : status[j] = "succeeded" =>
         /\ j \in branch /\ recorded[j] # 0 /\ pushed[j] = {recorded[j]}
         /\ \A p \in Processes : Owns(p) => job[p] # j

(* A cancellation in time is in the job's row until it is noticed.          *)
CanceledIsSeen ==
    \A p \in inTime :
        \/ pc[p] \in Optimizing /\ kind[p] = "job" /\ status[job[p]] = "canceled"
        \/ pc[p] = "end" /\ outcome[p] # "succeeded"

-------------------------------------------------------------------------------
(* What a step does to the other executions: nothing, and to its own, it     *)
(* goes on with what it has or it is over.                                  *)
Kept(p) == \/ UNCHANGED <<kind[p], job[p], run[p]>>
           \/ kind'[p] = "none" /\ pc'[p] = "idle" /\ outcome'[p] = "none"

LEMMA OthersKept ==
    ASSUME Sound, NEW p \in Processes, Execute(p)
    PROVE  /\ \A q \in Processes : Kept(q)
           /\ \A q \in Processes \ {p} :
                UNCHANGED <<pc[q], kind[q], job[q], run[q], outcome[q]>>
<1>1. ProcessTypes
  BY SoundParts DEF ProcessSound
<1>2. ASSUME FinishAnd(p, inTime) \/ FinishAnd(p, StillSeen(job[p], outcome[p]))
      PROVE  /\ \A q \in Processes : Kept(q)
             /\ \A q \in Processes \ {p} :
                  UNCHANGED <<pc[q], kind[q], job[q], run[q], outcome[q]>>
  BY <1>1, <1>2 DEF FinishAnd, Goto, Kept, ProcessTypes
<1>3. ASSUME NEW t, Leave(p, t)
      PROVE  /\ \A q \in Processes : Kept(q)
             /\ \A q \in Processes \ {p} :
                  UNCHANGED <<pc[q], kind[q], job[q], run[q], outcome[q]>>
  BY <1>1, <1>3 DEF Leave, Goto, Kept, ProcessTypes
<1>4. ASSUME NEW place, Goto(p, place), UNCHANGED <<kind, job, run, outcome>>
      PROVE  /\ \A q \in Processes : Kept(q)
             /\ \A q \in Processes \ {p} :
                  UNCHANGED <<pc[q], kind[q], job[q], run[q], outcome[q]>>
  BY <1>1, <1>4 DEF Goto, Kept, ProcessTypes
<1> USE DEF Finish, StepTo, Spawn, InstallRaises, Installed, Fails
<1>5. CASE ReadJob(p) \/ StartJob(p) \/ Prepare(p) \/ AcquireSlot(p) \/ Install(p) \/ Drain(p)
  BY <1>2, <1>3, <1>4, <1>5 DEF ReadJob, StartJob, Prepare, AcquireSlot, Install, Drain
<1>6. CASE Look(p)
  BY <1>2, <1>3, <1>4, <1>6 DEF Look
<1>7. CASE StartFollowup(p) \/ AwaitFollowup(p) \/ CreateBranch(p)
  BY <1>2, <1>3, <1>4, <1>7 DEF StartFollowup, AwaitFollowup, CreateBranch
<1>8. CASE Push(p) \/ Record(p) \/ EndJob(p) \/ Evaluate(p)
  BY <1>2, <1>3, <1>4, <1>8 DEF Push, Record, EndJob, Evaluate
<1> QED BY <1>5, <1>6, <1>7, <1>8 DEF Execute

(* Nothing is created, popped or enqueued. *)
LEMMA NumberedKept ==
    ASSUME Numbered, \A p \in Processes : Kept(p), UNCHANGED <<queue, runs>>
    PROVE  Numbered'
<1>1. \A p \in Processes : /\ Executes(p)' => Executes(p) /\ run'[p] = run[p]
                           /\ kind'[p] # "none" => kind[p] # "none" /\ run'[p] = run[p]
  BY DEF Kept, Executes
<1>2. \A m : JobMessage(m)' <=> JobMessage(m)
  BY DEF JobMessage
<1> QED BY <1>1, <1>2 DEF Numbered

LEMMA CreateNumbered ==
    ASSUME Sound, Numbered, NEW j \in Jobs, CreateJob(j)
    PROVE  Numbered'
<1> DEFINE m == <<"job", j, runs + 1>>
<1>1. runs \in Nat /\ runs + 1 \in Runs /\ runs' = runs + 1
  BY SoundParts, ConstantsAssumption DEF CreateJob, BoundTypes, Runs, ConstantsAssumption
<1>2. m \in Messages /\ m[1] = "job" /\ m[3] = runs + 1
  BY <1>1 DEF Messages
<1> HIDE DEF m
<1>3. queue' = Append(queue, m) /\ queue \in Seq(Messages)
  BY SoundParts DEF CreateJob, QueueTypes, m
<1>4. Range(queue) \subseteq Messages
  BY <1>3 DEF Range
<1>5. \A n \in Range(queue) : n[3] \in Nat /\ n[3] <= runs
  BY <1>4 DEF Numbered, Messages, Runs
<1>6. m \notin Range(queue)
  BY <1>1, <1>2, <1>5
<1>7. Range(queue') = Range(queue) \cup {m} /\ IsInjective(queue')
  BY <1>2, <1>3, <1>6, AppendElement DEF Numbered
<1>8. \A n : JobMessage(n)' <=> JobMessage(n) \/ n = m
  BY <1>2, <1>7 DEF JobMessage
<1>9. UNCHANGED <<kind, run>> /\ \A p \in Processes : Executes(p)' <=> Executes(p)
  BY DEF CreateJob, processVars, Executes
<1>10. \A p \in Processes : kind[p] # "none" => run[p] \in Nat /\ run[p] <= runs
  BY SoundParts DEF Numbered, ProcessSound, ProcessTypes
<1>11. \A p \in Processes : Executes(p) => run[p] # m[3]
  BY <1>1, <1>2, <1>10 DEF Executes
<1>12. \A n \in Messages : JobMessage(n) => n[3] # m[3]
  BY <1>1, <1>2, <1>5 DEF JobMessage
<1>13. /\ \A p \in Processes : kind'[p] # "none" => run'[p] <= runs'
       /\ \A n \in Range(queue') : n[3] <= runs'
  BY <1>1, <1>2, <1>5, <1>7, <1>9, <1>10
<1> QED BY <1>7, <1>8, <1>9, <1>11, <1>12, <1>13 DEF Numbered

LEMMA RequestNumbered ==
    ASSUME Sound, Numbered, NEW j \in Jobs, NEW p \in Requests,
           RunRequest(p, j) \/ MaterializeRequest(p, j)
    PROVE  Numbered'
<1>1. runs \in Nat /\ runs' = runs + 1 /\ UNCHANGED queue
  BY SoundParts DEF RunRequest, MaterializeRequest, BoundTypes
<1>2. p \in Processes /\ ProcessTypes
  BY SoundParts DEF Processes, ProcessSound
<1>3. /\ run' = [run EXCEPT ![p] = runs + 1]
      /\ \A q \in Processes \ {p} : kind'[q] = kind[q]
  BY <1>2 DEF RunRequest, MaterializeRequest, Take, ProcessTypes
<1>4. /\ \A q \in Processes \ {p} : run'[q] = run[q] /\ (Executes(q)' <=> Executes(q))
      /\ run'[p] = runs + 1
  BY <1>2, <1>3 DEF Executes, ProcessTypes
<1>5. \A n \in Range(queue) : n[3] \in Nat /\ n[3] <= runs
  BY SoundParts DEF Numbered, QueueTypes, Messages, Runs, Range
<1>6. \A q \in Processes : kind[q] # "none" => run[q] \in Nat /\ run[q] <= runs
  BY <1>2 DEF Numbered, ProcessTypes
<1>7. \A n : JobMessage(n)' <=> JobMessage(n)
  BY <1>1 DEF JobMessage
<1>8. \A q \in Processes \ {p} : Executes(q)' => run'[q] # run'[p]
  BY <1>1, <1>4, <1>6 DEF Executes
<1>9. \A n \in Messages : JobMessage(n) => n[3] # run'[p]
  BY <1>1, <1>4, <1>5 DEF JobMessage
<1>10. /\ \A q \in Processes : kind'[q] # "none" => run'[q] <= runs'
       /\ \A n \in Range(queue') : n[3] <= runs'
  BY <1>1, <1>3, <1>4, <1>5, <1>6
<1> QED BY <1>1, <1>4, <1>7, <1>8, <1>9, <1>10 DEF Numbered

LEMMA PopNumbered ==
    ASSUME Sound, Numbered, NEW w \in Workers, Pop(w)
    PROVE  Numbered'
<1> DEFINE m == Head(queue)
<1>1. queue \in Seq(Messages) /\ queue # <<>> /\ queue' = Tail(queue) /\ UNCHANGED runs
  BY SoundParts DEF Pop, QueueTypes, boundVars
<1>2. /\ m \in Range(queue) /\ IsInjective(queue') /\ Range(queue') = Range(queue) \ {m}
  BY <1>1, TailElements DEF Numbered
<1>3. w \in Processes /\ ProcessTypes /\ m \in Messages
  BY <1>1, SoundParts DEF Processes, ProcessSound
<1>4. /\ \A q \in Processes \ {w} : UNCHANGED <<kind[q], run[q]>>
      /\ \/ Executes(w)' /\ run'[w] = m[3] /\ m[1] = "job"
         \/ ~Executes(w)' /\ run'[w] = m[3]
         \/ UNCHANGED <<kind[w], run[w]>>
  BY <1>3 DEF Pop, Take, Executes, ProcessTypes, processVars
<1> HIDE DEF m
<1>5. \A n : JobMessage(n)' <=> JobMessage(n) /\ n # m
  BY <1>2 DEF JobMessage
<1>6. m[3] <= runs
  BY <1>2 DEF Numbered
<1>7. CASE UNCHANGED <<kind[w], run[w]>>
  BY <1>1, <1>2, <1>4, <1>5, <1>7 DEF Numbered, Executes
<1>8. CASE ~Executes(w)' /\ run'[w] = m[3]
  BY <1>1, <1>2, <1>4, <1>5, <1>6, <1>8 DEF Numbered, Executes
<1>9. CASE Executes(w)' /\ run'[w] = m[3] /\ m[1] = "job"
  <2>1. JobMessage(m)
    BY <1>2, <1>9 DEF JobMessage
  <2>2. \A q \in Processes \ {w} : Executes(q)' => run'[q] # run'[w]
    BY <1>3, <1>4, <1>9, <2>1 DEF Numbered, Executes
  <2>3. \A n \in Messages : JobMessage(n)' => n[3] # run'[w]
    BY <1>3, <1>5, <1>9, <2>1 DEF Numbered
  <2> QED BY <1>1, <1>2, <1>4, <1>5, <1>6, <1>9, <2>2, <2>3 DEF Numbered, Executes
<1> QED BY <1>4, <1>7, <1>8, <1>9

LEMMA FollowupNumbered ==
    ASSUME Sound, Numbered, Followed, NEW p \in Processes, StartFollowup(p)
    PROVE  Numbered'
<1>1. (\A q \in Processes : Kept(q)) /\ UNCHANGED runs
  BY OthersKept DEF Execute, StartFollowup, boundVars, Fault
<1>2. CASE UNCHANGED queue
  BY <1>1, <1>2, NumberedKept
<1>3. CASE queue' = Append(queue, <<"eval", NoJob, run[p]>>)
  <2> DEFINE m == <<"eval", NoJob, run[p]>>
  <2>1. kind[p] = "job" /\ run[p] \in Runs /\ pc[p] \in Early
    BY SoundParts DEF StartFollowup, ProcessSound, Shaped, ShapeOf, Early
  <2>2. m \in Messages /\ m[1] = "eval" /\ m[3] = run[p]
    BY <2>1 DEF Messages
  <2>3. run[p] <= runs /\ plan[run[p]] = "absent"
    BY <2>1 DEF Numbered, Followed
  <2>4. m \notin Range(queue)
    BY <2>2, <2>3 DEF Followed
  <2>5. Range(queue') = Range(queue) \cup {m} /\ IsInjective(queue')
    BY <1>3, <2>2, <2>4, AppendElement, SoundParts DEF QueueTypes, Numbered
  <2> HIDE DEF m
  <2>6. \A n : JobMessage(n)' <=> JobMessage(n)
    BY <2>2, <2>5 DEF JobMessage
  <2>7. \A q \in Processes : /\ Executes(q)' => Executes(q) /\ run'[q] = run[q]
                             /\ kind'[q] # "none" => kind[q] # "none" /\ run'[q] = run[q]
    BY <1>1 DEF Kept, Executes
  <2> QED BY <1>1, <2>2, <2>3, <2>5, <2>6, <2>7 DEF Numbered
<1> QED BY <1>2, <1>3 DEF StartFollowup

LEMMA NumberedStep == Sound /\ Numbered /\ Followed /\ [Next]_vars => Numbered'
<1> SUFFICES ASSUME Sound, Numbered, Followed, [Next]_vars PROVE Numbered'
  OBVIOUS
<1>1. ASSUME UNCHANGED <<queue, runs, pc, kind, job, run, outcome>> PROVE Numbered'
  BY <1>1, NumberedKept DEF Kept
<1>2. ASSUME NEW j \in Jobs, CancelJob(j) \/ DeleteJob(j) PROVE Numbered'
  BY <1>1, <1>2 DEF CancelJob, DeleteJob, Cancellation
<1>3. ASSUME NEW k \in Runs, CancelPlan(k) \/ DeletePlan(k) PROVE Numbered'
  BY <1>1, <1>3 DEF CancelPlan, DeletePlan, Cancellation, processVars
<1>4. ASSUME NEW w \in Workers, Crash(w) PROVE Numbered'
  <2>1. w \in Processes /\ ProcessTypes
    BY SoundParts DEF Processes, ProcessSound
  <2>2. \A q \in Processes : Kept(q)
    BY <1>4, <2>1 DEF Crash, Finish, FinishAnd, Goto, Kept, ProcessTypes
  <2> QED BY <1>4, <2>2, NumberedKept DEF Crash, Fault
<1>5. ASSUME NEW p \in Processes, ChildReports(p) \/ ChildExits(p) PROVE Numbered'
  BY <1>1, <1>5 DEF ChildReports, ChildExits, Fault, boundVars
<1>6. ASSUME NEW p \in Processes, Execute(p), ~StartFollowup(p) PROVE Numbered'
  <2>1. UNCHANGED <<queue, runs>>
    BY <1>6 DEF Execute, ReadJob, StartJob, Prepare, AcquireSlot, Install, Drain, Look,
                AwaitFollowup, CreateBranch, Push, Record, EndJob, Evaluate, Fault, boundVars
  <2> QED BY <1>6, <2>1, OthersKept, NumberedKept
<1>7. CASE UNCHANGED vars
  BY <1>1, <1>7 DEF vars, processVars, boundVars
<1> QED BY <1>2, <1>3, <1>4, <1>5, <1>6, <1>7, CreateNumbered, RequestNumbered, PopNumbered,
           FollowupNumbered DEF Next

-------------------------------------------------------------------------------
(* Follow-up runs. *)

(* No plan is written, and whoever is early or evaluates was so before.     *)
Onward(p) ==
    /\ kind'[p] = "job" /\ pc'[p] \in Early
         => kind[p] = "job" /\ pc[p] \in Early /\ run'[p] = run[p]
    /\ kind'[p] = "eval" => kind[p] = "eval" /\ run'[p] = run[p]

LEMMA FollowedKept ==
    ASSUME Followed, UNCHANGED <<planVars, queue, runs>>, \A p \in Processes : Onward(p)
    PROVE  Followed'
BY DEF Followed, Onward, planVars

LEMMA ExecuteOnward ==
    ASSUME Sound, NEW p \in Processes, Execute(p)
    PROVE  \A q \in Processes : Onward(q)
<1>1. ProcessTypes /\ ShapeOf(pc[p], kind[p], job[p], run[p], outcome[p])
  BY SoundParts DEF ProcessSound, Shaped
<1>2. \A q \in Processes : Kept(q) /\ (q # p => Onward(q))
  BY OthersKept DEF Onward
<1>3. pc[p] \in Early \/ pc'[p] \notin Early
  <2> USE <1>1 DEF Early, Optimizing, ProcessTypes, Goto, Finish, FinishAnd, StepTo, Leave, Spawn
  <2>1. CASE ReadJob(p) \/ StartJob(p) \/ Prepare(p) \/ AcquireSlot(p) \/ Drain(p) \/ Install(p)
    BY <2>1 DEF ReadJob, StartJob, Prepare, AcquireSlot, Drain, Install
  <2>2. CASE Look(p) \/ StartFollowup(p)
    BY <2>2 DEF Look, StartFollowup
  <2>3. CASE AwaitFollowup(p) \/ CreateBranch(p) \/ Push(p) \/ Record(p)
    BY <2>3 DEF AwaitFollowup, CreateBranch, Push, Record, Fails
  <2>4. CASE EndJob(p) \/ Evaluate(p)
    BY <2>4 DEF EndJob, Evaluate
  <2> QED BY <2>1, <2>2, <2>3, <2>4 DEF Execute
<1>4. "idle" \notin Early
  BY DEF Early, Optimizing
<1>5. Onward(p)
  BY <1>2, <1>3, <1>4 DEF Kept, Onward
<1> QED BY <1>2, <1>5

LEMMA PopFollowed ==
    ASSUME Sound, Numbered, Followed, NEW w \in Workers, Pop(w)
    PROVE  Followed'
<1> DEFINE m == Head(queue)
<1>1. queue \in Seq(Messages) /\ queue # <<>> /\ queue' = Tail(queue) /\ UNCHANGED runs
  BY SoundParts DEF Pop, QueueTypes, boundVars
<1>2. m \in Range(queue) /\ Range(queue') \subseteq Range(queue)
  BY <1>1, TailRange
<1>3. w \in Processes /\ ProcessTypes /\ m \in Messages /\ PlanTypes
  BY <1>1, SoundParts DEF Processes, ProcessSound
<1>4. m[3] \in Runs /\ UNCHANGED verdict
  BY <1>3 DEF Messages, Pop
<1>5. \/ m[1] = "job" /\ Take(w, "job", m[2], m[3], "read") /\ UNCHANGED plan
      \/ /\ plan[m[3]] = "queued" /\ plan' = [plan EXCEPT ![m[3]] = "running"]
         /\ \E place : Take(w, "eval", NoJob, m[3], place)
      \/ UNCHANGED <<processVars, plan>>
  BY DEF Pop
<1> HIDE DEF m
<1>6. CASE UNCHANGED <<processVars, plan>>
  BY <1>1, <1>2, <1>4, <1>6 DEF Followed, processVars
<1>7. CASE m[1] = "job" /\ Take(w, "job", m[2], m[3], "read") /\ UNCHANGED plan
  <2>1. /\ kind'[w] = "job" /\ run'[w] = m[3]
        /\ \A q \in Processes \ {w} : UNCHANGED <<pc[q], kind[q], run[q]>>
    BY <1>3, <1>7 DEF Take, Goto, ProcessTypes
  <2>2. plan[m[3]] = "absent"
    BY <1>2, <1>7 DEF Followed
  <2>3. \A q \in Processes : kind'[q] = "eval" => kind[q] = "eval" /\ run'[q] = run[q]
    BY <2>1
  <2>4. \A q \in Processes : kind'[q] = "job" /\ pc'[q] \in Early => plan[run'[q]] = "absent"
    BY <2>1, <2>2 DEF Followed
  <2> QED BY <1>1, <1>2, <1>4, <1>7, <2>3, <2>4 DEF Followed
<1>8. CASE /\ plan[m[3]] = "queued" /\ plan' = [plan EXCEPT ![m[3]] = "running"]
           /\ \E place : Take(w, "eval", NoJob, m[3], place)
  <2>1. /\ kind'[w] = "eval" /\ run'[w] = m[3]
        /\ \A q \in Processes \ {w} : UNCHANGED <<pc[q], kind[q], run[q]>>
    BY <1>3, <1>8 DEF Take, Goto, ProcessTypes
  <2>2. /\ plan'[m[3]] = "running" /\ plan[m[3]] = "queued"
        /\ \A k \in Runs \ {m[3]} : plan'[k] = plan[k]
    BY <1>3, <1>4, <1>8 DEF PlanTypes
  <2>3. \A k \in Runs : (plan'[k] = "absent" <=> plan[k] = "absent")
                         /\ (plan'[k] = "succeeded" => plan[k] = "succeeded")
    BY <2>2
  <2>4. \A n \in Range(queue) : n[3] \in Runs
    BY <1>1 DEF Range, Messages
  <2>5. \A q \in Processes : kind[q] \in {"job", "eval"} => run[q] \in Runs
    BY SoundParts DEF ProcessSound, Shaped, ShapeOf
  <2>6. \A q \in Processes \ {w} : kind[q] = "eval" => run[q] # m[3]
    BY <2>2 DEF Followed
  <2>7. \A q \in Processes :
          kind'[q] = "eval" => plan'[run'[q]] \in {"running", "canceled", "deleted"}
    BY <2>1, <2>2, <2>5, <2>6 DEF Followed
  <2>8. \A p, q \in Processes :
          kind'[p] = "eval" /\ kind'[q] = "eval" /\ run'[p] = run'[q] => p = q
    BY <2>1, <2>6 DEF Followed
  <2>9. \A q \in Processes : kind'[q] = "job" /\ pc'[q] \in Early => plan'[run'[q]] = "absent"
    BY <2>1, <2>3, <2>5 DEF Followed
  <2>10. \A n \in Range(queue') : n[1] = "job" <=> plan'[n[3]] = "absent"
    BY <1>2, <2>3, <2>4 DEF Followed
  <2> QED BY <1>1, <1>4, <2>3, <2>7, <2>8, <2>9, <2>10 DEF Followed
<1> QED BY <1>5, <1>6, <1>7, <1>8

(* The run of one plan is written, between states other than "absent".      *)
LEMMA PlanFollowed ==
    ASSUME Sound, Followed, NEW k \in Runs, NEW t, t # "absent", plan[k] # "absent",
           UNCHANGED <<queue, runs>>, \A p \in Processes : Onward(p),
           plan' = [plan EXCEPT ![k] = t], \A i \in Runs \ {k} : verdict'[i] = verdict[i],
           t = "succeeded" => verdict'[k] = "succeeded",
           \/ t \in {"running", "canceled", "deleted"}
           \/ \A p \in Processes : kind'[p] = "eval" => run'[p] # k
    PROVE  Followed'
<1>1. /\ plan'[k] = t /\ \A i \in Runs \ {k} : plan'[i] = plan[i]
      /\ \A i \in Runs : plan'[i] = "absent" <=> plan[i] = "absent"
  BY SoundParts DEF PlanTypes
<1>2. \A n \in Range(queue) : n[3] \in Runs
  BY SoundParts DEF QueueTypes, Range, Messages
<1>3. \A q \in Processes : kind[q] \in {"job", "eval"} => run[q] \in Runs
  BY SoundParts DEF ProcessSound, Shaped, ShapeOf
<1>4. /\ \A i \in Runs : i > runs' => plan'[i] = "absent"
      /\ \A n \in Range(queue') : n[1] = "job" <=> plan'[n[3]] = "absent"
      /\ \A i \in Runs : plan'[i] = "succeeded" => verdict'[i] = "succeeded"
  BY <1>1, <1>2 DEF Followed
<1>5. \A q \in Processes : kind'[q] = "job" /\ pc'[q] \in Early => plan'[run'[q]] = "absent"
  BY <1>1, <1>3 DEF Followed, Onward
<1>6. \A q \in Processes :
        kind'[q] = "eval" => plan'[run'[q]] \in {"running", "canceled", "deleted"}
  BY <1>1, <1>3 DEF Followed, Onward
<1>7. \A p, q \in Processes :
        kind'[p] = "eval" /\ kind'[q] = "eval" /\ run'[p] = run'[q] => p = q
  BY DEF Followed, Onward
<1> QED BY <1>4, <1>5, <1>6, <1>7 DEF Followed

LEMMA EvaluateFollowed ==
    ASSUME Sound, Followed, NEW w \in Processes, Evaluate(w)
    PROVE  Followed'
<1>1. kind[w] = "eval" /\ run[w] \in Runs
  BY SoundParts DEF Evaluate, ProcessSound, Shaped, ShapeOf
<1>2. plan[run[w]] \in {"running", "canceled", "deleted"}
  BY <1>1 DEF Followed
<1>3. UNCHANGED <<queue, runs>> /\ \A q \in Processes : Onward(q)
  BY ExecuteOnward DEF Execute, Evaluate, boundVars
<1>4. PICK v \in {"succeeded", "failed"} :
        /\ verdict' = [verdict EXCEPT ![run[w]] = v]
        /\ plan' = IF plan[run[w]] \in {"canceled", "deleted"} THEN plan
                   ELSE [plan EXCEPT ![run[w]] = v]
  BY DEF Evaluate
<1>5. /\ verdict'[run[w]] = v
      /\ \A i \in Runs \ {run[w]} : verdict'[i] = verdict[i]
  BY <1>1, <1>4, SoundParts DEF PlanTypes
<1>6. \A q \in Processes : kind'[q] = "eval" => run'[q] # run[w]
  <2>1. kind'[w] = "none" /\ \A q \in Processes : kind'[q] = "eval" => q # w /\ kind[q] = "eval"
    BY <1>3, SoundParts DEF Evaluate, Finish, FinishAnd, ProcessSound, ProcessTypes, Onward
  <2> QED BY <1>1, <1>3, <2>1 DEF Followed, Onward
<1>7. CASE plan[run[w]] \in {"canceled", "deleted"}
  <2>1. plan' = plan /\ \A i \in Runs : plan[i] = "succeeded" => verdict'[i] = "succeeded"
    BY <1>4, <1>5, <1>7 DEF Followed
  <2> QED BY <1>3, <2>1 DEF Followed, Onward
<1>8. CASE plan[run[w]] \notin {"canceled", "deleted"}
  <2>1. plan' = [plan EXCEPT ![run[w]] = v]
    BY <1>4, <1>8
  <2>2. v # "absent" /\ plan[run[w]] # "absent" /\ (v = "succeeded" => verdict'[run[w]] = "succeeded")
    BY <1>2, <1>5
  <2> QED BY <1>1, <1>3, <1>5, <1>6, <2>1, <2>2, PlanFollowed
<1> QED BY <1>7, <1>8

LEMMA StartFollowed ==
    ASSUME Sound, Numbered, Followed, NEW p \in Processes, StartFollowup(p)
    PROVE  Followed'
<1>1. UNCHANGED <<verdict, runs>> /\ \A q \in Processes : Onward(q)
  BY ExecuteOnward DEF Execute, StartFollowup, boundVars, Fault
<1>2. kind[p] = "job" /\ run[p] \in Runs /\ pc[p] \in Early
  BY SoundParts DEF StartFollowup, ProcessSound, Shaped, ShapeOf, Early
<1>3. plan[run[p]] = "absent" /\ run[p] <= runs /\ runs \in Nat
  BY <1>2, SoundParts DEF Followed, Numbered, BoundTypes
<1>4. CASE UNCHANGED <<plan, queue>>
  BY <1>1, <1>4, FollowedKept DEF planVars
<1>5. CASE /\ plan' = [plan EXCEPT ![run[p]] = "queued"]
           /\ queue' = Append(queue, <<"eval", NoJob, run[p]>>)
           /\ StepTo(p, "await")
  <2> DEFINE m == <<"eval", NoJob, run[p]>>
  <2>1. Range(queue') = Range(queue) \cup {m} /\ Range(queue) \subseteq Messages
        /\ m[1] = "eval" /\ m[3] = run[p]
    <3>1. queue \in Seq(Messages) /\ queue' = Append(queue, m)
      BY <1>5, SoundParts DEF QueueTypes
    <3>2. m \in Messages
      BY <1>2 DEF Messages
    <3>3. m[1] = "eval" /\ m[3] = run[p]
      OBVIOUS
    <3> HIDE DEF m
    <3>4. Range(queue') = Range(queue) \cup {m}
      BY <3>1, <3>2, AppendElement
    <3>5. Range(queue) \subseteq Messages
      BY <3>1 DEF Range
    <3> QED BY <3>3, <3>4, <3>5
  <2> HIDE DEF m
  <2>2. plan'[run[p]] = "queued" /\ \A i \in Runs \ {run[p]} : plan'[i] = plan[i]
    BY <1>2, <1>5, SoundParts DEF PlanTypes
  <2>3. \A n \in Range(queue) : n[3] \in Runs /\ n[3] # run[p]
    BY <1>2, <1>3, <2>1 DEF Followed, Numbered, JobMessage, Executes, Messages
  <2>4. \A n \in Range(queue') : n[1] = "job" <=> plan'[n[3]] = "absent"
    BY <2>1, <2>2, <2>3 DEF Followed
  <2>5. \A q \in Processes : kind[q] \in {"job", "eval"} => run[q] \in Runs
    BY SoundParts DEF ProcessSound, Shaped, ShapeOf
  <2>6. pc'[p] \notin Early
    BY <1>5, SoundParts DEF StepTo, Goto, ProcessSound, ProcessTypes, Early, Optimizing
  <2>7. \A q \in Processes : kind'[q] = "job" /\ pc'[q] \in Early => plan'[run'[q]] = "absent"
    BY <1>1, <1>2, <2>2, <2>5, <2>6 DEF Followed, Onward, Numbered, Executes
  <2>8. \A q \in Processes : kind'[q] = "eval" => kind[q] = "eval" /\ run'[q] = run[q]
                             /\ run[q] # run[p] /\ run[q] \in Runs
    BY <1>1, <1>3, <2>5 DEF Followed, Onward
  <2>9. /\ \A i \in Runs : i > runs' => plan'[i] = "absent"
        /\ \A i \in Runs : plan'[i] = "succeeded" => verdict'[i] = "succeeded"
    BY <1>1, <1>3, <2>2 DEF Followed, Runs
  <2> QED BY <2>2, <2>4, <2>7, <2>8, <2>9 DEF Followed
<1> QED BY <1>4, <1>5 DEF StartFollowup

LEMMA RequestFollowed ==
    ASSUME Sound, Numbered, Followed, NEW j \in Jobs,
           \/ CreateJob(j)
           \/ \E p \in Requests : RunRequest(p, j) \/ MaterializeRequest(p, j)
    PROVE  Followed'
<1>1. /\ runs \in Nat /\ runs' = runs + 1 /\ runs + 1 \in Runs /\ UNCHANGED planVars
      /\ plan[runs + 1] = "absent"
  BY SoundParts, ConstantsAssumption
     DEF CreateJob, RunRequest, MaterializeRequest, BoundTypes, Runs, ConstantsAssumption, Followed
<1>2. \A i \in Runs : i > runs' => plan[i] = "absent"
  BY <1>1 DEF Followed, Runs
<1>3. CASE CreateJob(j)
  <2> DEFINE m == <<"job", j, runs + 1>>
  <2>1. Range(queue') = Range(queue) \cup {m} /\ m[1] = "job" /\ m[3] = runs + 1
    <3>1. m \in Messages
      BY <1>1 DEF Messages
    <3> QED BY <1>3, <3>1, AppendElement, SoundParts DEF CreateJob, QueueTypes
  <2> HIDE DEF m
  <2>2. \A n \in Range(queue') : n[1] = "job" <=> plan[n[3]] = "absent"
    BY <1>1, <2>1 DEF Followed
  <2> QED BY <1>1, <1>2, <1>3, <2>2 DEF CreateJob, processVars, planVars, Followed
<1>4. ASSUME NEW p \in Requests, RunRequest(p, j) \/ MaterializeRequest(p, j) PROVE Followed'
  <2>1. p \in Processes /\ ProcessTypes
    BY SoundParts DEF Processes, ProcessSound
  <2>2. /\ \A q \in Processes \ {p} : UNCHANGED <<pc[q], kind[q], run[q]>>
        /\ kind'[p] # "eval" /\ run'[p] = runs + 1 /\ UNCHANGED queue
    BY <1>4, <2>1 DEF RunRequest, MaterializeRequest, Take, Goto, ProcessTypes
  <2>3. \A q \in Processes : kind'[q] = "job" /\ pc'[q] \in Early => plan[run'[q]] = "absent"
    BY <1>1, <2>2 DEF Followed
  <2>4. \A q \in Processes : kind'[q] = "eval" => kind[q] = "eval" /\ run'[q] = run[q]
    BY <2>2
  <2> QED BY <1>1, <1>2, <2>2, <2>3, <2>4 DEF planVars, Followed
<1> QED BY <1>3, <1>4

LEMMA FollowedStep == Sound /\ Numbered /\ Followed /\ [Next]_vars => Followed'
<1> SUFFICES ASSUME Sound, Numbered, Followed, [Next]_vars PROVE Followed'
  OBVIOUS
<1>1. ASSUME UNCHANGED <<planVars, queue, runs, pc, kind, run>> PROVE Followed'
  BY <1>1, FollowedKept DEF Onward
<1>2. ASSUME NEW j \in Jobs, CancelJob(j) \/ DeleteJob(j) PROVE Followed'
  BY <1>1, <1>2 DEF CancelJob, DeleteJob, Cancellation
<1>3. ASSUME NEW k \in Runs, CancelPlan(k) \/ DeletePlan(k) PROVE Followed'
  <2>1. /\ UNCHANGED <<queue, runs, verdict>> /\ \A p \in Processes : Onward(p)
        /\ plan[k] # "absent"
    BY <1>3 DEF CancelPlan, DeletePlan, Cancellation, processVars, Onward
  <2>2. \E t \in {"canceled", "deleted"} : plan' = [plan EXCEPT ![k] = t]
    BY <1>3 DEF CancelPlan, DeletePlan
  <2> QED BY <2>1, <2>2, PlanFollowed
<1>4. ASSUME NEW w \in Workers, Crash(w) PROVE Followed'
  <2>1. w \in Processes /\ ProcessTypes
    BY SoundParts DEF Processes, ProcessSound
  <2>2. \A q \in Processes : Onward(q)
    BY <1>4, <2>1 DEF Crash, Finish, FinishAnd, Goto, Onward, ProcessTypes
  <2> QED BY <1>4, <2>2, FollowedKept DEF Crash, Fault
<1>5. ASSUME NEW p \in Processes, ChildReports(p) \/ ChildExits(p) PROVE Followed'
  BY <1>1, <1>5 DEF ChildReports, ChildExits, Fault, boundVars
<1>6. ASSUME NEW p \in Processes, Execute(p), ~StartFollowup(p), ~Evaluate(p) PROVE Followed'
  <2>1. UNCHANGED <<planVars, queue, runs>>
    BY <1>6 DEF Execute, ReadJob, StartJob, Prepare, AcquireSlot, Install, Drain, Look,
                AwaitFollowup, CreateBranch, Push, Record, EndJob, Fault, boundVars
  <2> QED BY <1>6, <2>1, ExecuteOnward, FollowedKept
<1>7. CASE UNCHANGED vars
  BY <1>1, <1>7 DEF vars, processVars, boundVars
<1> QED BY <1>2, <1>3, <1>4, <1>5, <1>6, <1>7, RequestFollowed, PopFollowed, EvaluateFollowed,
           StartFollowed DEF Next

-------------------------------------------------------------------------------
(* The result of a follow-up run is final. *)
LEMMA FinalStays ==
    ASSUME Sound, Numbered, Followed, [Next]_vars, NEW k \in Runs, Final(k)
    PROVE  Final(k)'
<1>1. ASSUME UNCHANGED planVars, \A p \in Processes : Onward(p) PROVE Final(k)'
  BY <1>1 DEF Final, Onward, planVars
<1>2. ASSUME UNCHANGED <<planVars, kind, run>> PROVE Final(k)'
  BY <1>2 DEF Final, planVars
<1>3. ASSUME NEW j \in Jobs, CreateJob(j) \/ CancelJob(j) \/ DeleteJob(j) PROVE Final(k)'
  BY <1>2, <1>3 DEF CreateJob, CancelJob, DeleteJob, processVars
<1>4. ASSUME NEW j \in Jobs, NEW p \in Requests, RunRequest(p, j) \/ MaterializeRequest(p, j)
      PROVE  Final(k)'
  <2>1. p \in Processes /\ ProcessTypes
    BY SoundParts DEF Processes, ProcessSound
  <2>2. UNCHANGED planVars /\ \A q \in Processes : kind'[q] = "eval" =>
          kind[q] = "eval" /\ run'[q] = run[q]
    BY <1>4, <2>1 DEF RunRequest, MaterializeRequest, Take, ProcessTypes
  <2> QED BY <2>2 DEF Final, planVars
<1>5. ASSUME NEW i \in Runs, CancelPlan(i) \/ DeletePlan(i) PROVE Final(k)'
  BY <1>5, SoundParts DEF CancelPlan, DeletePlan, processVars, Final, PlanTypes
<1>6. ASSUME NEW w \in Workers, Pop(w) PROVE Final(k)'
  <2> DEFINE m == Head(queue)
  <2>1. w \in Processes /\ ProcessTypes /\ UNCHANGED verdict /\ m \in Messages
    BY <1>6, SoundParts DEF Processes, ProcessSound, Pop, QueueTypes
  <2> HIDE DEF m
  <2>2. CASE m[1] = "job" /\ Take(w, "job", m[2], m[3], "read") /\ UNCHANGED plan
    <3>1. \A q \in Processes : kind'[q] = "eval" => kind[q] = "eval" /\ run'[q] = run[q]
      BY <2>1, <2>2 DEF Take, ProcessTypes
    <3> QED BY <2>1, <2>2, <3>1 DEF Final
  <2>3. CASE /\ plan[m[3]] = "queued" /\ plan' = [plan EXCEPT ![m[3]] = "running"]
             /\ \E place : Take(w, "eval", NoJob, m[3], place)
    <3>1. m[3] # k
      BY <2>3 DEF Final
    <3>2. \A q \in Processes :
            kind'[q] = "eval" => \/ kind[q] = "eval" /\ run'[q] = run[q]
                                \/ run'[q] = m[3]
      BY <2>1, <2>3 DEF Take, ProcessTypes
    <3>3. plan'[k] = plan[k]
      BY <2>3, <3>1, SoundParts DEF PlanTypes
    <3> QED BY <2>1, <3>1, <3>2, <3>3 DEF Final
  <2>4. CASE UNCHANGED <<processVars, plan>>
    BY <1>2, <2>1, <2>4 DEF processVars, planVars
  <2> QED BY <1>6, <2>2, <2>3, <2>4 DEF Pop, m
<1>7. ASSUME NEW w \in Workers, Crash(w) PROVE Final(k)'
  <2>1. w \in Processes /\ ProcessTypes
    BY SoundParts DEF Processes, ProcessSound
  <2>2. \A q \in Processes : Onward(q)
    BY <1>7, <2>1 DEF Crash, Finish, FinishAnd, Goto, Onward, ProcessTypes
  <2> QED BY <1>1, <1>7, <2>2 DEF Crash
<1>8. ASSUME NEW p \in Processes, ChildReports(p) \/ ChildExits(p) PROVE Final(k)'
  BY <1>2, <1>8 DEF ChildReports, ChildExits
<1>9. ASSUME NEW p \in Processes, StartFollowup(p) PROVE Final(k)'
  <2>1. kind[p] = "job" /\ run[p] \in Runs /\ pc[p] \in Early
    BY <1>9, SoundParts DEF StartFollowup, ProcessSound, Shaped, ShapeOf, Early
  <2>2. run[p] # k
    BY <2>1 DEF Followed, Final
  <2>3. UNCHANGED verdict /\ plan'[k] = plan[k] /\ \A q \in Processes : Onward(q)
    BY <1>9, <2>1, <2>2, SoundParts, ExecuteOnward DEF StartFollowup, Execute, PlanTypes
  <2> QED BY <2>3 DEF Final, Onward
<1>10. ASSUME NEW p \in Processes, Evaluate(p) PROVE Final(k)'
  <2>1. kind[p] = "eval"
    BY <1>10, SoundParts DEF Evaluate, ProcessSound, Shaped, ShapeOf
  <2>2. run[p] # k
    BY <2>1 DEF Final
  <2>3. /\ verdict'[k] = verdict[k] /\ plan'[k] = plan[k]
        /\ \A q \in Processes : Onward(q)
    BY <1>10, <2>2, SoundParts, ExecuteOnward DEF Evaluate, Execute, PlanTypes
  <2> QED BY <2>3 DEF Final, Onward
<1>11. ASSUME NEW p \in Processes, Execute(p), ~StartFollowup(p), ~Evaluate(p) PROVE Final(k)'
  <2>1. UNCHANGED planVars
    BY <1>11 DEF Execute, ReadJob, StartJob, Prepare, AcquireSlot, Install, Drain, Look,
                 AwaitFollowup, CreateBranch, Push, Record, EndJob
  <2> QED BY <1>1, <1>11, <2>1, ExecuteOnward
<1>12. CASE UNCHANGED vars
  BY <1>2, <1>12 DEF vars, processVars
<1> QED BY <1>3, <1>4, <1>5, <1>6, <1>7, <1>8, <1>9, <1>10, <1>11, <1>12 DEF Next

(* A job gets as far as its branch only behind an evaluated run.             *)
LEMMA PublishedByAwait ==
    ASSUME Sound, [Next]_vars, NEW p \in Processes, Published(p)'
    PROVE  /\ run'[p] = run[p]
           /\ \/ Published(p)
              \/ kind[p] = "job" /\ plan[run[p]] = "succeeded" /\ UNCHANGED planVars
<1>1. ProcessTypes /\ ShapeOf(pc[p], kind[p], job[p], run[p], outcome[p])
  BY SoundParts DEF ProcessSound, Shaped
<1> USE DEF Published
<1>2. CASE UNCHANGED <<pc, kind, run, outcome>>
  BY <1>2
<1>3. ASSUME NEW q \in Processes \ {p}, UNCHANGED <<pc[p], kind[p], run[p], outcome[p]>>
      PROVE  run'[p] = run[p] /\ Published(p)
  BY <1>3
<1>4. ASSUME NEW j \in Jobs, CreateJob(j) \/ CancelJob(j) \/ DeleteJob(j)
      PROVE  UNCHANGED <<pc, kind, run, outcome>>
  BY <1>4 DEF CreateJob, CancelJob, DeleteJob, processVars
<1>5. ASSUME NEW j \in Jobs, NEW q \in Requests, RunRequest(q, j) \/ MaterializeRequest(q, j)
      PROVE  run'[p] = run[p] /\ Published(p)
  <2>1. pc[p] = "idle" => outcome[p] \notin Terminal
    BY <1>1 DEF ShapeOf
  <2> QED BY <1>1, <1>5, <2>1 DEF RunRequest, MaterializeRequest, Take, Goto, ProcessTypes, Terminal
<1>6. ASSUME NEW w \in Workers, Pop(w) PROVE run'[p] = run[p] /\ Published(p)
  <2>1. pc[p] = "idle" => outcome[p] \notin Terminal
    BY <1>1 DEF ShapeOf
  <2> QED BY <1>1, <1>6, <2>1 DEF Pop, Take, Goto, ProcessTypes, Terminal, processVars
<1>7. ASSUME NEW w \in Workers, Crash(w) PROVE run'[p] = run[p] /\ Published(p)
  BY <1>1, <1>7 DEF Crash, Finish, FinishAnd, Goto, ProcessTypes
<1>8. ASSUME NEW q \in Processes, Execute(q)
      PROVE  /\ run'[p] = run[p]
             /\ \/ Published(p)
                \/ kind[p] = "job" /\ plan[run[p]] = "succeeded" /\ UNCHANGED planVars
  <2>1. CASE p # q
    BY <1>8, <2>1, OthersKept
  <2>2. CASE p = q
    <3> USE <1>1, <2>2 DEF ProcessTypes, Goto, Finish, FinishAnd, StepTo, Leave, Spawn, ShapeOf,
                          Terminal
    <3>1. ~(ReadJob(p) \/ StartJob(p) \/ Prepare(p) \/ AcquireSlot(p) \/ Drain(p))
      BY DEF ReadJob, StartJob, Prepare, AcquireSlot, Drain, InstallRaises
    <3>2. ~(Look(p) \/ StartFollowup(p) \/ EndJob(p) \/ Evaluate(p))
      BY DEF Look, StartFollowup, EndJob, Evaluate
    <3>3. ~Install(p)
      BY DEF Install, InstallRaises, Installed
    <3>4. CASE AwaitFollowup(p)
      BY <3>4 DEF AwaitFollowup
    <3>5. CASE CreateBranch(p) \/ Push(p) \/ Record(p)
      BY <3>5 DEF CreateBranch, Push, Record, Fails
    <3> QED BY <1>8, <3>1, <3>2, <3>3, <3>4, <3>5 DEF Execute
  <2> QED BY <2>1, <2>2
<1>9. ASSUME NEW q \in Processes, ChildReports(q) \/ ChildExits(q)
      PROVE  UNCHANGED <<pc, kind, run, outcome>>
  BY <1>9 DEF ChildReports, ChildExits
<1>10. ASSUME NEW k \in Runs, CancelPlan(k) \/ DeletePlan(k)
       PROVE  UNCHANGED <<pc, kind, run, outcome>>
  BY <1>10 DEF CancelPlan, DeletePlan, processVars
<1> QED BY <1>2, <1>4, <1>5, <1>6, <1>7, <1>8, <1>9, <1>10 DEF Next, vars, processVars

LEMMA RecordedByEnd ==
    ASSUME Sound, [Next]_vars, ~\E p \in Processes : EndJob(p)
    PROVE  UNCHANGED recorded
BY DEF Next, vars, rowVars, CreateJob, CancelJob, DeleteJob, RunRequest, MaterializeRequest,
       CancelPlan, DeletePlan, Pop, Crash, ChildReports, ChildExits, Execute, ReadJob, StartJob,
       Prepare, AcquireSlot, Install, Drain, Look, StartFollowup, AwaitFollowup, CreateBranch,
       Push, Record, Evaluate

LEMMA EvaluatedStep == Sound /\ Numbered /\ Followed /\ Evaluated /\ [Next]_vars => Evaluated'
<1> SUFFICES ASSUME Sound, Numbered, Followed, Evaluated, [Next]_vars PROVE Evaluated'
  OBVIOUS
<1>1. ASSUME NEW p \in Processes, Published(p)' PROVE Final(run[p])' /\ run'[p] = run[p]
  <2>1. run'[p] = run[p] /\ kind'[p] = "job" /\ run'[p] \in Runs
    BY <1>1, SoundStep, SoundParts, PublishedByAwait DEF Published, ProcessSound, Shaped, ShapeOf
  <2>2. CASE Published(p)
    <3>1. PICK k \in Runs : k = run[p]
      BY <2>1
    <3>2. Final(k)
      BY <2>2, <3>1 DEF Evaluated
    <3>3. Final(k)'
      BY <3>2, FinalStays
    <3> QED BY <2>1, <3>1, <3>3 DEF Final
  <2>3. CASE kind[p] = "job" /\ plan[run[p]] = "succeeded" /\ UNCHANGED planVars
    <3>1. verdict[run[p]] = "succeeded"
      BY <2>1, <2>3 DEF Followed
    <3>2. \A q \in Processes : kind[q] = "eval" => run[q] # run[p]
      BY <2>3 DEF Followed
    <3>3. PICK k \in Runs : k = run[p]
      BY <2>1
    <3>4. Final(k)
      BY <2>3, <3>1, <3>2, <3>3 DEF Final
    <3>5. Final(k)'
      BY <3>4, FinalStays
    <3> QED BY <2>1, <3>3, <3>5 DEF Final
  <2> QED BY <1>1, <2>2, <2>3, PublishedByAwait
<1>2. \A p \in Processes : Published(p)' => Final(run[p])'
  BY <1>1
<1>3. ASSUME NEW j \in Jobs, recorded'[j] # 0 PROVE Final(recorded[j])'
  <2>1. recorded \in [Jobs -> 0..MaxRuns] /\ recorded' \in [Jobs -> 0..MaxRuns]
    BY SoundStep, SoundParts DEF RowTypes
  <2>2. PICK k \in Runs : k = recorded'[j]
    BY <1>3, <2>1, ConstantsAssumption DEF Runs, ConstantsAssumption
  <2>3. CASE recorded'[j] = recorded[j]
    <3>1. Final(k)
      BY <1>3, <2>2, <2>3 DEF Evaluated
    <3>2. Final(k)'
      BY <3>1, FinalStays
    <3> QED BY <2>2, <3>2 DEF Final
  <2>4. CASE recorded'[j] # recorded[j]
    <3>1. PICK p \in Processes : EndJob(p)
      BY <2>4, RecordedByEnd
    <3>2. outcome[p] = "succeeded" /\ k = run[p]
      BY <2>1, <2>2, <2>4, <3>1 DEF EndJob
    <3>3. kind[p] = "job"
      BY <3>2, SoundParts DEF ProcessSound, Shaped, ShapeOf
    <3>4. Final(k)
      BY <2>2, <3>2, <3>3 DEF Evaluated, Published
    <3>5. Final(k)'
      BY <3>4, FinalStays
    <3> QED BY <2>2, <3>5 DEF Final
  <2> QED BY <2>3, <2>4
<1> QED BY <1>2, <1>3 DEF Evaluated

-------------------------------------------------------------------------------
(* The branch of a job and what is pushed to it. *)

(* Whoever owns a branch has had it, and has pushed as much as before.      *)
StillOwns(p) == Owns(p)' => /\ Owns(p) /\ job'[p] = job[p]
                            /\ PushedOf(p)' = PushedOf(p)

LEMMA OwnedKept ==
    ASSUME Owned, UNCHANGED gitVars, \A p \in Processes : StillOwns(p),
           \A j \in Jobs : status'[j] = "succeeded" =>
             status[j] = "succeeded" /\ recorded'[j] = recorded[j]
    PROVE  Owned'
<1>1. UNCHANGED branch /\ UNCHANGED pushed
  BY DEF gitVars
<1>2. \A p \in Processes : Owns(p)' => job'[p] \in branch' /\ pushed'[job'[p]] = PushedOf(p)'
  BY <1>1 DEF Owned, StillOwns
<1>3. \A p, q \in Processes : Owns(p)' /\ Owns(q)' /\ job'[p] = job'[q] => p = q
  BY DEF Owned, StillOwns
<1>4. \A j \in Jobs : j \notin branch' => pushed'[j] = {}
  BY <1>1 DEF Owned
<1>5. \A j \in Jobs : status'[j] = "succeeded" =>
         /\ j \in branch' /\ recorded'[j] # 0 /\ pushed'[j] = {recorded'[j]}
         /\ \A p \in Processes : Owns(p)' => job'[p] # j
  BY <1>1 DEF Owned, StillOwns
<1> QED BY <1>2, <1>3, <1>4, <1>5 DEF Owned

LEMMA CreateBranchOwned ==
    ASSUME Sound, Owned, NEW p \in Processes, CreateBranch(p)
    PROVE  Owned'
<1>1. ProcessTypes /\ ShapeOf(pc[p], kind[p], job[p], run[p], outcome[p]) /\ GitTypes
  BY SoundParts DEF ProcessSound, Shaped
<1>2. UNCHANGED rowVars /\ UNCHANGED pushed
      /\ \A q \in Processes \ {p} : UNCHANGED <<pc[q], kind[q], job[q], run[q], outcome[q]>>
  BY OthersKept DEF CreateBranch, Execute
<1>3. \A q \in Processes \ {p} : StillOwns(q)
  BY <1>2 DEF StillOwns, Owns, PushedOf
<1>4. job[p] \in Jobs /\ outcome[p] # "succeeded"
  BY <1>1 DEF CreateBranch, ShapeOf, Terminal
<1>5. CASE Fails(p) /\ UNCHANGED branch
  <2>1. ~Owns(p)'
    BY <1>1, <1>5 DEF Fails, Finish, FinishAnd, Leave, Goto, ProcessTypes, Owns
  <2> QED BY <1>2, <1>3, <1>5, <2>1, OwnedKept DEF StillOwns, gitVars, rowVars
<1>6. CASE /\ job[p] \notin branch /\ branch' = branch \cup {job[p]} /\ StepTo(p, "push")
  <2>1. job' = job /\ pc'[p] = "push"
    BY <1>1, <1>6 DEF StepTo, Goto, ProcessTypes
  <2>2. pushed'[job[p]] = {} /\ PushedOf(p)' = {}
    BY <1>2, <1>4, <1>6, <2>1 DEF Owned, PushedOf
  <2>3. \A q \in Processes \ {p} : Owns(q)' => job[q] # job[p]
    BY <1>3, <1>6 DEF Owned, StillOwns
  <2>4. \A q \in Processes : Owns(q)' => job'[q] \in branch' /\ pushed'[job'[q]] = PushedOf(q)'
    BY SMTT(30), <1>2, <1>3, <1>6, <2>1, <2>2 DEF Owned, StillOwns
  <2>5. \A q, r \in Processes : Owns(q)' /\ Owns(r)' /\ job'[q] = job'[r] => q = r
    <3>1. \A q \in Processes \ {p} : Owns(q)' => Owns(q) /\ job'[q] = job[q]
      BY <1>3 DEF StillOwns
    <3> QED BY <2>1, <2>3, <3>1 DEF Owned
  <2>6. status[job[p]] # "succeeded"
    BY <1>4, <1>6 DEF Owned
  <2>7. \A j \in Jobs : status'[j] = "succeeded" =>
          /\ j \in branch' /\ recorded'[j] # 0 /\ pushed'[j] = {recorded'[j]}
          /\ \A q \in Processes : Owns(q)' => job'[q] # j
    BY <1>2, <1>3, <1>6, <2>1, <2>6 DEF Owned, StillOwns, rowVars
  <2>8. \A j \in Jobs : j \notin branch' => pushed'[j] = {}
    BY <1>2, <1>6 DEF Owned
  <2> QED BY <2>4, <2>5, <2>7, <2>8 DEF Owned
<1> QED BY <1>5, <1>6 DEF CreateBranch

LEMMA PushOwned ==
    ASSUME Sound, Owned, NEW p \in Processes, Push(p)
    PROVE  Owned'
<1>1. ProcessTypes /\ ShapeOf(pc[p], kind[p], job[p], run[p], outcome[p]) /\ GitTypes
  BY SoundParts DEF ProcessSound, Shaped
<1>2. UNCHANGED rowVars /\ UNCHANGED branch
      /\ \A q \in Processes \ {p} : UNCHANGED <<pc[q], kind[q], job[q], run[q], outcome[q]>>
  BY OthersKept DEF Push, Execute
<1>3. \A q \in Processes \ {p} : StillOwns(q)
  BY <1>2 DEF StillOwns, Owns, PushedOf
<1>4. job[p] \in Jobs /\ Owns(p) /\ pc[p] = "push"
  BY <1>1 DEF Push, ShapeOf, Owns
<1>5. job[p] \in branch /\ pushed[job[p]] = {} /\ status[job[p]] # "succeeded"
  BY <1>4 DEF Owned, PushedOf
<1>6. CASE Fails(p) /\ UNCHANGED pushed
  <2>1. ~Owns(p)'
    BY <1>1, <1>6 DEF Fails, Finish, FinishAnd, Leave, Goto, ProcessTypes, Owns
  <2> QED BY <1>2, <1>3, <1>6, <2>1, OwnedKept DEF StillOwns, gitVars, rowVars
<1>7. CASE /\ pushed' = [pushed EXCEPT ![job[p]] = @ \cup {run[p]}] /\ StepTo(p, "record")
  <2>1. job' = job /\ run' = run /\ pc'[p] = "record"
    BY <1>1, <1>7 DEF StepTo, Goto, ProcessTypes
  <2>2. /\ pushed'[job[p]] = {run[p]} /\ PushedOf(p)' = {run[p]}
        /\ \A j \in Jobs \ {job[p]} : pushed'[j] = pushed[j]
    BY <1>1, <1>4, <1>5, <1>7, <2>1 DEF GitTypes, PushedOf
  <2>3. \A q \in Processes \ {p} : Owns(q)' => job[q] # job[p]
    BY <1>3, <1>4 DEF Owned, StillOwns
  <2>4. \A q \in Processes : Owns(q)' => job'[q] \in branch' /\ pushed'[job'[q]] = PushedOf(q)'
    <3>1. \A q \in Processes : Owns(q) => job[q] \in Jobs
      BY <1>1 DEF Owned, GitTypes
    <3>2. job'[p] \in branch' /\ pushed'[job'[p]] = PushedOf(p)'
      BY <1>2, <1>5, <2>1, <2>2
    <3>3. ASSUME NEW q \in Processes \ {p}, Owns(q)'
          PROVE  job'[q] \in branch' /\ pushed'[job'[q]] = PushedOf(q)'
      <4>1. Owns(q) /\ job'[q] = job[q] /\ PushedOf(q)' = PushedOf(q) /\ job[q] # job[p]
        BY <1>3, <2>3, <3>3 DEF StillOwns
      <4>2. pushed'[job[q]] = pushed[job[q]]
        BY <2>2, <3>1, <4>1
      <4> QED BY <1>2, <4>1, <4>2 DEF Owned
    <3> QED BY <3>2, <3>3
  <2>5. \A q, r \in Processes : Owns(q)' /\ Owns(r)' /\ job'[q] = job'[r] => q = r
    <3>1. \A q \in Processes \ {p} : Owns(q)' => Owns(q) /\ job'[q] = job[q]
      BY <1>3 DEF StillOwns
    <3> QED BY <2>1, <2>3, <3>1 DEF Owned
  <2>6. \A j \in Jobs : status'[j] = "succeeded" =>
          /\ j \in branch' /\ recorded'[j] # 0 /\ pushed'[j] = {recorded'[j]}
          /\ \A q \in Processes : Owns(q)' => job'[q] # j
    BY <1>2, <1>3, <1>5, <2>1, <2>2 DEF Owned, StillOwns, rowVars
  <2>7. \A j \in Jobs : j \notin branch' => pushed'[j] = {}
    BY <1>2, <1>5, <2>2 DEF Owned
  <2> QED BY <2>4, <2>5, <2>6, <2>7 DEF Owned
<1> QED BY <1>6, <1>7 DEF Push

LEMMA EndJobOwned ==
    ASSUME Sound, Owned, NEW p \in Processes, EndJob(p)
    PROVE  Owned'
<1>1. ProcessTypes /\ RowTypes /\ ShapeOf(pc[p], kind[p], job[p], run[p], outcome[p])
  BY SoundParts DEF ProcessSound, Shaped
<1>2. UNCHANGED gitVars
      /\ \A q \in Processes \ {p} : UNCHANGED <<pc[q], kind[q], job[q], run[q], outcome[q]>>
  BY OthersKept DEF EndJob, Execute
<1>3. \A q \in Processes \ {p} : StillOwns(q)
  BY <1>2 DEF StillOwns, Owns, PushedOf
<1>4. ~Owns(p)'
  BY <1>1 DEF EndJob, FinishAnd, Goto, ProcessTypes, Owns
<1>5. job[p] \in Jobs /\ run[p] \in Runs /\ pc[p] = "end"
  BY <1>1 DEF EndJob, ShapeOf
<1>6. \A j \in Jobs : status'[j] = "succeeded" =>
        \/ status[j] = "succeeded" /\ recorded'[j] = recorded[j]
        \/ j = job[p] /\ outcome[p] = "succeeded" /\ recorded'[j] = run[p]
  BY <1>1, <1>5 DEF EndJob, SetStatus, RowTypes
<1>7. ASSUME outcome[p] = "succeeded"
      PROVE  /\ job[p] \in branch /\ run[p] # 0 /\ pushed[job[p]] = {run[p]}
             /\ \A q \in Processes \ {p} : Owns(q) => job[q] # job[p]
  <2>1. Owns(p) /\ PushedOf(p) = {run[p]} /\ run[p] # 0
    BY <1>5, <1>7 DEF Owns, PushedOf, Runs
  <2> QED BY <2>1 DEF Owned
<1>8. \A q \in Processes : Owns(q)' => q # p /\ Owns(q) /\ job'[q] = job[q]
  BY <1>3, <1>4 DEF StillOwns
<1>9. \A j \in Jobs : status'[j] = "succeeded" =>
         /\ j \in branch /\ recorded'[j] # 0 /\ pushed[j] = {recorded'[j]}
         /\ \A q \in Processes : Owns(q)' => job'[q] # j
  BY <1>6, <1>7, <1>8 DEF Owned
<1>10. UNCHANGED branch /\ UNCHANGED pushed
  BY <1>2 DEF gitVars
<1>11. \A q \in Processes : Owns(q)' => job'[q] \in branch' /\ pushed'[job'[q]] = PushedOf(q)'
  BY <1>3, <1>4, <1>10 DEF Owned, StillOwns
<1>12. \A q, r \in Processes : Owns(q)' /\ Owns(r)' /\ job'[q] = job'[r] => q = r
  BY <1>8 DEF Owned
<1> QED BY <1>9, <1>10, <1>11, <1>12 DEF Owned

LEMMA OwnedStep == Sound /\ Owned /\ [Next]_vars => Owned'
<1> SUFFICES ASSUME Sound, Owned, [Next]_vars PROVE Owned'
  OBVIOUS
<1> USE SoundParts
<1>1. ASSUME UNCHANGED <<gitVars, rowVars>>, \A p \in Processes : StillOwns(p) PROVE Owned'
  BY <1>1, OwnedKept DEF rowVars
<1>2. ASSUME UNCHANGED <<gitVars, pc, kind, job, run, outcome>>,
             \A j \in Jobs : status'[j] = "succeeded" =>
               status[j] = "succeeded" /\ recorded'[j] = recorded[j]
      PROVE  Owned'
  BY <1>2, OwnedKept DEF StillOwns, Owns, PushedOf
<1>3. ASSUME NEW j \in Jobs, CreateJob(j) \/ CancelJob(j) \/ DeleteJob(j) PROVE Owned'
  BY <1>2, <1>3 DEF CreateJob, CancelJob, DeleteJob, processVars, RowTypes
<1>4. ASSUME NEW k \in Runs, CancelPlan(k) \/ DeletePlan(k) PROVE Owned'
  BY <1>2, <1>4 DEF CancelPlan, DeletePlan, processVars, rowVars
<1>5. ASSUME NEW p \in Processes, pc[p] = "idle",
             \/ \E j \in Jobs : RunRequest(p, j) \/ MaterializeRequest(p, j)
             \/ Pop(p)
      PROVE  \A q \in Processes : StillOwns(q)
  <2>1. ProcessTypes /\ outcome[p] # "succeeded"
    BY <1>5 DEF ProcessSound, Shaped, ShapeOf, Terminal
  <2>2. CASE Pop(p)
    BY ZenonT(60), <1>5, <2>1, <2>2 DEF Pop, Take, Goto, ProcessTypes, processVars, StillOwns,
                                        Owns, PushedOf
  <2>3. ASSUME NEW j \in Jobs, RunRequest(p, j)
        PROVE  \A q \in Processes : StillOwns(q)
    BY <1>5, <2>1, <2>3 DEF RunRequest, Take, Goto, ProcessTypes, processVars, StillOwns, Owns,
                            PushedOf
  <2>4. ASSUME NEW j \in Jobs, MaterializeRequest(p, j)
        PROVE  \A q \in Processes : StillOwns(q)
    BY <1>5, <2>1, <2>4 DEF MaterializeRequest, Take, Goto, ProcessTypes, processVars, StillOwns,
                            Owns, PushedOf
  <2> QED BY <1>5, <2>2, <2>3, <2>4
<1>6. ASSUME NEW w \in Workers, Pop(w) PROVE Owned'
  BY <1>1, <1>5, <1>6 DEF Pop, Processes
<1>7. ASSUME NEW j \in Jobs, NEW p \in Requests, RunRequest(p, j) \/ MaterializeRequest(p, j)
      PROVE  Owned'
  BY <1>1, <1>5, <1>7 DEF RunRequest, MaterializeRequest, Processes
<1>8. ASSUME NEW w \in Workers, Crash(w) PROVE Owned'
  <2>1. w \in Processes /\ ProcessTypes
    BY DEF Processes, ProcessSound
  <2>2. \A q \in Processes : StillOwns(q)
    BY <1>8, <2>1 DEF Crash, Finish, FinishAnd, Goto, ProcessTypes, StillOwns, Owns, PushedOf
  <2> QED BY <1>1, <1>8, <2>2 DEF Crash
<1>9. ASSUME NEW p \in Processes, ChildReports(p) \/ ChildExits(p) PROVE Owned'
  BY <1>2, <1>9 DEF ChildReports, ChildExits, rowVars
<1>10. ASSUME NEW p \in Processes, StartJob(p) PROVE Owned'
  <2>1. ProcessTypes /\ ShapeOf(pc[p], kind[p], job[p], run[p], outcome[p])
    BY DEF ProcessSound, Shaped
  <2>2. \A q \in Processes : StillOwns(q)
    BY <1>10, <2>1 DEF StartJob, Goto, ProcessTypes, StillOwns, Owns, PushedOf, ShapeOf, Terminal
  <2>3. \A j \in Jobs : status'[j] = "succeeded" =>
          status[j] = "succeeded" /\ recorded'[j] = recorded[j]
    BY <1>10 DEF StartJob, SetStatus, RowTypes
  <2> QED BY <1>10, <2>2, <2>3, OwnedKept DEF StartJob
<1>11. ASSUME NEW p \in Processes,
              \/ ReadJob(p) \/ Prepare(p) \/ AcquireSlot(p) \/ Install(p) \/ Drain(p)
              \/ Look(p) \/ StartFollowup(p) \/ AwaitFollowup(p) \/ Evaluate(p) \/ Record(p)
       PROVE  Owned'
  <2>1. ProcessTypes /\ ShapeOf(pc[p], kind[p], job[p], run[p], outcome[p])
    BY DEF ProcessSound, Shaped
  <2> USE DEF ProcessTypes, Goto, Finish, FinishAnd, StepTo, Leave, Spawn, ShapeOf, Terminal,
              InstallRaises, Installed, Fails, Owns, PushedOf
  <2>2. CASE ReadJob(p) \/ Prepare(p) \/ AcquireSlot(p) \/ Install(p) \/ Drain(p)
    <3>1. ~Owns(p)'
      BY <2>1, <2>2 DEF ReadJob, Prepare, AcquireSlot, Install, Drain
    <3>2. \A q \in Processes : StillOwns(q)
      BY SMTT(30), <1>11, <3>1, OthersKept DEF Execute, StillOwns
    <3> QED BY <1>1, <2>2, <3>2 DEF ReadJob, Prepare, AcquireSlot, Install, Drain
  <2>3. CASE Look(p) \/ StartFollowup(p) \/ AwaitFollowup(p) \/ Evaluate(p)
    <3>1. ~Owns(p)'
      <4>1. CASE Look(p)
        BY <2>1, <4>1 DEF Look
      <4>2. CASE StartFollowup(p)
        BY <2>1, <4>2 DEF StartFollowup
      <4>3. CASE AwaitFollowup(p)
        BY <2>1, <4>3 DEF AwaitFollowup
      <4>4. CASE Evaluate(p)
        BY <2>1, <4>4 DEF Evaluate
      <4> QED BY <2>3, <4>1, <4>2, <4>3, <4>4
    <3>2. \A q \in Processes : StillOwns(q)
      BY SMTT(30), <1>11, <3>1, OthersKept DEF Execute, StillOwns
    <3> QED BY <1>1, <2>3, <3>2 DEF Look, StartFollowup, AwaitFollowup, Evaluate
  <2>4. CASE Record(p)
    <3>1. StillOwns(p)
      BY <2>1, <2>4 DEF Record, StillOwns
    <3>2. \A q \in Processes : StillOwns(q)
      BY <1>11, <3>1, OthersKept DEF Execute, StillOwns
    <3> QED BY <1>1, <2>4, <3>2 DEF Record
  <2> QED BY <1>11, <2>2, <2>3, <2>4
<1>12. CASE UNCHANGED vars
  BY <1>2, <1>12 DEF vars, processVars, rowVars
<1> QED BY <1>3, <1>4, <1>6, <1>7, <1>8, <1>9, <1>10, <1>11, <1>12, CreateBranchOwned, PushOwned,
           EndJobOwned DEF Next, Execute

LEMMA InitInvariant == Init => Numbered /\ Followed /\ Evaluated /\ Owned /\ CanceledIsSeen
<1> SUFFICES ASSUME Init PROVE Numbered /\ Followed /\ Evaluated /\ Owned /\ CanceledIsSeen
  OBVIOUS
<1> USE DEF Init
<1>1. Range(queue) = {}
  BY DEF Range
<1>2. Numbered
  BY <1>1 DEF Numbered, Executes, JobMessage, IsInjective
<1>3. Followed
  BY <1>1 DEF Followed, Early, Optimizing
<1>4. Evaluated
  BY DEF Evaluated, Published
<1>5. Owned
  BY DEF Owned, Owns
<1> QED BY <1>2, <1>3, <1>4, <1>5 DEF CanceledIsSeen

(* A job that says it succeeded names an execution whose follow-up run       *)
(* succeeded and whose commit is the only one pushed to the job's branch,    *)
(* for any number of workers and requests that execute it at once.          *)
THEOREM SuccessIsRecorded == Spec => []SucceededAsRecorded
<1> DEFINE Inv == Sound /\ Numbered /\ Followed /\ Evaluated /\ Owned
<1>1. Init => Inv
  BY InitSound, InitInvariant
<1>2. Inv /\ [Next]_vars => Inv'
  BY SoundStep, NumberedStep, FollowedStep, EvaluatedStep, OwnedStep
<1>3. Inv => SucceededAsRecorded
  BY DEF Evaluated, Owned, Final, SucceededAsRecorded
<1> QED BY <1>1, <1>2, <1>3, PTL DEF Spec

-------------------------------------------------------------------------------
(* Cancellations. *)

(* Nobody else is touched by the steps of an execution that neither starts   *)
(* nor ends its job.                                                        *)
LEMMA OthersSeen ==
    ASSUME Sound, CanceledIsSeen, NEW p \in Processes, Execute(p), UNCHANGED status,
           inTime' = inTime \/ inTime' = inTime \ {p},
           p \in inTime' => \/ /\ pc'[p] \in Optimizing /\ kind'[p] = "job"
                               /\ status[job'[p]] = "canceled"
                            \/ pc'[p] = "end" /\ outcome'[p] # "succeeded"
    PROVE  CanceledIsSeen'
<1>1. inTime \subseteq Processes
  BY SoundParts DEF ProcessSound, ProcessTypes
<1>2. \A q \in inTime' : q # p => UNCHANGED <<pc[q], kind[q], job[q], outcome[q]>> /\ q \in inTime
  BY <1>1, OthersKept
<1> QED BY <1>2 DEF CanceledIsSeen

LEMMA CanceledStep == Sound /\ CanceledIsSeen /\ [Next]_vars => CanceledIsSeen'
<1> SUFFICES ASSUME Sound, CanceledIsSeen, [Next]_vars PROVE CanceledIsSeen'
  OBVIOUS
<1> USE SoundParts
<1>1. ASSUME UNCHANGED <<inTime, pc, kind, job, outcome>>,
             \A j \in Jobs : status[j] = "canceled" => status'[j] = "canceled"
      PROVE  CanceledIsSeen'
  BY <1>1 DEF CanceledIsSeen, ProcessSound, ProcessTypes, Shaped, ShapeOf
<1>2. ASSUME NEW j \in Jobs, CreateJob(j) PROVE CanceledIsSeen'
  BY <1>1, <1>2 DEF CreateJob, processVars, RowTypes
<1>3. ASSUME NEW j \in Jobs, CancelJob(j) PROVE CanceledIsSeen'
  <2>1. status'[j] = "canceled" /\ \A i \in Jobs \ {j} : status'[i] = status[i]
    BY <1>3 DEF CancelJob, RowTypes
  <2>2. \A p \in Processes : pc[p] \in Optimizing /\ job[p] = j => kind[p] = "job"
    BY ConstantsAssumption
       DEF ProcessSound, Shaped, ShapeOf, Optimizing, ConstantsAssumption
  <2>3. \A p \in inTime : p \in Processes /\ (kind[p] = "job" => job[p] \in Jobs)
    BY DEF ProcessSound, ProcessTypes, Shaped, ShapeOf
  <2> QED BY <1>3, <2>1, <2>2, <2>3 DEF CancelJob, CanceledIsSeen
<1>4. ASSUME NEW j \in Jobs, DeleteJob(j) PROVE CanceledIsSeen'
  <2>1. \A i \in Jobs \ {j} : status'[i] = status[i]
    BY <1>4 DEF DeleteJob, RowTypes
  <2>2. \A p \in inTime : p \in Processes /\ (kind[p] = "job" => job[p] \in Jobs)
    BY DEF ProcessSound, ProcessTypes, Shaped, ShapeOf
  <2> QED BY <1>4, <2>1, <2>2 DEF DeleteJob, StillSeen, CanceledIsSeen
<1>5. ASSUME NEW k \in Runs, CancelPlan(k) \/ DeletePlan(k) PROVE CanceledIsSeen'
  BY <1>1, <1>5 DEF CancelPlan, DeletePlan, processVars, rowVars
<1>6. ASSUME NEW p \in Processes, pc[p] = "idle", UNCHANGED status,
             \/ \E j \in Jobs : RunRequest(p, j) \/ MaterializeRequest(p, j)
             \/ Pop(p)
      PROVE  CanceledIsSeen'
  <2>1. p \notin inTime /\ ProcessTypes
    BY <1>6 DEF CanceledIsSeen, Optimizing, ProcessSound
  <2> QED BY <1>6, <2>1 DEF RunRequest, MaterializeRequest, Pop, Take, Goto, ProcessTypes,
                            processVars, CanceledIsSeen
<1>7. ASSUME NEW w \in Workers, Crash(w) PROVE CanceledIsSeen'
  <2>1. w \in Processes /\ ProcessTypes
    BY DEF Processes, ProcessSound
  <2> QED BY <1>7, <2>1 DEF Crash, Finish, FinishAnd, Goto, ProcessTypes, rowVars, CanceledIsSeen
<1>8. ASSUME NEW p \in Processes, ChildReports(p) \/ ChildExits(p) PROVE CanceledIsSeen'
  BY <1>1, <1>8 DEF ChildReports, ChildExits, rowVars
<1>9. ASSUME NEW p \in Processes, StartJob(p) PROVE CanceledIsSeen'
  <2>1. ProcessTypes /\ kind[p] = "job" /\ job[p] \in Jobs
    BY <1>9 DEF StartJob, ProcessSound, Shaped, ShapeOf
  <2>2. p \notin inTime
    BY <1>9 DEF StartJob, CanceledIsSeen, Optimizing
  <2>3. \A j \in Jobs \ {job[p]} : status'[j] = status[j]
    BY <1>9, <2>1 DEF StartJob, SetStatus, RowTypes
  <2>4. inTime' = {q \in inTime : job[q] # job[p]} /\ UNCHANGED <<kind, job, outcome>>
    BY <1>9 DEF StartJob, StillSeen
  <2>5. \A q \in inTime : /\ q \in Processes /\ (kind[q] = "job" => job[q] \in Jobs)
                          /\ pc'[q] = pc[q]
    BY <1>9, <2>1, <2>2 DEF StartJob, Goto, ProcessTypes, ProcessSound, Shaped, ShapeOf
  <2> QED BY <2>3, <2>4, <2>5 DEF CanceledIsSeen
<1>10. ASSUME NEW p \in Processes, EndJob(p) PROVE CanceledIsSeen'
  <2>1. ProcessTypes /\ kind[p] = "job" /\ job[p] \in Jobs
    BY <1>10 DEF EndJob, ProcessSound, Shaped, ShapeOf
  <2>2. /\ \A j \in Jobs \ {job[p]} : status'[j] = status[j]
        /\ status'[job[p]] \in {outcome[p], status[job[p]]}
    BY <1>10, <2>1 DEF EndJob, SetStatus, RowTypes
  <2>3. /\ p \notin inTime'
        /\ inTime' \subseteq inTime
        /\ outcome[p] # "canceled" => \A q \in inTime' : job[q] # job[p]
    BY <1>10 DEF EndJob, FinishAnd, StillSeen
  <2>4. \A q \in inTime' : /\ q \in Processes /\ (kind[q] = "job" => job[q] \in Jobs)
                           /\ UNCHANGED <<pc[q], kind[q], job[q], outcome[q]>>
    BY <1>10, <2>3, OthersKept DEF ProcessTypes, ProcessSound, Shaped, ShapeOf, Execute
  <2> QED BY <2>2, <2>3, <2>4 DEF CanceledIsSeen
<1>11. ASSUME NEW p \in Processes,
              \/ ReadJob(p) \/ Prepare(p) \/ AcquireSlot(p) \/ Install(p) \/ Drain(p)
              \/ Look(p) \/ StartFollowup(p) \/ AwaitFollowup(p) \/ CreateBranch(p)
              \/ Push(p) \/ Evaluate(p) \/ Record(p)
       PROVE  CanceledIsSeen'
  <2>1. ProcessTypes /\ ShapeOf(pc[p], kind[p], job[p], run[p], outcome[p])
    BY DEF ProcessSound, Shaped
  <2>2. p \in inTime => \/ pc[p] \in Optimizing /\ kind[p] = "job" /\ status[job[p]] = "canceled"
                        \/ pc[p] = "end"
    BY DEF CanceledIsSeen
  <2> USE DEF ProcessTypes, Goto, Finish, FinishAnd, StepTo, Leave, Spawn, Optimizing,
              InstallRaises, Installed, Fails, rowVars
  <2>3. CASE ReadJob(p) \/ Drain(p)
    <3>1. UNCHANGED status /\ inTime' \in {inTime, inTime \ {p}} /\ (p \in inTime' => p \in inTime)
      BY <2>3 DEF ReadJob, Drain
    <3>2. p \in inTime' => /\ pc'[p] = "look" /\ kind' = kind /\ job' = job
                           /\ kind[p] = "job" /\ status[job[p]] = "canceled"
      BY <2>1, <2>2, <2>3, <3>1 DEF ReadJob, Drain
    <3>3. p \in inTime' => /\ pc'[p] \in Optimizing /\ kind'[p] = "job"
                           /\ status[job'[p]] = "canceled"
      BY <3>2
    <3>4. Execute(p)
      BY <1>11 DEF Execute
    <3> HIDE DEF Optimizing
    <3> QED BY <3>1, <3>3, <3>4, OthersSeen
  <2>4. CASE Prepare(p)
    <3>1. UNCHANGED <<status, inTime, kind, job>>
      BY <2>4 DEF Prepare
    <3>2. \/ pc'[p] \in {"slot", "drain"}
          \/ pc'[p] = "end" /\ outcome'[p] = "failed"
      BY <2>1, <2>4 DEF Prepare
    <3>3. p \in inTime => pc[p] = "prepare" /\ kind[p] = "job" /\ status[job[p]] = "canceled"
      BY <2>2, <2>4 DEF Prepare
    <3> QED BY <1>11, <3>1, <3>2, <3>3, OthersSeen DEF Execute
  <2>5. CASE AcquireSlot(p)
    BY <1>11, <2>1, <2>2, <2>5, OthersSeen DEF AcquireSlot, IsCanceled, Execute
  <2>6. CASE Install(p)
    <3>1. UNCHANGED status /\ inTime' \in {inTime, inTime \ {p}}
      BY <2>6 DEF Install
    <3>2. p \in inTime => pc'[p] = "end" /\ outcome'[p] # "succeeded"
      BY <2>1, <2>2, <2>6 DEF Install, IsCanceled
    <3>3. Execute(p)
      BY <1>11 DEF Execute
    <3> QED BY <3>1, <3>2, <3>3, OthersSeen
  <2>7. CASE Look(p)
    BY SMTT(30), <1>11, <2>1, <2>2, <2>7, OthersSeen DEF Look, Execute
  <2>8. CASE StartFollowup(p) \/ AwaitFollowup(p) \/ CreateBranch(p)
    BY <1>11, <2>1, <2>2, <2>8, OthersSeen DEF StartFollowup, AwaitFollowup, CreateBranch, Execute
  <2>9. CASE Push(p) \/ Evaluate(p) \/ Record(p)
    BY <1>11, <2>1, <2>2, <2>9, OthersSeen DEF Push, Evaluate, Record, Execute
  <2> QED BY <1>11, <2>3, <2>5, <2>6, <2>7, <2>8, <2>9, <2>4
<1>12. CASE UNCHANGED vars
  BY <1>1, <1>12 DEF vars, processVars, rowVars
<1>13. \A p \in Processes : Pop(p) => pc[p] = "idle" /\ UNCHANGED status
  BY DEF Pop, rowVars
<1>14. \A p \in Processes, j \in Jobs :
         RunRequest(p, j) \/ MaterializeRequest(p, j) => pc[p] = "idle" /\ UNCHANGED status
  BY DEF RunRequest, MaterializeRequest, rowVars
<1> QED BY <1>2, <1>3, <1>4, <1>5, <1>6, <1>7, <1>8, <1>9, <1>10, <1>11, <1>12, <1>13, <1>14
        DEF Next, Execute, Processes

(* A cancellation that reaches a job while it is prepared, installs or       *)
(* optimizes is not answered with a result, unless another execution or a    *)
(* deletion overwrote it in the row.                                        *)
THEOREM CancellationIsHeard == Spec => []CanceledInTimeHasNoResult
<1> DEFINE Inv == Sound /\ CanceledIsSeen
<1>1. Init => Inv
  BY InitSound, InitInvariant
<1>2. Inv /\ [Next]_vars => Inv'
  BY SoundStep, CanceledStep
<1>3. Inv => CanceledInTimeHasNoResult
  BY SoundParts DEF CanceledIsSeen, CanceledInTimeHasNoResult, ProcessSound, ProcessTypes, Shaped,
                    ShapeOf, Optimizing, Terminal
<1> QED BY <1>1, <1>2, <1>3, PTL DEF Spec
===============================================================================
