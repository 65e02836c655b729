--------------------------- MODULE OptimizationJobs ---------------------------
(***************************************************************************)
(* Optimization jobs: the rows of optimization_jobs, the Redis list they   *)
(* share with evaluation runs, the workers and requests that run a job,    *)
(* its child process, the follow-up evaluation run it starts and waits     *)
(* for, and the git branch its result is pushed to.                        *)
(*                                                                         *)
(* One action is one statement, or the reads before it that nothing is     *)
(* decided between.  A follow-up run is taken as a whole here (EvalRuns     *)
(* has its tasks); logs, telemetry and payloads are left out.              *)
(***************************************************************************)
EXTENDS Naturals, Sequences, FiniteSets

CONSTANTS
    Jobs, NoJob,
    Workers,       \* worker processes
    Requests,      \* requests the backend runs itself
    InstallLimit,  \* bundle_install_max_concurrency
    MaxRuns,       \* bound: executions of jobs
    MaxCancels,    \* bound: cancellations and deletions
    MaxFaults      \* bound: crashes, failed steps

ASSUME ConstantsAssumption ==
    /\ NoJob \notin Jobs
    /\ Workers \cap Requests = {}
    /\ InstallLimit \in Nat \ {0}
    /\ {MaxRuns, MaxCancels, MaxFaults} \subseteq Nat

VARIABLES
    status,     \* of every job
    queue,      \* the Redis list, oldest message first
    pc, kind,   \* where a process is, and in what
    job, run,   \* the job it is on, and the number of the execution
    child,      \* its child process and what that has put in its queue
    payload,    \* what the process has taken from there
    outcome,    \* what it is going to write
    holding,    \* processes that hold an install slot
    plan,       \* status of the follow-up run of every execution
    verdict,    \* how that run was evaluated
    branch,     \* jobs whose branch exists in the checkout
    pushed,     \* executions whose commit was pushed, by job
    recorded,   \* the execution a job's row refers to
    inTime,     \* processes whose job was canceled before they used a result
    runs, cancels, faults

Processes == Workers \cup Requests
Runs == 1..MaxRuns

rowVars == <<status, recorded>>
processVars == <<pc, kind, job, run, child, payload, outcome, inTime>>
planVars == <<plan, verdict>>
gitVars == <<branch, pushed>>
boundVars == <<runs, cancels, faults>>
vars == <<rowVars, queue, processVars, holding, planVars, gitVars, boundVars>>

Terminal == {"succeeded", "failed", "canceled"}
Statuses == Terminal \cup {"absent", "queued", "running", "deleted"}
PlanStatuses == Statuses
Results == {"none", "ok", "error"}
NoChild == [alive |-> FALSE, result |-> "none"]

Optimizing == {"prepare", "slot", "install", "drain", "look"}
Places == Optimizing \cup {"idle", "read", "start", "copy", "await", "branch",
                           "push", "record", "end", "evaluate"}

Init ==
    /\ status = [j \in Jobs |-> "absent"]
    /\ recorded = [j \in Jobs |-> 0]
    /\ queue = <<>>
    /\ pc = [p \in Processes |-> "idle"]
    /\ kind = [p \in Processes |-> "none"]
    /\ job = [p \in Processes |-> NoJob]
    /\ run = [p \in Processes |-> 0]
    /\ child = [p \in Processes |-> NoChild]
    /\ payload = [p \in Processes |-> "none"]
    /\ outcome = [p \in Processes |-> "none"]
    /\ inTime = {}
    /\ holding = {}
    /\ plan = [k \in Runs |-> "absent"]
    /\ verdict = [k \in Runs |-> "none"]
    /\ branch = {}
    /\ pushed = [j \in Jobs |-> {}]
    /\ runs = 0 /\ cancels = 0 /\ faults = 0

Goto(p, place) == pc' = [pc EXCEPT ![p] = place]
Fault == faults < MaxFaults /\ faults' = faults + 1 /\ UNCHANGED <<runs, cancels>>

(* An update by id does nothing once the row is deleted. *)
SetStatus(j, s) ==
    status' = IF status[j] = "deleted" THEN status ELSE [status EXCEPT ![j] = s]

(* The cancellations that can still be seen when the row of j says s.       *)
StillSeen(j, s) == IF s = "canceled" THEN inTime
                   ELSE {p \in inTime : job[p] # j}

Take(p, what, j, k, place) ==
    /\ kind' = [kind EXCEPT ![p] = what]
    /\ job' = [job EXCEPT ![p] = j]
    /\ run' = [run EXCEPT ![p] = k]
    /\ Goto(p, place)
    /\ UNCHANGED <<child, payload, outcome, inTime>>

FinishAnd(p, seen) ==
    /\ kind' = [kind EXCEPT ![p] = "none"]
    /\ job' = [job EXCEPT ![p] = NoJob]
    /\ run' = [run EXCEPT ![p] = 0]
    /\ child' = [child EXCEPT ![p] = NoChild]
    /\ payload' = [payload EXCEPT ![p] = "none"]
    /\ outcome' = [outcome EXCEPT ![p] = "none"]
    /\ inTime' = seen \ {p}
    /\ Goto(p, "idle")

Finish(p) == FinishAnd(p, inTime)

(* The try block is left: what its handler writes is decided. *)
Leave(p, what) ==
    /\ outcome' = [outcome EXCEPT ![p] = what]
    /\ child' = [child EXCEPT ![p] = NoChild]
    /\ payload' = [payload EXCEPT ![p] = "none"]
    /\ Goto(p, "end")
    /\ UNCHANGED <<kind, job, run, inTime>>

StepTo(p, place) ==
    /\ Goto(p, place)
    /\ UNCHANGED <<kind, job, run, child, payload, outcome, inTime>>

-------------------------------------------------------------------------------
(* Requests. *)

CreateJob(j) ==
    /\ status[j] = "absent"
    /\ runs < MaxRuns /\ runs' = runs + 1
    /\ status' = [status EXCEPT ![j] = "queued"]
    /\ queue' = Append(queue, <<"job", j, runs + 1>>)
    /\ UNCHANGED <<recorded, processVars, holding, planVars, gitVars, cancels,
                   faults>>

Cancellation == cancels < MaxCancels /\ cancels' = cancels + 1
                /\ UNCHANGED <<runs, faults>>

CancelJob(j) ==
    /\ Cancellation
    /\ status[j] \in {"queued", "running"}
    /\ status' = [status EXCEPT ![j] = "canceled"]
    /\ inTime' = inTime \cup
                   {p \in Processes : job[p] = j /\ pc[p] \in Optimizing}
    /\ UNCHANGED <<recorded, queue, pc, kind, job, run, child, payload, outcome,
                   holding, planVars, gitVars>>

(* An execution that does not find its row any more goes on to its end.     *)
DeleteJob(j) ==
    /\ Cancellation
    /\ status[j] \notin {"absent", "deleted"}
    /\ status' = [status EXCEPT ![j] = "deleted"]
    /\ inTime' = StillSeen(j, "deleted")
    /\ UNCHANGED <<recorded, queue, pc, kind, job, run, child, payload, outcome,
                   holding, planVars, gitVars>>

(* POST /run executes a job in the backend, whatever has become of it. *)
RunRequest(p, j) ==
    /\ pc[p] = "idle" /\ status[j] # "absent"
    /\ runs < MaxRuns /\ runs' = runs + 1
    /\ Take(p, "job", j, runs + 1, "read")
    /\ UNCHANGED <<rowVars, queue, holding, planVars, gitVars, cancels, faults>>

(* POST /materialize-bundle pushes the saved artifact of a succeeded job. *)
MaterializeRequest(p, j) ==
    /\ pc[p] = "idle" /\ status[j] = "succeeded"
    /\ runs < MaxRuns /\ runs' = runs + 1
    /\ Take(p, "materialize", j, runs + 1, "branch")
    /\ UNCHANGED <<rowVars, queue, holding, planVars, gitVars, cancels, faults>>

CancelPlan(k) ==
    /\ Cancellation
    /\ plan[k] \in {"queued", "running"}
    /\ plan' = [plan EXCEPT ![k] = "canceled"]
    /\ UNCHANGED <<rowVars, queue, processVars, holding, verdict, gitVars>>

DeletePlan(k) ==
    /\ Cancellation
    /\ plan[k] \notin {"absent", "deleted"}
    /\ plan' = [plan EXCEPT ![k] = "deleted"]
    /\ UNCHANGED <<rowVars, queue, processVars, holding, verdict, gitVars>>

-------------------------------------------------------------------------------
(* A worker takes the oldest message, of a job or of a follow-up run. *)

Pop(w) ==
    /\ pc[w] = "idle" /\ queue # <<>>
    /\ queue' = Tail(queue)
    /\ LET m == Head(queue)
       IN  \/ /\ m[1] = "job"
              /\ Take(w, "job", m[2], m[3], "read")
              /\ UNCHANGED plan
           \/ /\ m[1] = "eval"
              /\ IF plan[m[3]] = "queued"
                 THEN /\ \E place \in {"slot", "evaluate"} :
                           Take(w, "eval", NoJob, m[3], place)
                      /\ plan' = [plan EXCEPT ![m[3]] = "running"]
                 ELSE UNCHANGED <<processVars, plan>>
    /\ UNCHANGED <<rowVars, holding, verdict, gitVars, boundVars>>

Evaluate(w) ==
    /\ pc[w] = "evaluate"
    /\ \E v \in {"succeeded", "failed"} :
         /\ verdict' = [verdict EXCEPT ![run[w]] = v]
         /\ plan' = IF plan[run[w]] \in {"canceled", "deleted"} THEN plan
                    ELSE [plan EXCEPT ![run[w]] = v]
    /\ Finish(w)
    /\ UNCHANGED <<rowVars, queue, holding, gitVars, boundVars>>

-------------------------------------------------------------------------------
(* run_optimization_job, up to the result of the child. *)

ReadJob(p) ==
    /\ pc[p] = "read"
    /\ IF status[job[p]] \in {"deleted", "canceled"} THEN Finish(p)
       ELSE StepTo(p, "start")
    /\ UNCHANGED <<rowVars, queue, holding, planVars, gitVars, boundVars>>

(* The row is set to running, whatever it has become since it was read. *)
StartJob(p) ==
    /\ pc[p] = "start"
    /\ SetStatus(job[p], "running")
    /\ Goto(p, "prepare")
    /\ inTime' = StillSeen(job[p], "running")
    /\ UNCHANGED <<recorded, queue, kind, job, run, child, payload, outcome,
                   holding, planVars, gitVars, boundVars>>

Spawn(p) ==
    /\ child' = [child EXCEPT ![p] = [alive |-> TRUE, result |-> "none"]]
    /\ Goto(p, "drain")
    /\ UNCHANGED <<kind, job, run, payload, outcome, inTime>>

(* Datasets, profiles and the bundle's requirements are looked up; without *)
(* requirements, or with those installed before, no slot is needed.        *)
Prepare(p) ==
    /\ pc[p] = "prepare"
    /\ \/ StepTo(p, "slot") /\ UNCHANGED boundVars
       \/ Spawn(p) /\ UNCHANGED boundVars
       \/ Leave(p, "failed") /\ Fault
    /\ UNCHANGED <<rowVars, queue, holding, planVars, gitVars>>

(* What an installation is canceled by, and where it leads. *)
IsCanceled(p) == IF kind[p] = "eval" THEN plan[run[p]] = "canceled"
                 ELSE status[job[p]] = "canceled"

(* An exception of the installation: the job's handler, the worker's loop. *)
InstallRaises(p, what) ==
    IF kind[p] = "eval" THEN Finish(p) ELSE Leave(p, what)

Installed(p) ==
    IF kind[p] = "eval" THEN StepTo(p, "evaluate") ELSE Spawn(p)

(* Mutant: the slots are not counted. *)
AcquireAnySlot(p) ==
    /\ pc[p] = "slot" /\ ~IsCanceled(p)
    /\ holding' = holding \cup {p}
    /\ StepTo(p, "install")
    /\ UNCHANGED <<rowVars, queue, planVars, gitVars, boundVars>>

AcquireSlot(p) ==
    /\ pc[p] = "slot"
    /\ \/ /\ IsCanceled(p)
          /\ InstallRaises(p, "canceled") /\ UNCHANGED holding
       \/ /\ ~IsCanceled(p)
          /\ Cardinality(holding) < InstallLimit
          /\ holding' = holding \cup {p}
          /\ StepTo(p, "install")
    /\ UNCHANGED <<rowVars, queue, planVars, gitVars, boundVars>>

(* Mutant: a slot is kept when the installation is canceled. *)
InstallKeepingSlot(p) ==
    /\ pc[p] = "install"
    /\ \/ /\ IsCanceled(p) /\ InstallRaises(p, "canceled")
          /\ UNCHANGED <<boundVars, holding>>
       \/ /\ ~IsCanceled(p) /\ Installed(p) /\ UNCHANGED boundVars
          /\ holding' = holding \ {p}
    /\ UNCHANGED <<rowVars, queue, planVars, gitVars>>

Install(p) ==
    /\ pc[p] = "install"
    /\ \/ IsCanceled(p) /\ InstallRaises(p, "canceled") /\ UNCHANGED boundVars
       \/ ~IsCanceled(p) /\ Installed(p) /\ UNCHANGED boundVars
       \/ InstallRaises(p, "failed") /\ Fault
    /\ holding' = holding \ {p}
    /\ UNCHANGED <<rowVars, queue, planVars, gitVars>>

(* The child delivers a result, then exits; it may also just die. *)
ChildReports(p) ==
    /\ child[p].alive /\ child[p].result = "none" /\ payload[p] = "none"
    /\ \E r \in {"ok", "error"} : child' = [child EXCEPT ![p].result = r]
    /\ UNCHANGED <<rowVars, queue, pc, kind, job, run, payload, outcome, inTime,
                   holding, planVars, gitVars, boundVars>>

ChildExits(p) ==
    /\ child[p].alive
    /\ child' = [child EXCEPT ![p].alive = FALSE]
    /\ IF child[p].result = "none" /\ payload[p] = "none" THEN Fault
       ELSE UNCHANGED boundVars
    /\ UNCHANGED <<rowVars, queue, pc, kind, job, run, payload, outcome, inTime,
                   holding, planVars, gitVars>>

Drain(p) ==
    /\ pc[p] = "drain"
    /\ payload' = [payload EXCEPT ![p] = child[p].result]
    /\ child' = [child EXCEPT ![p].result = "none"]
    /\ Goto(p, "look")
    /\ UNCHANGED <<rowVars, queue, kind, job, run, outcome, inTime, holding,
                   planVars, gitVars, boundVars>>

(* Mutant: a result is used without looking at the job's status again. *)
LookAtPayload(p) ==
    /\ pc[p] = "look"
    /\ CASE payload[p] = "ok" ->
              /\ child' = [child EXCEPT ![p] = NoChild]
              /\ payload' = [payload EXCEPT ![p] = "none"]
              /\ Goto(p, "copy")
              /\ UNCHANGED <<kind, job, run, outcome, inTime>>
         [] payload[p] = "error" -> Leave(p, "failed")
         [] OTHER -> IF child[p].alive THEN StepTo(p, "drain")
                     ELSE Leave(p, "failed")
    /\ UNCHANGED <<rowVars, queue, holding, planVars, gitVars, boundVars>>

(* A child that is dead by now may have delivered since the queue was read. *)
Look(p) ==
    /\ pc[p] = "look"
    /\ CASE status[job[p]] = "canceled" -> Leave(p, "canceled")
         [] status[job[p]] # "canceled" /\ payload[p] = "ok" ->
              /\ child' = [child EXCEPT ![p] = NoChild]
              /\ payload' = [payload EXCEPT ![p] = "none"]
              /\ Goto(p, "copy")
              /\ UNCHANGED <<kind, job, run, outcome, inTime>>
         [] status[job[p]] # "canceled" /\ payload[p] = "none"
            /\ child[p].alive -> StepTo(p, "drain")
         [] OTHER -> Leave(p, "failed")
    /\ UNCHANGED <<rowVars, queue, holding, planVars, gitVars, boundVars>>

-------------------------------------------------------------------------------
(* What becomes of the result. *)

(* The optimized bundle is copied and a run of it is created and enqueued. *)
StartFollowup(p) ==
    /\ pc[p] = "copy"
    /\ \/ /\ plan' = [plan EXCEPT ![run[p]] = "queued"]
          /\ queue' = Append(queue, <<"eval", NoJob, run[p]>>)
          /\ StepTo(p, "await")
          /\ UNCHANGED boundVars
       \/ Leave(p, "failed") /\ Fault /\ UNCHANGED <<plan, queue>>
    /\ UNCHANGED <<rowVars, holding, verdict, gitVars>>

(* Polled without a deadline: a canceled run is waited for like a running   *)
(* one.                                                                    *)
AwaitFollowup(p) ==
    /\ pc[p] = "await"
    /\ \/ plan[run[p]] = "succeeded" /\ StepTo(p, "branch")
       \/ plan[run[p]] \in {"failed", "deleted"} /\ Leave(p, "failed")
    /\ UNCHANGED <<rowVars, queue, holding, planVars, gitVars, boundVars>>

Fails(p) == IF kind[p] = "materialize" THEN Finish(p) ELSE Leave(p, "failed")

(* Mutant: an existing branch is used again. *)
ReuseBranch(p) ==
    /\ pc[p] = "branch"
    /\ branch' = branch \cup {job[p]} /\ StepTo(p, "push")
    /\ UNCHANGED <<rowVars, queue, holding, planVars, pushed, boundVars>>

(* git worktree add -b fails if the branch exists; its name is the job's. *)
CreateBranch(p) ==
    /\ pc[p] = "branch"
    /\ IF job[p] \in branch THEN Fails(p) /\ UNCHANGED branch
       ELSE branch' = branch \cup {job[p]} /\ StepTo(p, "push")
    /\ UNCHANGED <<rowVars, queue, holding, planVars, pushed, boundVars>>

(* The worktree is removed in either case, the branch stays. *)
Push(p) ==
    /\ pc[p] = "push"
    /\ \/ /\ pushed' = [pushed EXCEPT ![job[p]] = @ \cup {run[p]}]
          /\ StepTo(p, "record") /\ UNCHANGED boundVars
       \/ Fails(p) /\ Fault /\ UNCHANGED pushed
    /\ UNCHANGED <<rowVars, queue, holding, planVars, branch>>

(* The revision of the pushed commit is inserted. *)
Record(p) ==
    /\ pc[p] = "record"
    /\ \/ /\ IF kind[p] = "materialize" THEN Finish(p) ELSE Leave(p, "succeeded")
          /\ UNCHANGED boundVars
       \/ Fails(p) /\ Fault
    /\ UNCHANGED <<rowVars, queue, holding, planVars, gitVars>>

(* One unconditional update ends the job. *)
EndJob(p) ==
    /\ pc[p] = "end"
    /\ SetStatus(job[p], outcome[p])
    /\ recorded' = IF outcome[p] = "succeeded"
                   THEN [recorded EXCEPT ![job[p]] = run[p]] ELSE recorded
    /\ FinishAnd(p, StillSeen(job[p], outcome[p]))
    /\ UNCHANGED <<queue, holding, planVars, gitVars, boundVars>>

(* A worker dies with its child; its session, and so its slot, is gone.     *)
Crash(w) ==
    /\ pc[w] # "idle" /\ Fault
    /\ Finish(w)
    /\ holding' = holding \ {w}
    /\ UNCHANGED <<rowVars, queue, planVars, gitVars>>

-------------------------------------------------------------------------------
Execute(p) ==
    \/ ReadJob(p) \/ StartJob(p) \/ Prepare(p)
    \/ AcquireSlot(p) \/ Install(p) \/ Drain(p) \/ Look(p)
    \/ StartFollowup(p) \/ AwaitFollowup(p) \/ CreateBranch(p)
    \/ Push(p) \/ Record(p) \/ EndJob(p) \/ Evaluate(p)

Next ==
    \/ \E j \in Jobs : \/ CreateJob(j) \/ CancelJob(j) \/ DeleteJob(j)
                       \/ \E p \in Requests : RunRequest(p, j)
                                              \/ MaterializeRequest(p, j)
    \/ \E k \in Runs : CancelPlan(k) \/ DeletePlan(k)
    \/ \E w \in Workers : Pop(w) \/ Crash(w)
    \/ \E p \in Processes : Execute(p) \/ ChildReports(p) \/ ChildExits(p)

Spec == Init /\ [][Next]_vars

(* Every process goes on, a free worker takes a message, installations and  *)
(* evaluations end.  A child may optimize for ever.                        *)
Fairness ==
    /\ \A p \in Processes : WF_vars(Execute(p))
    /\ \A w \in Workers : WF_vars(Pop(w))

FairSpec == Spec /\ Fairness

-------------------------------------------------------------------------------
(* Types, and no more installations at once than the limit allows. *)
TypeOK ==
    /\ status \in [Jobs -> Statuses]
    /\ recorded \in [Jobs -> 0..MaxRuns]
    /\ queue \in Seq({"job", "eval"} \X (Jobs \cup {NoJob}) \X Runs)
    /\ pc \in [Processes -> Places]
    /\ kind \in [Processes -> {"none", "job", "eval", "materialize"}]
    /\ job \in [Processes -> Jobs \cup {NoJob}]
    /\ run \in [Processes -> 0..MaxRuns]
    /\ child \in [Processes -> [alive : BOOLEAN, result : Results]]
    /\ payload \in [Processes -> Results]
    /\ outcome \in [Processes -> Terminal \cup {"none"}]
    /\ inTime \in SUBSET Processes
    /\ holding \in SUBSET Processes /\ Cardinality(holding) <= InstallLimit
    /\ plan \in [Runs -> PlanStatuses]
    /\ verdict \in [Runs -> {"none", "succeeded", "failed"}]
    /\ branch \in SUBSET Jobs
    /\ pushed \in [Jobs -> SUBSET Runs]
    /\ runs \in 0..MaxRuns /\ cancels \in 0..MaxCancels
    /\ faults \in 0..MaxFaults

(* A job that says it succeeded names an execution whose follow-up run      *)
(* succeeded and whose commit is the only one pushed to the job's branch,   *)
(* however often it was executed and by whom at once.                       *)
SucceededAsRecorded ==
    \A j \in Jobs : status[j] = "succeeded" =>
        /\ recorded[j] # 0
        /\ verdict[recorded[j]] = "succeeded"
        /\ pushed[j] = {recorded[j]}

(* A cancellation while a job is prepared, installs or optimizes is not     *)
(* answered with a result: nothing is pushed for that execution, and it     *)
(* does not end the job as succeeded, unless the row was overwritten        *)
(* meanwhile: by a second execution, or by its deletion.                   *)
CanceledInTimeHasNoResult ==
    \A p \in inTime : /\ pc[p] \in Optimizing \cup {"end"}
                      /\ outcome[p] # "succeeded"

(* If no child optimizes for ever, an execution that waits for its          *)
(* follow-up run goes on, unless an operator canceled that run, a fault     *)
(* took it, or every worker waits for a run that only a worker can take.    *)
AllWaiting == \A w \in Workers : pc[w] = "await"
ChildrenEnd == \A p \in Processes : []<>(pc[p] \notin {"drain", "look"})
FollowupEnds ==
    ChildrenEnd =>
        \A p \in Processes :
            pc[p] = "await" ~> \/ pc[p] # "await"
                               \/ plan[run[p]] = "canceled"
                               \/ faults > 0
                               \/ AllWaiting
===============================================================================
