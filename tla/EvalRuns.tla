------------------------------- MODULE EvalRuns -------------------------------
(***************************************************************************)
(* One evaluation run plan (agent_run_plans) with its tasks                *)
(* (agent_run_tasks), the Redis list the tasks are sent through, the       *)
(* workers that take them from it, and the requests that enqueue, cancel   *)
(* and delete the plan.                                                    *)
(*                                                                         *)
(* No statement of this code runs in a transaction: one action is one      *)
(* statement, or a few consecutive reads nothing is decided between.       *)
(* MLflow, logs and payloads are left out.                                 *)
(***************************************************************************)
EXTENDS Naturals, Sequences, FiniteSets

CONSTANTS
    Workers,      \* worker processes
    Callers,      \* concurrent requests of the API
    Items,        \* evaluation inputs times runs_per_question
    MaxLimit,     \* bound: max_workers of a plan
    MaxEnqueues,  \* bound: enqueue requests
    MaxCancels,   \* bound: cancel and delete requests
    MaxFaults,    \* bound: crashes and failed installations
    None

ASSUME ConstantsAssumption ==
    /\ Items \in Nat \ {0}
    /\ MaxLimit \in Nat \ {0}
    /\ {MaxEnqueues, MaxCancels, MaxFaults} \subseteq Nat
    /\ Workers \cap Callers = {}

VARIABLES
    limit,     \* max_workers of the plan
    plan,      \* its status
    stored,    \* its counters: total, completed and failed tasks
    task,      \* status of every task row
    queue,     \* the Redis list, oldest message first
    pc,        \* where each worker and each request is
    then,      \* where it goes after it has reconciled the plan
    row,       \* the task a worker was sent
    seen,      \* what a process has read
    todo,      \* rows it is going to insert or to mark "queued"
    marked,    \* rows it has marked and not yet pushed
    enqueues, cancels, faults

Processes == Workers \cup Callers

(* A request that finds no rows inserts rows of its own. *)
Rows == Callers \X (1..Items)

planVars == <<plan, limit, stored>>
localVars == <<pc, then, row, seen, todo, marked>>
boundVars == <<enqueues, cancels, faults>>
vars == <<planVars, task, queue, localVars, boundVars>>

PlanStatuses ==
    {"draft", "queued", "running", "succeeded", "failed", "canceled", "deleted"}
TaskStatuses ==
    {"absent", "pending", "queued", "running", "succeeded", "failed",
     "canceled"}

WithStatus(S) == {r \in Rows : task[r] \in S}
Count(S) == Cardinality(WithStatus(S))
Unfinished == {"pending", "queued", "running"}

View == [total : Nat, completed : Nat, failed : Nat, active : Nat,
         status : PlanStatuses]
NothingSeen == [total |-> 0, completed |-> 0, failed |-> 0, active |-> 0,
                status |-> "draft"]

Places == {"idle", "read", "limit", "start", "startPlan", "install", "eval",
           "judge ok", "judge error", "set succeeded", "set failed",
           "set canceled", "count done", "count active", "read status",
           "write plan", "more", "more count", "select", "mark", "push",
           "insert", "count", "save plan", "cancel tasks"}

Init ==
    /\ limit \in 1..MaxLimit
    /\ plan = "draft"
    /\ stored = [total |-> 0, completed |-> 0, failed |-> 0]
    /\ task = [r \in Rows |-> "absent"]
    /\ queue = <<>>
    /\ pc = [p \in Processes |-> "idle"]
    /\ then = [p \in Processes |-> "idle"]
    /\ row = [w \in Workers |-> None]
    /\ seen = [p \in Processes |-> NothingSeen]
    /\ todo = [p \in Processes |-> {}]
    /\ marked = [p \in Processes |-> {}]
    /\ enqueues = 0 /\ cancels = 0 /\ faults = 0

Goto(p, place) == pc' = [pc EXCEPT ![p] = place]

(* An update by id does nothing once the row is deleted. *)
SetTask(r, status) ==
    task' = IF task[r] = "absent" THEN task ELSE [task EXCEPT ![r] = status]
SetPlan(status, counters) ==
    IF plan = "deleted" THEN UNCHANGED <<plan, stored>>
    ELSE plan' = status /\ stored' = counters

(* A process that has nothing more to do forgets what it read. *)
Finish(p) ==
    /\ Goto(p, "idle")
    /\ then' = [then EXCEPT ![p] = "idle"]
    /\ seen' = [seen EXCEPT ![p] = NothingSeen]
    /\ todo' = [todo EXCEPT ![p] = {}]
    /\ marked' = [marked EXCEPT ![p] = {}]
    /\ row' = IF p \in Workers THEN [row EXCEPT ![p] = None] ELSE row

-------------------------------------------------------------------------------
(* Tasks are marked "queued" one by one, then pushed one by one. *)

Free(active) == IF active < limit THEN limit - active ELSE 0

(* The first pending rows by question and attempt, at most n of them. *)
IsFirst(S, n) ==
    LET pending == WithStatus({"pending"})
    IN  /\ S \subseteq pending
        /\ Cardinality(S) =
             IF n < Cardinality(pending) THEN n ELSE Cardinality(pending)
        /\ \A r \in S, q \in pending \ S : r[2] <= q[2]

(* Mutant: the query has no limit. *)
SelectAll(p) ==
    /\ pc[p] = "select"
    /\ todo' = [todo EXCEPT ![p] = WithStatus({"pending"})]
    /\ Goto(p, "mark")
    /\ UNCHANGED <<planVars, task, queue, then, row, seen, marked, boundVars>>

Select(p) ==
    /\ pc[p] = "select"
    /\ \E S \in SUBSET WithStatus({"pending"}) :
         /\ IsFirst(S, Free(seen[p].active))
         /\ todo' = [todo EXCEPT ![p] = S]
    /\ Goto(p, "mark")
    /\ UNCHANGED <<planVars, task, queue, then, row, seen, marked, boundVars>>

Mark(p) ==
    /\ pc[p] = "mark"
    /\ \/ \E r \in todo[p] :
            /\ \A q \in todo[p] : r[2] <= q[2]
            /\ SetTask(r, "queued")
            /\ todo' = [todo EXCEPT ![p] = @ \ {r}]
            /\ marked' = [marked EXCEPT ![p] = @ \cup {r}]
            /\ UNCHANGED pc
       \/ /\ todo[p] = {}
          /\ Goto(p, IF p \in Workers THEN "push" ELSE "save plan")
          /\ UNCHANGED <<task, todo, marked>>
    /\ UNCHANGED <<planVars, queue, then, row, seen, boundVars>>

(* Mutant: only the first of the marked tasks is pushed. *)
PushFirst(p) ==
    /\ pc[p] = "push"
    /\ \/ \E r \in marked[p] :
            /\ \A q \in marked[p] : r[2] <= q[2]
            /\ queue' = Append(queue, r)
       \/ marked[p] = {} /\ UNCHANGED queue
    /\ Finish(p)
    /\ UNCHANGED <<planVars, task, boundVars>>

Push(p) ==
    /\ pc[p] = "push"
    /\ \/ \E r \in marked[p] :
            /\ \A q \in marked[p] : r[2] <= q[2]
            /\ queue' = Append(queue, r)
            /\ marked' = [marked EXCEPT ![p] = @ \ {r}]
            /\ UNCHANGED <<pc, then, row, seen, todo>>
       \/ /\ marked[p] = {}
          /\ Finish(p)
          /\ UNCHANGED queue
    /\ UNCHANGED <<planVars, task, boundVars>>

-------------------------------------------------------------------------------
(* enqueue_agent_run_plan *)

Enqueue(c) ==
    /\ pc[c] = "idle" /\ enqueues < MaxEnqueues
    /\ enqueues' = enqueues + 1
    /\ plan # "deleted"
    /\ IF Count(TaskStatuses \ {"absent"}) = 0
       THEN Goto(c, "insert") /\ todo' = [todo EXCEPT ![c] = {c} \X (1..Items)]
       ELSE Goto(c, "count") /\ UNCHANGED todo
    /\ UNCHANGED <<planVars, task, queue, then, row, seen, marked, cancels,
                   faults>>

(* A row of a plan that was deleted meanwhile is refused. *)
Insert(c) ==
    /\ pc[c] = "insert"
    /\ \/ /\ plan = "deleted" /\ todo[c] # {}
          /\ Finish(c)
          /\ UNCHANGED task
       \/ /\ plan # "deleted"
          /\ \E r \in todo[c] :
               /\ \A q \in todo[c] : r[2] <= q[2]
               /\ task' = [task EXCEPT ![r] = "pending"]
               /\ todo' = [todo EXCEPT ![c] = @ \ {r}]
          /\ UNCHANGED <<pc, then, row, seen, marked>>
       \/ /\ todo[c] = {}
          /\ Goto(c, "count")
          /\ UNCHANGED <<task, then, row, seen, todo, marked>>
    /\ UNCHANGED <<planVars, queue, boundVars>>

CountTasks(c) ==
    /\ pc[c] = "count"
    /\ seen' = [seen EXCEPT ![c].total = Count(TaskStatuses \ {"absent"}),
                            ![c].active = Count({"queued", "running"})]
    /\ Goto(c, "select")
    /\ UNCHANGED <<planVars, task, queue, then, row, todo, marked, boundVars>>

SavePlan(c) ==
    /\ pc[c] = "save plan"
    /\ SetPlan("queued", [stored EXCEPT !.total = seen[c].total])
    /\ Goto(c, "push")
    /\ UNCHANGED <<limit, task, queue, then, row, seen, todo, marked,
                   boundVars>>

-------------------------------------------------------------------------------
(* cancel_agent_run_plan and delete_agent_run_plan *)

CancelPlan(c) ==
    /\ pc[c] = "idle" /\ cancels < MaxCancels
    /\ plan \in {"queued", "running"}
    /\ cancels' = cancels + 1
    /\ plan' = "canceled"
    /\ Goto(c, "cancel tasks")
    /\ UNCHANGED <<limit, stored, task, queue, then, row, seen, todo, marked,
                   enqueues, faults>>

(* Mutant: tasks that have ended are canceled too. *)
CancelAllTasks(c) ==
    /\ pc[c] = "cancel tasks"
    /\ task' = [r \in Rows |-> IF task[r] # "absent" THEN "canceled"
                               ELSE "absent"]
    /\ Goto(c, "count done")
    /\ UNCHANGED <<planVars, queue, then, row, seen, todo, marked, boundVars>>

CancelTasks(c) ==
    /\ pc[c] = "cancel tasks"
    /\ task' = [r \in Rows |-> IF task[r] \in Unfinished THEN "canceled"
                               ELSE task[r]]
    /\ Goto(c, "count done")
    /\ UNCHANGED <<planVars, queue, then, row, seen, todo, marked, boundVars>>

DeletePlan ==
    /\ plan # "deleted" /\ cancels < MaxCancels
    /\ cancels' = cancels + 1
    /\ plan' = "deleted"
    /\ task' = [r \in Rows |-> "absent"]
    /\ UNCHANGED <<limit, stored, queue, localVars, enqueues, faults>>

-------------------------------------------------------------------------------
(* run_agent_run_task *)

Pop(w) ==
    /\ pc[w] = "idle" /\ queue # <<>>
    /\ row' = [row EXCEPT ![w] = Head(queue)]
    /\ queue' = Tail(queue)
    /\ Goto(w, "read")
    /\ UNCHANGED <<planVars, task, then, seen, todo, marked, boundVars>>

ReadTask(w) ==
    /\ pc[w] = "read"
    /\ \/ /\ task[row[w]] # "absent" /\ plan = "canceled"
          /\ Goto(w, "set canceled")
          /\ UNCHANGED <<then, row, seen, todo, marked>>
       \/ /\ plan # "canceled" /\ task[row[w]] \in {"queued", "pending"}
          /\ then' = [then EXCEPT ![w] = "more"]
          /\ Goto(w, "limit")
          /\ UNCHANGED <<row, seen, todo, marked>>
       \/ /\ \/ task[row[w]] = "absent"
             \/ /\ plan # "canceled"
                /\ task[row[w]] \notin {"queued", "pending"}
          /\ Finish(w)
    /\ UNCHANGED <<planVars, task, queue, boundVars>>

(* A message for a task above the limit is dropped. *)
CheckLimit(w) ==
    /\ pc[w] = "limit"
    /\ IF Count({"running"}) >= limit
       THEN Finish(w)
       ELSE Goto(w, "start") /\ UNCHANGED <<then, row, seen, todo, marked>>
    /\ UNCHANGED <<planVars, task, queue, boundVars>>

StartTask(w) ==
    /\ pc[w] = "start"
    /\ SetTask(row[w], "running")
    /\ Goto(w, "startPlan")
    /\ UNCHANGED <<planVars, queue, then, row, seen, todo, marked, boundVars>>

StartPlan(w) ==
    /\ pc[w] = "startPlan"
    /\ plan' = IF plan \in {"queued", "draft"} THEN "running" ELSE plan
    /\ Goto(w, "install")
    /\ UNCHANGED <<limit, stored, task, queue, then, row, seen, todo, marked,
                   boundVars>>

(* An installation that fails, or is cut short because the plan was        *)
(* canceled, raises past the handler that would record a failure.          *)
Install(w) ==
    /\ pc[w] = "install"
    /\ \/ /\ Goto(w, "eval")
          /\ UNCHANGED <<then, row, seen, todo, marked, faults>>
       \/ plan = "canceled" /\ Finish(w) /\ UNCHANGED faults
       \/ faults < MaxFaults /\ faults' = faults + 1 /\ Finish(w)
    /\ UNCHANGED <<planVars, task, queue, enqueues, cancels>>

(* The child process returns a score or an error, or is terminated because *)
(* the plan was canceled.                                                  *)
Evaluate(w) ==
    /\ pc[w] = "eval"
    /\ \/ Goto(w, "judge ok") \/ Goto(w, "judge error")
       \/ plan = "canceled" /\ Goto(w, "set canceled")
    /\ UNCHANGED <<planVars, task, queue, then, row, seen, todo, marked,
                   boundVars>>

(* The plan's status is read, and then the result is written. *)
Judge(w) ==
    /\ pc[w] \in {"judge ok", "judge error"}
    /\ Goto(w, IF plan = "canceled" THEN "set canceled"
               ELSE IF pc[w] = "judge ok" THEN "set succeeded"
               ELSE "set failed")
    /\ UNCHANGED <<planVars, task, queue, then, row, seen, todo, marked,
                   boundVars>>

SetResult(w) ==
    /\ \/ pc[w] = "set succeeded" /\ SetTask(row[w], "succeeded")
       \/ pc[w] = "set failed" /\ SetTask(row[w], "failed")
       \/ pc[w] = "set canceled" /\ SetTask(row[w], "canceled")
    /\ Goto(w, "count done")
    /\ UNCHANGED <<planVars, queue, then, row, seen, todo, marked, boundVars>>

-------------------------------------------------------------------------------
(* _reconcile_agent_run_plan *)

CountDone(p) ==
    /\ pc[p] = "count done"
    /\ seen' = [seen EXCEPT ![p].total = Count(TaskStatuses \ {"absent"}),
                            ![p].completed = Count({"succeeded"}),
                            ![p].failed = Count({"failed"})]
    /\ Goto(p, "count active")
    /\ UNCHANGED <<planVars, task, queue, then, row, todo, marked, boundVars>>

(* Mutant: tasks that nobody runs yet are not counted. *)
CountRunning(p) ==
    /\ pc[p] = "count active"
    /\ seen' = [seen EXCEPT ![p].active = Count({"queued", "running"})]
    /\ Goto(p, "read status")
    /\ UNCHANGED <<planVars, task, queue, then, row, todo, marked, boundVars>>

CountActive(p) ==
    /\ pc[p] = "count active"
    /\ seen' = [seen EXCEPT ![p].active = Count(Unfinished)]
    /\ Goto(p, "read status")
    /\ UNCHANGED <<planVars, task, queue, then, row, todo, marked, boundVars>>

ReadStatus(p) ==
    /\ pc[p] = "read status"
    /\ seen' = [seen EXCEPT ![p].status = plan]
    /\ Goto(p, "write plan")
    /\ UNCHANGED <<planVars, task, queue, then, row, todo, marked, boundVars>>

Verdict(view) ==
    IF view.status = "canceled" THEN "canceled"
    ELSE IF view.active # 0 \/ view.total = 0 THEN "running"
    ELSE IF view.failed > 0 THEN "failed" ELSE "succeeded"

WritePlan(p) ==
    /\ pc[p] = "write plan"
    /\ SetPlan(Verdict(seen[p]),
               [total |-> seen[p].total, completed |-> seen[p].completed,
                failed |-> seen[p].failed])
    /\ IF then[p] = "more"
       THEN /\ Goto(p, "more")
            /\ seen' = [seen EXCEPT ![p] = NothingSeen]
            /\ UNCHANGED <<then, row, todo, marked>>
       ELSE Finish(p)
    /\ UNCHANGED <<limit, task, queue, boundVars>>

-------------------------------------------------------------------------------
(* _queue_more_agent_run_tasks *)

QueueMore(w) ==
    /\ pc[w] = "more"
    /\ IF plan \in {"canceled", "deleted"}
       THEN Finish(w)
       ELSE Goto(w, "more count") /\ UNCHANGED <<then, row, seen, todo, marked>>
    /\ UNCHANGED <<planVars, task, queue, boundVars>>

(* Mutant: tasks that nobody has queued yet take up slots. *)
CountMoreUnfinished(w) ==
    /\ pc[w] = "more count"
    /\ LET active == Count(Unfinished)
       IN  IF Free(active) = 0
           THEN Finish(w)
           ELSE /\ seen' = [seen EXCEPT ![w].active = active]
                /\ Goto(w, "select")
                /\ UNCHANGED <<then, row, todo, marked>>
    /\ UNCHANGED <<planVars, task, queue, boundVars>>

CountMore(w) ==
    /\ pc[w] = "more count"
    /\ LET active == Count({"queued", "running"})
       IN  IF Free(active) = 0
           THEN Finish(w)
           ELSE /\ seen' = [seen EXCEPT ![w].active = active]
                /\ Goto(w, "select")
                /\ UNCHANGED <<then, row, todo, marked>>
    /\ UNCHANGED <<planVars, task, queue, boundVars>>

-------------------------------------------------------------------------------
(* A process dies, or one of its statements fails, between two steps. *)
Crash(p) ==
    /\ pc[p] # "idle"
    /\ faults < MaxFaults /\ faults' = faults + 1
    /\ Finish(p)
    /\ UNCHANGED <<planVars, task, queue, enqueues, cancels>>

Work(w) ==
    \/ Pop(w) \/ ReadTask(w) \/ CheckLimit(w) \/ StartTask(w) \/ StartPlan(w)
    \/ Install(w) \/ Evaluate(w) \/ Judge(w) \/ SetResult(w)
    \/ QueueMore(w) \/ CountMore(w)

Continue(c) == Insert(c) \/ CountTasks(c) \/ SavePlan(c) \/ CancelTasks(c)

Shared(p) ==
    \/ Select(p) \/ Mark(p) \/ Push(p)
    \/ CountDone(p) \/ CountActive(p) \/ ReadStatus(p) \/ WritePlan(p)

Next ==
    \/ \E w \in Workers : Work(w)
    \/ \E c \in Callers : Enqueue(c) \/ CancelPlan(c) \/ Continue(c)
    \/ \E p \in Processes : Shared(p) \/ Crash(p)
    \/ DeletePlan

Spec == Init /\ [][Next]_vars

(* Workers and requests run on, and an evaluation or an installation ends. *)
Fairness ==
    /\ \A w \in Workers : WF_vars(Work(w) \/ Shared(w))
    /\ \A c \in Callers : WF_vars(Continue(c) \/ Shared(c))

FairSpec == Spec /\ Fairness

-------------------------------------------------------------------------------
TypeOK ==
    /\ limit \in 1..MaxLimit
    /\ plan \in PlanStatuses
    /\ stored \in [total : Nat, completed : Nat, failed : Nat]
    /\ task \in [Rows -> TaskStatuses]
    /\ queue \in Seq(Rows)
    /\ pc \in [Processes -> Places]
    /\ then \in [Processes -> {"idle", "more"}]
    /\ row \in [Workers -> Rows \cup {None}]
    /\ seen \in [Processes -> View]
    /\ todo \in [Processes -> SUBSET Rows]
    /\ marked \in [Processes -> SUBSET Rows]
    /\ enqueues \in 0..MaxEnqueues
    /\ cancels \in 0..MaxCancels
    /\ faults \in 0..MaxFaults

(* Nobody else changes the plan: it was enqueued once, and its tasks run   *)
(* one at a time.  With two tasks at once, or a second enqueue, two        *)
(* processes can mark the same tasks or reconcile from stale counts.       *)
Sequential == limit = 1 /\ enqueues <= 1

(* A sequential plan that nobody cancels is reported "succeeded" or        *)
(* "failed" only when no task of it is unfinished, according to whether    *)
(* some task failed, and with counters that say so.                        *)
VerdictFits ==
    Sequential /\ cancels = 0 /\ plan \in {"succeeded", "failed"} =>
        /\ Count(Unfinished) = 0
        /\ plan = "failed" <=> Count({"failed"}) > 0
        /\ stored = [total |-> Count(TaskStatuses \ {"absent"}),
                     completed |-> Count({"succeeded"}),
                     failed |-> Count({"failed"})]

(* A sequential plan never runs more tasks at once than its max_workers,   *)
(* whatever is canceled and whoever crashes.                               *)
RunningWithinLimit == Sequential => Count({"running"}) <= limit

(* Nobody selects tasks while others do: tasks run one at a time, or all   *)
(* at once.  In between a worker may mark, from a selection that is stale, *)
(* a task that was run meanwhile.                                          *)
SelectedOnce == enqueues <= 1 /\ (limit = 1 \/ Items <= limit)

(* While nothing fails, a task marked "queued" is in the queue, is about   *)
(* to be pushed, or is held by a worker that has yet to start it.          *)
QueuedHasMessage ==
    SelectedOnce /\ faults = 0 =>
        \A r \in WithStatus({"queued"}) :
            \/ \E n \in 1..Len(queue) : queue[n] = r
            \/ \E p \in Processes : r \in marked[p]
            \/ \E w \in Workers :
                 /\ row[w] = r
                 /\ pc[w] \in {"read", "limit", "start", "set canceled"}

(* The result of a task of a sequential plan is final: it is evaluated     *)
(* once, and only a deletion takes it away.                                *)
ResultStays ==
    [][\A r \in Rows : Sequential /\ task[r] \in {"succeeded", "failed"}
         => task'[r] \in {task[r], "absent"}]_vars

(* A sequential plan that is enqueued comes to an end unless it is         *)
(* canceled, deleted or hit by a fault, and leaves no message behind.      *)
Disturbed == cancels > 0 \/ faults > 0
Ended == plan \in {"succeeded", "failed"} /\ queue = <<>>
PlanFinishes ==
    plan = "queued" /\ Sequential ~> Ended \/ Disturbed \/ ~Sequential
===============================================================================
