----------------------------- MODULE EvalRunsProofs -----------------------------
(* Theorems about EvalRuns for every value of its constants. *)
EXTENDS EvalRuns, QueueLemmas, FiniteSetTheorems

-------------------------------------------------------------------------------
(* The invariant. *)

Existing == WithStatus(TaskStatuses \ {"absent"})

(* Where a process is decides what it has.                                  *)
InRun == {"startPlan", "install", "eval", "judge ok", "judge error", "set succeeded",
          "set failed", "set canceled"}
Held == {"read", "limit", "start"} \cup InRun
Reconciling == {"count done", "count active", "read status", "write plan"}
WorkerPlaces == Held \cup Reconciling \cup
                  {"idle", "more", "more count", "select", "mark", "push"}
Enqueueing == {"insert", "count", "select", "mark", "save plan"}
CallerPlaces == Enqueueing \cup Reconciling \cup {"idle", "push", "cancel tasks"}
Shaped ==
    /\ \A w \in Workers : pc[w] \in WorkerPlaces /\ (pc[w] # "idle" => row[w] \in Rows)
    /\ \A c \in Callers : pc[c] \in CallerPlaces /\ then[c] = "idle"
    /\ \A p \in Processes : /\ todo[p] # {} => pc[p] \in {"insert", "mark"}
                            /\ marked[p] # {} => pc[p] \in {"mark", "push", "save plan"}

(* Before it is enqueued a plan has no tasks, and one request inserts rows   *)
(* of its own only.                                                         *)
Unused == /\ plan \in {"draft", "deleted"} /\ queue = <<>>
          /\ \A r \in Rows : task[r] = "absent"
          /\ \A p \in Processes : pc[p] = "idle"
Used(r) == task[r] # "absent" \/ \E p \in Processes : r \in todo[p]
EnqueuedOnce ==
    /\ enqueues = 0 => Unused
    /\ enqueues <= 1 => \A r, s \in Rows : Used(r) /\ Used(s) => r[1] = s[1]

(* The one task of a sequential plan that is selected, sent, run or          *)
(* reconciled is with one process, or in the queue.                         *)
Carries(p) == \/ pc[p] = "push" /\ marked[p] # {}
              \/ p \in Workers /\ pc[p] \notin {"idle", "push"}
              \/ p \in Callers /\ pc[p] \in Enqueueing
Done == {"succeeded", "failed"}
OneCarrier ==
    /\ \A p, q \in Processes : Carries(p) /\ Carries(q) => p = q
    /\ queue # <<>> => Len(queue) = 1 /\ \A p \in Processes : ~Carries(p)
OneSelected ==
    \A p \in Processes : pc[p] # "insert" =>
        /\ \A r, s \in todo[p] \cup marked[p] : r = s
        /\ todo[p] # {} => marked[p] = {}
OneRunning ==
    /\ \A r, s \in WithStatus({"running"}) : r = s
    /\ \A r \in WithStatus({"running"}) :
         /\ queue = <<>>
         /\ \A p \in Processes : Carries(p) => p \in Workers /\ row[p] = r /\ pc[p] \in InRun
NotDone ==
    /\ \A r \in Range(queue) : task[r] \notin Done
    /\ \A p \in Processes : \A r \in todo[p] \cup marked[p] : task[r] \notin Done
    /\ \A w \in Workers : pc[w] \in Held => task[row[w]] \notin Done
Alone == Sequential => OneCarrier /\ OneSelected /\ OneRunning /\ NotDone

(* While nothing fails a task that is marked "queued" has a message, or a    *)
(* worker that got it.                                                      *)
Sent(r) == \/ \E n \in 1..Len(queue) : queue[n] = r
           \/ \E p \in Processes : r \in marked[p]
           \/ \E w \in Workers : /\ row[w] = r
                                 /\ pc[w] \in {"read", "limit", "start", "set canceled"}

(* While nobody cancels, what a worker has counted is what there is.        *)
Undisturbed ==
    cancels = 0 =>
        /\ plan \notin {"canceled", "deleted"}
        /\ \A p \in Processes : /\ pc[p] \notin {"set canceled", "cancel tasks"}
                                /\ p \in Callers => pc[p] \notin Reconciling
                                /\ pc[p] = "write plan" => seen[p].status # "canceled"
Counted(p) == /\ seen[p].total = Count(TaskStatuses \ {"absent"})
              /\ seen[p].completed = Count({"succeeded"})
              /\ seen[p].failed = Count({"failed"})
CountsHold ==
    \A p \in Processes :
        /\ pc[p] \in {"count active", "read status", "write plan"} => Counted(p)
        /\ pc[p] \in {"read status", "write plan"} => seen[p].active = Count(Unfinished)
Asking == {"more", "more count", "select", "mark"}
Reported ==
    plan \in {"succeeded", "failed"} =>
        /\ Count(Unfinished) = 0 /\ queue = <<>>
        /\ plan = "failed" <=> Count({"failed"}) > 0
        /\ stored = [total |-> Count(TaskStatuses \ {"absent"}),
                     completed |-> Count({"succeeded"}), failed |-> Count({"failed"})]
        /\ \A p \in Processes : /\ Carries(p) => p \in Workers /\ pc[p] \in Asking
                                /\ todo[p] = {} /\ marked[p] = {}
VerdictHolds == Sequential /\ cancels = 0 => CountsHold /\ Reported

-------------------------------------------------------------------------------
(* Types. *)

PlanTypes == /\ limit \in 1..MaxLimit /\ plan \in PlanStatuses
             /\ stored \in [total : Nat, completed : Nat, failed : Nat]
TaskTypes == task \in [Rows -> TaskStatuses] /\ IsFiniteSet(Existing)
QueueTypes == queue \in Seq(Rows)
LocalTypes == /\ pc \in [Processes -> Places]
              /\ then \in [Processes -> {"idle", "more"}]
              /\ row \in [Workers -> Rows \cup {None}]
              /\ seen \in [Processes -> View]
              /\ todo \in [Processes -> SUBSET Rows]
              /\ marked \in [Processes -> SUBSET Rows]
LocalSound == LocalTypes /\ Shaped
BoundTypes == /\ enqueues \in 0..MaxEnqueues /\ cancels \in 0..MaxCancels
              /\ faults \in 0..MaxFaults
Sound == TypeOK /\ IsFiniteSet(Existing) /\ Shaped

LEMMA SoundParts ==
    /\ Sound <=> PlanTypes /\ TaskTypes /\ QueueTypes /\ LocalSound /\ BoundTypes
    /\ Sound' <=> PlanTypes' /\ TaskTypes' /\ QueueTypes' /\ LocalSound' /\ BoundTypes'
BY DEF Sound, TypeOK, PlanTypes, TaskTypes, QueueTypes, LocalSound, LocalTypes, BoundTypes

(* What nothing is written to keeps its type. *)
LEMMA PartsKept ==
    /\ UNCHANGED planVars /\ PlanTypes => PlanTypes'
    /\ UNCHANGED task /\ TaskTypes => TaskTypes'
    /\ UNCHANGED queue /\ QueueTypes => QueueTypes'
    /\ UNCHANGED localVars /\ LocalSound => LocalSound'
    /\ UNCHANGED boundVars /\ BoundTypes => BoundTypes'
BY DEF planVars, localVars, boundVars, PlanTypes, TaskTypes, QueueTypes, LocalSound, LocalTypes,
       Shaped, BoundTypes, Existing, WithStatus

LEMMA BoundKept ==
    ASSUME BoundTypes,
           \/ enqueues < MaxEnqueues /\ enqueues' = enqueues + 1 /\ UNCHANGED <<cancels, faults>>
           \/ cancels < MaxCancels /\ cancels' = cancels + 1 /\ UNCHANGED <<enqueues, faults>>
           \/ faults < MaxFaults /\ faults' = faults + 1 /\ UNCHANGED <<enqueues, cancels>>
    PROVE  BoundTypes'
BY ConstantsAssumption DEF BoundTypes, ConstantsAssumption

(* Tasks that exist are finitely many: each was inserted.                   *)
LEMMA Finite ==
    ASSUME TaskTypes, NEW S, "absent" \notin S
    PROVE  IsFiniteSet(WithStatus(S)) /\ Count(S) \in Nat
<1>1. WithStatus(S) \subseteq Existing
  BY DEF TaskTypes, WithStatus, Existing
<1>2. IsFiniteSet(WithStatus(S))
  BY <1>1, FS_Subset DEF TaskTypes
<1> QED BY <1>2, FS_CardinalityType DEF Count

LEMMA Statuses ==
    /\ "absent" \notin TaskStatuses \ {"absent"} /\ "absent" \notin Unfinished
    /\ "absent" \notin {"succeeded"} /\ "absent" \notin {"failed"} /\ "absent" \notin {"running"}
    /\ "absent" \notin {"pending"} /\ "absent" \notin {"queued", "running"}
BY DEF Unfinished

LEMMA TaskKept ==
    ASSUME TaskTypes, NEW r \in Rows, NEW t \in TaskStatuses,
           SetTask(r, t) \/ task' = [task EXCEPT ![r] = t]
    PROVE  TaskTypes'
<1>1. task' \in [Rows -> TaskStatuses] /\ \A q \in Rows : q # r => task'[q] = task[q]
  BY DEF TaskTypes, SetTask
<1>2. Existing' \subseteq Existing \cup {r}
  BY <1>1 DEF Existing, WithStatus
<1>3. IsFiniteSet(Existing \cup {r})
  BY FS_AddElement DEF TaskTypes
<1>4. IsFiniteSet(Existing')
  BY <1>2, <1>3, FS_Subset
<1> QED BY <1>1, <1>4 DEF TaskTypes

LEMMA TasksEnded ==
    ASSUME TaskTypes, task' \in [Rows -> TaskStatuses],
           \A r \in Rows : task[r] = "absent" => task'[r] = "absent"
    PROVE  TaskTypes'
<1>1. Existing' \subseteq Existing
  BY DEF Existing, WithStatus, TaskTypes
<1>2. IsFiniteSet(Existing')
  BY <1>1, FS_Subset DEF TaskTypes
<1> QED BY <1>2 DEF TaskTypes

(* What a process has fits where it goes. *)
Fits(p, place, todos, marks) ==
    /\ p \in Workers => place \in WorkerPlaces /\ (place # "idle" => row[p] \in Rows)
    /\ p \in Callers => place \in CallerPlaces
    /\ todos # {} => place \in {"insert", "mark"}
    /\ marks # {} => place \in {"mark", "push", "save plan"}

LEMMA PlacesKnown == WorkerPlaces \subseteq Places /\ CallerPlaces \subseteq Places
                     /\ Workers \subseteq Processes /\ Callers \subseteq Processes
BY DEF WorkerPlaces, CallerPlaces, Held, InRun, Reconciling, Enqueueing, Places, Processes

LEMMA FitsNow == ASSUME LocalSound, NEW p \in Processes
                 PROVE  Fits(p, pc[p], todo[p], marked[p])
BY DEF LocalSound, Shaped, Fits

(* A process goes on with new things to do, and with what it has seen.      *)
LEMMA MoveSound ==
    ASSUME LocalSound, NEW p \in Processes, NEW place \in Places, Goto(p, place),
           NEW X \in SUBSET Rows, NEW Y \in SUBSET Rows, NEW v \in View,
           Fits(p, place, X, Y),
           todo' \in {todo, [todo EXCEPT ![p] = X]}, todo'[p] = X,
           marked' \in {marked, [marked EXCEPT ![p] = Y]}, marked'[p] = Y,
           seen' \in {seen, [seen EXCEPT ![p] = v]},
           UNCHANGED <<then, row>>
    PROVE  LocalSound'
<1>1. LocalTypes'
  BY DEF LocalSound, LocalTypes, Goto
<1>2. /\ pc'[p] = place /\ todo'[p] = X /\ marked'[p] = Y
      /\ \A q \in Processes \ {p} : UNCHANGED <<pc[q], todo[q], marked[q]>>
  BY DEF LocalSound, LocalTypes, Goto
<1>3. Shaped'
  BY <1>2 DEF LocalSound, Shaped, Fits, Processes
<1> QED BY <1>1, <1>3 DEF LocalSound

LEMMA StepSound ==
    ASSUME LocalSound, NEW p \in Processes, NEW place \in Places, Goto(p, place),
           Fits(p, place, todo[p], marked[p]),
           UNCHANGED <<then, row, seen, todo, marked>>
    PROVE  LocalSound'
BY DEF LocalSound, LocalTypes, Shaped, Fits, Goto, Processes

LEMMA FinishSound ==
    ASSUME LocalSound, NEW p \in Processes, Finish(p)
    PROVE  LocalSound'
<1>1. NothingSeen \in View /\ "idle" \in Places
  BY DEF NothingSeen, View, PlanStatuses, Places
<1>2. LocalTypes'
  BY <1>1 DEF LocalSound, LocalTypes, Finish, Goto
<1>3. Shaped'
  BY DEF LocalSound, LocalTypes, Shaped, Finish, Goto, Processes, WorkerPlaces, CallerPlaces
<1> QED BY <1>2, <1>3 DEF LocalSound

LEMMA SharedSound ==
    ASSUME Sound, NEW p \in Processes, Shared(p)
    PROVE  Sound'
<1> USE SoundParts
<1>1. Fits(p, pc[p], todo[p], marked[p]) /\ LocalTypes /\ (p \in Workers \/ p \in Callers)
  BY FitsNow DEF LocalSound, Processes
<1>2. {"mark", "push", "save plan", "count active", "read status", "write plan", "more"} \subseteq Places
  BY DEF Places
<1> DEFINE Fit(place) == Fits(p, place, todo[p], marked[p])
<1>3. UNCHANGED boundVars => BoundTypes'
  BY PartsKept
<1>4. ASSUME Select(p) PROVE Sound'
  <2>1. PICK S \in SUBSET WithStatus({"pending"}) : todo' = [todo EXCEPT ![p] = S]
    BY <1>4 DEF Select
  <2>2. S \in SUBSET Rows
    BY DEF WithStatus
  <2>3. Fits(p, "mark", S, marked[p])
    BY <1>1, <1>4 DEF Select, Fits, WorkerPlaces, CallerPlaces, Enqueueing
  <2>4. todo'[p] = S
    BY <1>1, <2>1 DEF LocalTypes
  <2>5. marked[p] \in SUBSET Rows /\ seen[p] \in View
    BY <1>1 DEF LocalTypes
  <2>6. LocalSound'
    BY <1>2, <1>4, <2>1, <2>2, <2>3, <2>4, <2>5, MoveSound DEF Select
  <2> QED BY <1>3, <1>4, <2>6, PartsKept DEF Select
<1>5. ASSUME Mark(p) PROVE Sound'
  <2>1. CASE todo[p] = {} /\ Goto(p, IF p \in Workers THEN "push" ELSE "save plan")
             /\ UNCHANGED <<task, todo, marked>>
    <3>1. Fit(IF p \in Workers THEN "push" ELSE "save plan")
      BY <1>1, <1>5, <2>1, ConstantsAssumption
         DEF Mark, Fits, WorkerPlaces, CallerPlaces, Enqueueing, ConstantsAssumption
    <3>2. LocalSound'
      BY <1>2, <1>5, <2>1, <3>1, StepSound DEF Mark
    <3> QED BY <1>3, <1>5, <2>1, <3>2, PartsKept DEF Mark
  <2>2. CASE \E r \in todo[p] : /\ SetTask(r, "queued")
                                /\ todo' = [todo EXCEPT ![p] = @ \ {r}]
                                /\ marked' = [marked EXCEPT ![p] = @ \cup {r}]
                                /\ UNCHANGED pc
    <3>1. PICK r \in todo[p] : /\ SetTask(r, "queued")
                               /\ todo' = [todo EXCEPT ![p] = @ \ {r}]
                               /\ marked' = [marked EXCEPT ![p] = @ \cup {r}]
      BY <2>2
    <3>2. r \in Rows /\ todo[p] \ {r} \in SUBSET Rows /\ marked[p] \cup {r} \in SUBSET Rows
      BY <1>1, <3>1 DEF LocalTypes
    <3>3. TaskTypes'
      BY <3>1, <3>2, TaskKept DEF TaskStatuses
    <3>4. Goto(p, "mark") /\ Fits(p, "mark", todo[p] \ {r}, marked[p] \cup {r})
      BY <1>1, <1>5, <2>2 DEF Mark, Goto, Fits, LocalTypes
    <3>5. seen[p] \in View /\ todo'[p] = todo[p] \ {r} /\ marked'[p] = marked[p] \cup {r}
      BY <1>1, <3>1 DEF LocalTypes
    <3>6. LocalSound'
      BY <1>2, <1>5, <3>1, <3>2, <3>4, <3>5, MoveSound DEF Mark
    <3> QED BY <1>3, <1>5, <3>3, <3>6, PartsKept DEF Mark
  <2> QED BY <1>5, <2>1, <2>2 DEF Mark
<1>6. ASSUME Push(p) PROVE Sound'
  <2>1. CASE Finish(p) /\ UNCHANGED queue
    BY <1>3, <1>6, <2>1, FinishSound, PartsKept DEF Push
  <2>2. CASE \E r \in marked[p] : /\ queue' = Append(queue, r)
                                  /\ marked' = [marked EXCEPT ![p] = @ \ {r}]
                                  /\ UNCHANGED <<pc, then, row, seen, todo>>
    <3>1. PICK r \in marked[p] : /\ queue' = Append(queue, r)
                                 /\ marked' = [marked EXCEPT ![p] = @ \ {r}]
      BY <2>2
    <3>2. r \in Rows /\ marked[p] \ {r} \in SUBSET Rows
      BY <1>1, <3>1 DEF LocalTypes
    <3>3. QueueTypes'
      BY <3>1, <3>2 DEF QueueTypes
    <3>4. Goto(p, "push") /\ Fits(p, "push", todo[p], marked[p] \ {r})
      BY <1>1, <1>6, <2>2 DEF Push, Goto, Fits, LocalTypes
    <3>5. seen[p] \in View /\ todo[p] \in SUBSET Rows /\ marked'[p] = marked[p] \ {r}
      BY <1>1, <3>1 DEF LocalTypes
    <3>6. LocalSound'
      BY <1>2, <2>2, <3>1, <3>2, <3>4, <3>5, MoveSound
    <3> QED BY <1>3, <1>6, <3>3, <3>6, PartsKept DEF Push
  <2> QED BY <1>6, <2>1, <2>2 DEF Push
<1>7. ASSUME CountDone(p) \/ CountActive(p) \/ ReadStatus(p) PROVE Sound'
  <2>1. /\ Count(TaskStatuses \ {"absent"}) \in Nat /\ Count({"succeeded"}) \in Nat
        /\ Count({"failed"}) \in Nat /\ Count(Unfinished) \in Nat
    BY Finite, Statuses
  <2>2. seen[p] \in View /\ todo[p] \in SUBSET Rows /\ marked[p] \in SUBSET Rows
    BY <1>1 DEF LocalTypes
  <2>3. PICK v \in View : seen' = [seen EXCEPT ![p] = v]
    <3>1. seen \in [Processes -> View]
      BY <1>1 DEF LocalTypes
    <3>2. CASE CountDone(p)
      <4>1. [seen[p] EXCEPT !.total = Count(TaskStatuses \ {"absent"}),
                            !.completed = Count({"succeeded"}),
                            !.failed = Count({"failed"})] \in View
        BY <2>1, <2>2 DEF View
      <4> QED BY <3>1, <3>2, <4>1 DEF CountDone
    <3>3. CASE CountActive(p)
      <4>1. [seen[p] EXCEPT !.active = Count(Unfinished)] \in View
        BY <2>1, <2>2 DEF View
      <4> QED BY <3>1, <3>3, <4>1 DEF CountActive
    <3>4. CASE ReadStatus(p)
      <4>1. [seen[p] EXCEPT !.status = plan] \in View
        BY <2>2 DEF View, PlanTypes
      <4> QED BY <3>1, <3>4, <4>1 DEF ReadStatus
    <3> QED BY <1>7, <3>2, <3>3, <3>4
  <2>4. PICK place \in {"count active", "read status", "write plan"} : Goto(p, place)
    BY <1>7 DEF CountDone, CountActive, ReadStatus
  <2>5. Fit(place)
    BY <1>1, <1>7 DEF CountDone, CountActive, ReadStatus, Fits, WorkerPlaces, CallerPlaces,
                      Reconciling
  <2>6. LocalSound'
    BY <1>2, <1>7, <2>2, <2>3, <2>4, <2>5, MoveSound DEF CountDone, CountActive, ReadStatus
  <2> QED BY <1>3, <1>7, <2>6, PartsKept DEF CountDone, CountActive, ReadStatus
<1>8. ASSUME WritePlan(p) PROVE Sound'
  <2>1. Verdict(seen[p]) \in PlanStatuses
    BY DEF Verdict, PlanStatuses
  <2>2. PlanTypes'
    <3>1. seen[p] \in View
      BY <1>1 DEF LocalTypes
    <3>2. [total |-> seen[p].total, completed |-> seen[p].completed, failed |-> seen[p].failed]
            \in [total : Nat, completed : Nat, failed : Nat]
      BY <3>1 DEF View
    <3> HIDE DEF Verdict
    <3> QED BY <1>8, <2>1, <3>2 DEF WritePlan, SetPlan, PlanTypes
  <2>3. CASE Finish(p)
    BY <1>3, <1>8, <2>2, <2>3, FinishSound, PartsKept DEF WritePlan
  <2>4. CASE then[p] = "more" /\ Goto(p, "more") /\ seen' = [seen EXCEPT ![p] = NothingSeen]
             /\ UNCHANGED <<then, row, todo, marked>>
    <3>1. NothingSeen \in View /\ todo[p] \in SUBSET Rows /\ marked[p] \in SUBSET Rows
      BY <1>1 DEF NothingSeen, View, PlanStatuses, LocalTypes
    <3>2. p \in Workers
      BY <1>1, <2>4 DEF LocalSound, Shaped
    <3>3. Fit("more")
      BY <1>1, <1>8, <3>2, ConstantsAssumption DEF WritePlan, Fits, WorkerPlaces, ConstantsAssumption
    <3>4. LocalSound'
      BY <1>2, <2>4, <3>1, <3>3, MoveSound
    <3> QED BY <1>3, <1>8, <2>2, <3>4, PartsKept DEF WritePlan
  <2> QED BY <1>8, <2>3, <2>4 DEF WritePlan
<1> QED BY <1>4, <1>5, <1>6, <1>7, <1>8 DEF Shared

(* A step that changes nothing but where a worker is. *)
LEMMA WorkerStepSound ==
    ASSUME Sound, NEW w \in Workers, NEW place \in WorkerPlaces, pc[w] # "idle",
           todo[w] = {}, marked[w] = {}, Goto(w, place), UNCHANGED <<row, seen, todo, marked>>,
           then' \in {then, [then EXCEPT ![w] = "more"]}
    PROVE  LocalSound'
BY SoundParts, ConstantsAssumption, PlacesKnown
   DEF LocalSound, LocalTypes, Shaped, Goto, ConstantsAssumption, Processes

LEMMA WorkSound ==
    ASSUME Sound, NEW w \in Workers, Work(w)
    PROVE  Sound'
<1> USE SoundParts
<1>1. /\ w \in Processes /\ LocalTypes /\ pc[w] \in WorkerPlaces
      /\ pc[w] # "idle" => row[w] \in Rows
      /\ pc[w] \notin {"insert", "mark"} => todo[w] = {}
      /\ pc[w] \notin {"mark", "push", "save plan"} => marked[w] = {}
  BY PlacesKnown DEF LocalSound, Shaped
<1>2. {"set canceled", "limit", "start", "startPlan", "install", "eval", "judge ok", "judge error",
       "set succeeded", "set failed", "count done", "more count", "select", "read"} \subseteq WorkerPlaces
  BY DEF WorkerPlaces, Held, InRun, Reconciling
<1>3. UNCHANGED boundVars => BoundTypes'
  BY PartsKept
<1>4. ASSUME Finish(w), UNCHANGED <<planVars, task, queue>>, BoundTypes' PROVE Sound'
  BY <1>1, <1>4, FinishSound, PartsKept
<1>5. ASSUME NEW place \in WorkerPlaces, Goto(w, place), pc[w] \notin {"idle", "mark", "push"},
             UNCHANGED <<row, seen, todo, marked>>, then' \in {then, [then EXCEPT ![w] = "more"]}
      PROVE  LocalSound'
  <2>1. pc[w] \notin {"insert", "save plan"}
    BY <1>1 DEF WorkerPlaces, Held, InRun, Reconciling
  <2> QED BY <1>1, <1>5, <2>1, WorkerStepSound
<1>6. ASSUME Pop(w) PROVE Sound'
  <2>1. Head(queue) \in Rows /\ QueueTypes'
    BY <1>6 DEF Pop, QueueTypes
  <2>2. LocalSound'
    BY <1>1, <1>6, <2>1, ConstantsAssumption
       DEF Pop, LocalSound, LocalTypes, Shaped, Goto, WorkerPlaces, Held, Places,
           ConstantsAssumption, Processes
  <2> QED BY <1>3, <1>6, <2>1, <2>2, PartsKept DEF Pop
<1>7. ASSUME ReadTask(w) PROVE Sound'
  BY <1>2, <1>3, <1>4, <1>5, <1>7, PartsKept DEF ReadTask
<1>8. ASSUME CheckLimit(w) \/ QueueMore(w) PROVE Sound'
  BY <1>2, <1>3, <1>4, <1>5, <1>8, PartsKept DEF CheckLimit, QueueMore
<1>9. ASSUME StartTask(w) PROVE Sound'
  <2>1. TaskTypes'
    BY <1>1, <1>9, TaskKept DEF StartTask, TaskStatuses
  <2> QED BY <1>2, <1>3, <1>5, <1>9, <2>1, PartsKept DEF StartTask
<1>10. ASSUME StartPlan(w) PROVE Sound'
  <2>1. PlanTypes'
    BY <1>10 DEF StartPlan, PlanTypes, PlanStatuses
  <2> QED BY <1>2, <1>3, <1>5, <1>10, <2>1, PartsKept DEF StartPlan
<1>11. ASSUME Install(w) PROVE Sound'
  <2>1. BoundTypes'
    BY <1>11, BoundKept DEF Install, BoundTypes
  <2> QED BY <1>2, <1>4, <1>5, <1>11, <2>1, PartsKept DEF Install
<1>12. ASSUME Evaluate(w) PROVE Sound'
  BY <1>2, <1>3, <1>5, <1>12, PartsKept DEF Evaluate
<1>13. ASSUME Judge(w) PROVE Sound'
  <2>1. PICK place \in {"set canceled", "set succeeded", "set failed"} : Goto(w, place)
    BY <1>13 DEF Judge
  <2> QED BY <1>2, <1>3, <1>5, <1>13, <2>1, PartsKept DEF Judge
<1>14. ASSUME SetResult(w) PROVE Sound'
  <2>1. TaskTypes'
    BY <1>1, <1>14, TaskKept DEF SetResult, TaskStatuses
  <2> QED BY <1>2, <1>3, <1>5, <1>14, <2>1, PartsKept DEF SetResult
<1>15. ASSUME CountMore(w) PROVE Sound'
  <2>1. CASE Finish(w)
    BY <1>3, <1>4, <1>15, <2>1 DEF CountMore
  <2>2. CASE /\ seen' = [seen EXCEPT ![w].active = Count({"queued", "running"})]
             /\ Goto(w, "select") /\ UNCHANGED <<then, row, todo, marked>>
    <3>1. seen[w] \in View /\ Count({"queued", "running"}) \in Nat
      BY <1>1, Finite DEF LocalTypes
    <3>2. [seen[w] EXCEPT !.active = Count({"queued", "running"})] \in View
      BY <3>1 DEF View
    <3>3. todo[w] = {} /\ marked[w] = {} /\ row[w] \in Rows
      BY <1>1, <1>15 DEF CountMore
    <3>4. Fits(w, "select", {}, {}) /\ "select" \in Places
      BY <1>2, <3>3, ConstantsAssumption DEF Fits, Places, ConstantsAssumption
    <3> DEFINE v == [seen[w] EXCEPT !.active = Count({"queued", "running"})]
    <3>5. seen' = [seen EXCEPT ![w] = v]
      BY <1>1, <2>2 DEF LocalTypes
    <3> HIDE DEF v
    <3>6. LocalSound'
      BY <1>1, <2>2, <3>2, <3>3, <3>4, <3>5, MoveSound DEF v
    <3> QED BY <1>3, <1>15, <3>6, PartsKept DEF CountMore
  <2> QED BY <1>15, <2>1, <2>2 DEF CountMore
<1> QED BY <1>6, <1>7, <1>8, <1>9, <1>10, <1>11, <1>12, <1>13, <1>14, <1>15 DEF Work

LEMMA CallerSound ==
    ASSUME Sound, NEW c \in Callers, Enqueue(c) \/ CancelPlan(c) \/ Continue(c)
    PROVE  Sound'
<1> USE SoundParts
<1>1. /\ c \in Processes /\ LocalTypes /\ pc[c] \in CallerPlaces /\ c \notin Workers
      /\ pc[c] \notin {"insert", "mark"} => todo[c] = {}
      /\ pc[c] \notin {"mark", "push", "save plan"} => marked[c] = {}
      /\ todo[c] \in SUBSET Rows /\ marked[c] \in SUBSET Rows /\ seen[c] \in View
  BY PlacesKnown, ConstantsAssumption DEF LocalSound, LocalTypes, Shaped, ConstantsAssumption
<1>2. {"insert", "count", "select", "push", "count done", "cancel tasks"}
        \subseteq CallerPlaces \cap Places
  BY DEF CallerPlaces, Enqueueing, Reconciling, Places
<1>3. UNCHANGED boundVars => BoundTypes'
  BY PartsKept
<1>4. ASSUME NEW place \in CallerPlaces \cap Places, Goto(c, place),
             UNCHANGED <<then, row, seen, todo, marked>>,
             todo[c] # {} => place \in {"insert", "mark"},
             marked[c] # {} => place \in {"mark", "push", "save plan"}
      PROVE  LocalSound'
  BY <1>1, <1>4, StepSound DEF Fits
<1>5. ASSUME NEW place \in CallerPlaces \cap Places, Goto(c, place), NEW X \in SUBSET Rows,
             UNCHANGED <<then, row, seen, marked>>, todo' = [todo EXCEPT ![c] = X],
             X # {} => place \in {"insert", "mark"},
             marked[c] # {} => place \in {"mark", "push", "save plan"}
      PROVE  LocalSound'
  <2>1. Fits(c, place, X, marked[c]) /\ todo'[c] = X
    BY <1>1, <1>5 DEF Fits, LocalTypes
  <2> QED BY <1>1, <1>5, <2>1, MoveSound
<1>6. ASSUME Enqueue(c) PROVE Sound'
  <2>1. {c} \X (1..Items) \in SUBSET Rows
    BY DEF Rows
  <2>2. BoundTypes'
    BY <1>6, BoundKept DEF Enqueue
  <2>3. todo[c] = {} /\ marked[c] = {}
    BY <1>1, <1>6 DEF Enqueue
  <2>4. LocalSound'
    BY <1>2, <1>4, <1>5, <1>6, <2>1, <2>3 DEF Enqueue
  <2> QED BY <1>6, <2>2, <2>4, PartsKept DEF Enqueue
<1>7. ASSUME Insert(c) PROVE Sound'
  <2>1. marked[c] = {}
    BY <1>1, <1>7 DEF Insert
  <2>2. CASE Finish(c) /\ UNCHANGED task
    BY <1>1, <1>3, <1>7, <2>2, FinishSound, PartsKept DEF Insert
  <2>3. CASE \E r \in todo[c] : /\ task' = [task EXCEPT ![r] = "pending"]
                                /\ todo' = [todo EXCEPT ![c] = @ \ {r}]
                                /\ UNCHANGED <<pc, then, row, seen, marked>>
    <3>1. PICK r \in todo[c] : /\ task' = [task EXCEPT ![r] = "pending"]
                               /\ todo' = [todo EXCEPT ![c] = todo[c] \ {r}]
      BY <2>3
    <3>2. r \in Rows /\ todo[c] \ {r} \in SUBSET Rows /\ Goto(c, "insert")
      BY <1>1, <1>7, <2>3, <3>1 DEF Insert, Goto, LocalTypes
    <3>3. TaskTypes'
      BY <3>1, <3>2, TaskKept DEF TaskStatuses
    <3>4. LocalSound'
      BY <1>2, <1>5, <2>1, <2>3, <3>1, <3>2
    <3> QED BY <1>3, <1>7, <3>3, <3>4, PartsKept DEF Insert
  <2>4. CASE todo[c] = {} /\ Goto(c, "count") /\ UNCHANGED <<task, then, row, seen, todo, marked>>
    <3>1. LocalSound'
      BY <1>2, <1>4, <2>1, <2>4
    <3> QED BY <1>3, <1>7, <2>4, <3>1, PartsKept DEF Insert
  <2> QED BY <1>7, <2>2, <2>3, <2>4 DEF Insert
<1>8. ASSUME CountTasks(c) PROVE Sound'
  <2>1. Count(TaskStatuses \ {"absent"}) \in Nat /\ Count({"queued", "running"}) \in Nat
    BY Finite
  <2> DEFINE v == [seen[c] EXCEPT !.total = Count(TaskStatuses \ {"absent"}),
                                  !.active = Count({"queued", "running"})]
  <2>2. v \in View
    BY <1>1, <2>1 DEF View
  <2>3. seen' = [seen EXCEPT ![c] = v]
    BY <1>1, <1>8 DEF CountTasks, LocalTypes
  <2>4. Fits(c, "select", {}, {}) /\ todo[c] = {} /\ marked[c] = {}
    BY <1>1, <1>2, <1>8 DEF CountTasks, Fits
  <2> HIDE DEF v
  <2>5. LocalSound'
    BY <1>1, <1>2, <1>8, <2>2, <2>3, <2>4, MoveSound DEF CountTasks
  <2> QED BY <1>3, <1>8, <2>5, PartsKept DEF CountTasks
<1>9. ASSUME SavePlan(c) PROVE Sound'
  <2>1. [stored EXCEPT !.total = seen[c].total] \in [total : Nat, completed : Nat, failed : Nat]
    BY <1>1 DEF PlanTypes, View
  <2>2. PlanTypes'
    BY <1>9, <2>1 DEF SavePlan, SetPlan, PlanTypes, PlanStatuses
  <2>3. todo[c] = {}
    BY <1>1, <1>9 DEF SavePlan
  <2>4. LocalSound'
    BY <1>2, <1>4, <1>9, <2>3 DEF SavePlan
  <2> QED BY <1>3, <1>9, <2>2, <2>4, PartsKept DEF SavePlan
<1>10. ASSUME CancelPlan(c) PROVE Sound'
  <2>1. PlanTypes' /\ BoundTypes'
    BY <1>10, BoundKept DEF CancelPlan, PlanTypes, PlanStatuses
  <2>2. todo[c] = {} /\ marked[c] = {}
    BY <1>1, <1>10 DEF CancelPlan
  <2>3. LocalSound'
    BY <1>2, <1>4, <1>10, <2>2 DEF CancelPlan
  <2> QED BY <1>10, <2>1, <2>3, PartsKept DEF CancelPlan
<1>11. ASSUME CancelTasks(c) PROVE Sound'
  <2>1. TaskTypes'
    <3>1. \A r \in Rows : task'[r] \in {task[r], "canceled"}
                         /\ (task[r] = "absent" => task'[r] = "absent")
      BY <1>11 DEF CancelTasks, Unfinished
    <3>2. task' \in [Rows -> TaskStatuses]
      BY <1>11, <3>1 DEF CancelTasks, TaskTypes, TaskStatuses
    <3> QED BY <3>1, <3>2, TasksEnded
  <2>2. todo[c] = {} /\ marked[c] = {}
    BY <1>1, <1>11 DEF CancelTasks
  <2>3. LocalSound'
    BY <1>2, <1>4, <1>11, <2>2 DEF CancelTasks
  <2> QED BY <1>3, <1>11, <2>1, <2>3, PartsKept DEF CancelTasks
<1> QED BY <1>6, <1>7, <1>8, <1>9, <1>10, <1>11 DEF Continue

LEMMA SoundStep == Sound /\ [Next]_vars => Sound'
<1> SUFFICES ASSUME Sound, [Next]_vars PROVE Sound'
  OBVIOUS
<1> USE SoundParts
<1>1. ASSUME NEW p \in Processes, Crash(p) PROVE Sound'
  BY <1>1, FinishSound, BoundKept, PartsKept DEF Crash
<1>2. CASE DeletePlan
  <2>1. PlanTypes' /\ BoundTypes'
    BY <1>2, BoundKept DEF DeletePlan, PlanTypes, PlanStatuses
  <2>2. TaskTypes'
    BY <1>2, TasksEnded DEF DeletePlan, TaskStatuses
  <2> QED BY <1>2, <2>1, <2>2, PartsKept DEF DeletePlan
<1>3. CASE UNCHANGED vars
  BY <1>3, PartsKept DEF vars
<1> QED BY <1>1, <1>2, <1>3, SharedSound, WorkSound, CallerSound DEF Next

LEMMA InitSound == Init => Sound
<1> SUFFICES ASSUME Init PROVE Sound
  OBVIOUS
<1> USE DEF Init
<1>1. PlanTypes /\ QueueTypes /\ BoundTypes
  BY ConstantsAssumption
     DEF PlanTypes, PlanStatuses, QueueTypes, BoundTypes, ConstantsAssumption
<1>2. Existing = {}
  BY DEF Existing, WithStatus
<1>3. TaskTypes
  BY <1>2, FS_EmptySet DEF TaskTypes, TaskStatuses
<1>4. NothingSeen \in View
  BY DEF NothingSeen, View, PlanStatuses
<1>5. LocalSound
  BY <1>4 DEF LocalSound, LocalTypes, Shaped, Places, WorkerPlaces, CallerPlaces, Processes
<1> QED BY <1>1, <1>3, <1>5, SoundParts

(* Plan, tasks, queue and processes keep their types, for any number of      *)
(* workers, requests and tasks.                                             *)
THEOREM EvalRunTypes == Spec => []TypeOK
<1>1. Sound => TypeOK
  BY DEF Sound
<1> QED BY <1>1, InitSound, SoundStep, PTL DEF Spec

-------------------------------------------------------------------------------
(* One request inserts the tasks. *)

LEMMA UsedBefore ==
    ASSUME Sound, [Next]_vars, ~\E c \in Callers : Enqueue(c), NEW r \in Rows, Used(r)'
    PROVE  Used(r)
<1> USE SoundParts DEF Used
<1>1. LocalTypes /\ TaskTypes
  BY DEF LocalSound
<1>2. ASSUME UNCHANGED <<task, todo>> PROVE Used(r)
  BY <1>2
<1>3. ASSUME UNCHANGED task, NEW p \in Processes, todo' = [todo EXCEPT ![p] = {}] PROVE Used(r)
  BY <1>1, <1>3 DEF LocalTypes
<1>4. ASSUME NEW p \in Processes, Shared(p) PROVE Used(r)
  <2>1. CASE Select(p)
    BY <1>1, <2>1 DEF Select, WithStatus, LocalTypes
  <2>2. CASE Mark(p)
    <3>1. CASE UNCHANGED <<task, todo>>
      BY <1>2, <3>1
    <3>2. CASE \E q \in todo[p] : SetTask(q, "queued") /\ todo' = [todo EXCEPT ![p] = @ \ {q}]
      BY <1>1, <3>2 DEF SetTask, LocalTypes, TaskTypes
    <3> QED BY <2>2, <3>1, <3>2 DEF Mark
  <2>3. CASE Push(p) \/ WritePlan(p)
    BY <1>2, <1>3, <2>3 DEF Push, WritePlan, Finish
  <2>4. CASE CountDone(p) \/ CountActive(p) \/ ReadStatus(p)
    BY <1>2, <2>4 DEF CountDone, CountActive, ReadStatus
  <2> QED BY <1>4, <2>1, <2>2, <2>3, <2>4 DEF Shared
<1>5. ASSUME NEW w \in Workers, Work(w) PROVE Used(r)
  <2>1. CASE StartTask(w) \/ SetResult(w)
    BY <1>1, <2>1 DEF StartTask, SetResult, SetTask, TaskTypes
  <2>2. CASE Pop(w) \/ StartPlan(w) \/ Evaluate(w) \/ Judge(w)
    BY <1>2, <2>2 DEF Pop, StartPlan, Evaluate, Judge
  <2>3. CASE ReadTask(w) \/ CheckLimit(w) \/ Install(w) \/ QueueMore(w) \/ CountMore(w)
    BY <1>2, <1>3, <2>3, PlacesKnown DEF ReadTask, CheckLimit, Install, QueueMore, CountMore, Finish
  <2> QED BY <1>5, <2>1, <2>2, <2>3 DEF Work
<1>6. ASSUME NEW c \in Callers, CancelPlan(c) \/ Continue(c) PROVE Used(r)
  <2>1. CASE Insert(c)
    <3>1. CASE Finish(c) /\ UNCHANGED task
      BY <1>3, <3>1, PlacesKnown DEF Finish
    <3>2. CASE UNCHANGED <<task, todo>>
      BY <1>2, <3>2
    <3>3. CASE \E q \in todo[c] : /\ task' = [task EXCEPT ![q] = "pending"]
                                  /\ todo' = [todo EXCEPT ![c] = @ \ {q}]
      BY <1>1, <3>3, PlacesKnown DEF LocalTypes, TaskTypes
    <3> QED BY <2>1, <3>1, <3>2, <3>3 DEF Insert
  <2>2. CASE CancelTasks(c)
    BY <2>2 DEF CancelTasks, Unfinished
  <2>3. CASE CancelPlan(c) \/ CountTasks(c) \/ SavePlan(c)
    BY <1>2, <2>3 DEF CancelPlan, CountTasks, SavePlan
  <2> QED BY <1>6, <2>1, <2>2, <2>3 DEF Continue
<1>7. ASSUME NEW p \in Processes, Crash(p) PROVE Used(r)
  BY <1>3, <1>7 DEF Crash, Finish
<1>8. CASE DeletePlan
  BY <1>8 DEF DeletePlan, localVars
<1>9. CASE UNCHANGED vars
  BY <1>2, <1>9 DEF vars, localVars
<1> QED BY <1>4, <1>5, <1>6, <1>7, <1>8, <1>9 DEF Next

(* Nothing happens to a plan before it is enqueued, except its deletion.    *)
LEMMA UnusedStep ==
    ASSUME Sound, Unused, [Next]_vars
    PROVE  \/ \E c \in Callers : Enqueue(c)
           \/ Unused' /\ UNCHANGED <<task, enqueues>> /\ (plan' = plan \/ cancels' = cancels + 1)
<1>1. \A p \in Processes : pc[p] = "idle"
  BY DEF Unused
<1>2. \A w \in Workers : ~Work(w)
  BY <1>1, PlacesKnown DEF Unused, Work, Pop, ReadTask, CheckLimit, StartTask, StartPlan, Install,
     Evaluate, Judge, SetResult, QueueMore, CountMore
<1>3. \A c \in Callers : ~CancelPlan(c) /\ ~Continue(c)
  BY <1>1, PlacesKnown DEF Unused, CancelPlan, Continue, Insert, CountTasks, SavePlan, CancelTasks
<1>4. \A p \in Processes : ~Shared(p) /\ ~Crash(p)
  BY <1>1 DEF Shared, Select, Mark, Push, CountDone, CountActive, ReadStatus, WritePlan, Crash
<1>5. CASE DeletePlan
  <2>1. \A r \in Rows : task'[r] = "absent"
    BY <1>5 DEF DeletePlan
  <2>2. task' = task
    BY <1>5, SoundParts DEF DeletePlan, TaskTypes, Unused
  <2> QED BY <1>5, <2>1, <2>2 DEF DeletePlan, Unused, localVars
<1>6. CASE UNCHANGED vars
  BY <1>6 DEF vars, planVars, localVars, boundVars, Unused
<1> QED BY <1>2, <1>3, <1>4, <1>5, <1>6 DEF Next

LEMMA EnqueuesGrow ==
    ASSUME Sound, [Next]_vars
    PROVE  /\ enqueues \in Nat /\ cancels \in Nat /\ faults \in Nat
           /\ UNCHANGED limit
           /\ IF \E c \in Callers : Enqueue(c) THEN enqueues' = enqueues + 1
              ELSE enqueues' = enqueues
           /\ cancels' \in {cancels, cancels + 1} /\ faults' \in {faults, faults + 1}
<1>1. enqueues \in Nat /\ cancels \in Nat /\ faults \in Nat
  BY SoundParts DEF BoundTypes
<1>2. ASSUME NEW c \in Callers, Enqueue(c)
      PROVE  enqueues' = enqueues + 1 /\ UNCHANGED <<limit, cancels, faults>>
  BY <1>2 DEF Enqueue, planVars
<1>3. ASSUME NEW p \in Processes, Shared(p) PROVE UNCHANGED <<limit, enqueues, cancels, faults>>
  BY <1>3 DEF Shared, Select, Mark, Push, CountDone, CountActive, ReadStatus, WritePlan, planVars,
              boundVars
<1>4. ASSUME NEW w \in Workers, Work(w)
      PROVE  UNCHANGED <<limit, enqueues, cancels>> /\ faults' \in {faults, faults + 1}
  BY <1>4 DEF Work, Pop, ReadTask, CheckLimit, StartTask, StartPlan, Install, Evaluate, Judge,
              SetResult, QueueMore, CountMore, planVars, boundVars
<1>5. ASSUME NEW c \in Callers, CancelPlan(c) \/ Continue(c)
      PROVE  UNCHANGED <<limit, enqueues, faults>> /\ cancels' \in {cancels, cancels + 1}
  BY <1>5 DEF CancelPlan, Continue, Insert, CountTasks, SavePlan, CancelTasks, planVars, boundVars
<1>6. ASSUME \/ \E p \in Processes : Crash(p)
             \/ DeletePlan
             \/ UNCHANGED vars
      PROVE  /\ UNCHANGED <<limit, enqueues>>
             /\ cancels' \in {cancels, cancels + 1} /\ faults' \in {faults, faults + 1}
  BY <1>6 DEF Crash, DeletePlan, vars, planVars, boundVars
<1> QED BY <1>1, <1>2, <1>3, <1>4, <1>5, <1>6 DEF Next

LEMMA EnqueuedStep == Sound /\ EnqueuedOnce /\ [Next]_vars => EnqueuedOnce'
<1> SUFFICES ASSUME Sound, EnqueuedOnce, [Next]_vars PROVE EnqueuedOnce'
  OBVIOUS
<1>1. ASSUME ~\E c \in Callers : Enqueue(c) PROVE EnqueuedOnce'
  <2>1. enqueues' = enqueues
    BY <1>1, EnqueuesGrow
  <2>2. enqueues' = 0 => Unused'
    BY <1>1, <2>1, UnusedStep DEF EnqueuedOnce
  <2> QED BY <1>1, <2>1, <2>2, UsedBefore DEF EnqueuedOnce
<1>2. ASSUME NEW c \in Callers, Enqueue(c) PROVE EnqueuedOnce'
  <2>1. enqueues \in Nat /\ enqueues' = enqueues + 1
    BY <1>2, EnqueuesGrow
  <2>2. ASSUME enqueues' <= 1, NEW r \in Rows, Used(r)' PROVE r[1] = c
    <3>1. enqueues = 0 /\ Unused
      BY <2>1, <2>2 DEF EnqueuedOnce
    <3>2. \A p \in Processes : todo[p] = {}
      BY <3>1, SoundParts DEF Unused, LocalSound, Shaped
    <3>3. task'[r] = "absent" /\ \A p \in Processes : todo'[p] = {} \/ todo'[p] = {c} \X (1..Items)
      BY <1>2, <3>1, <3>2, SoundParts DEF Enqueue, Unused, LocalSound, LocalTypes
    <3>4. r \in {c} \X (1..Items)
      BY <2>2, <3>3 DEF Used
    <3> QED BY <3>4
  <2> QED BY <2>1, <2>2 DEF EnqueuedOnce
<1> QED BY <1>1, <1>2

-------------------------------------------------------------------------------
(* The one task a sequential plan is at. *)
AloneNow == OneCarrier /\ OneSelected /\ OneRunning /\ NotDone

LEMMA RowsOf ==
    ASSUME Sound, NEW p \in Processes
    PROVE  /\ todo[p] \subseteq Rows /\ marked[p] \subseteq Rows
           /\ todo[p] # {} => Carries(p) /\ pc[p] \in {"insert", "mark"}
           /\ marked[p] # {} => Carries(p) /\ pc[p] \in {"mark", "push", "save plan"}
           /\ p \in Workers /\ pc[p] \in Held => Carries(p) /\ row[p] \in Rows
BY SoundParts, ConstantsAssumption
   DEF LocalSound, LocalTypes, Shaped, Carries, Enqueueing, CallerPlaces, WorkerPlaces, Held, InRun,
       Processes, ConstantsAssumption

(* One process goes on with what it has, or gives it up, and no task begins *)
(* to run or ends.                                                          *)
LEMMA AloneKept ==
    ASSUME Sound, Sound', AloneNow, NEW p \in Processes, UNCHANGED queue,
           \A q \in Processes \ {p} : UNCHANGED <<pc[q], todo[q], marked[q]>>,
           \A w \in Workers \ {p} : UNCHANGED row[w],
           \A r \in Rows : /\ task'[r] = "running" => task[r] = "running"
                           /\ task'[r] \in Done => task[r] \in Done,
           Carries(p)' => Carries(p),
           todo'[p] \cup marked'[p] \subseteq todo[p] \cup marked[p],
           pc'[p] # "insert" /\ todo'[p] \cup marked'[p] # {}
             => pc[p] # "insert" /\ (todo'[p] # {} => marked'[p] = {}),
           p \in Workers /\ pc[p] \in InRun /\ Carries(p)' => pc'[p] \in InRun /\ row'[p] = row[p],
           p \in Workers /\ pc'[p] \in Held => pc[p] \in Held /\ row'[p] = row[p]
    PROVE  AloneNow'
<1>1. \A q \in Processes : Carries(q)' => Carries(q)
  BY DEF Carries
<1>2. OneCarrier'
  BY <1>1 DEF AloneNow, OneCarrier
<1>3. OneSelected'
  BY DEF AloneNow, OneSelected
<1>4. WithStatus({"running"})' \subseteq WithStatus({"running"})
  BY DEF WithStatus
<1>5. OneRunning'
  <2>1. \A r, s \in WithStatus({"running"})' : r = s
    BY <1>4 DEF AloneNow, OneRunning
  <2>2. ASSUME NEW r \in WithStatus({"running"})', NEW q \in Processes, Carries(q)'
        PROVE  q \in Workers /\ row'[q] = r /\ pc'[q] \in InRun
    BY <1>1, <1>4, <2>2 DEF AloneNow, OneRunning
  <2> QED BY <1>4, <2>1, <2>2 DEF AloneNow, OneRunning
<1>6. NotDone'
  <2>1. \A r \in Range(queue') : task'[r] \notin Done
    BY SoundParts DEF AloneNow, NotDone, Range, QueueTypes
  <2>2. ASSUME NEW q \in Processes, NEW r \in todo'[q] \cup marked'[q] PROVE task'[r] \notin Done
    <3>1. r \in todo[q] \cup marked[q] /\ r \in Rows
      BY <2>2, RowsOf
    <3> QED BY <3>1 DEF AloneNow, NotDone
  <2>3. ASSUME NEW w \in Workers, pc'[w] \in Held PROVE task'[row'[w]] \notin Done
    <3>1. pc[w] \in Held /\ row'[w] = row[w] /\ row[w] \in Rows
      BY <2>3, RowsOf, PlacesKnown
    <3> QED BY <3>1 DEF AloneNow, NotDone
  <2> QED BY <2>1, <2>2, <2>3 DEF NotDone
<1> QED BY <1>2, <1>3, <1>5, <1>6 DEF AloneNow

(* A process ends: what it had is lost. *)
LEMMA FinishAlone ==
    ASSUME Sound, Sound', AloneNow, NEW p \in Processes, Finish(p), UNCHANGED <<task, queue>>
    PROVE  AloneNow'
<1>1. /\ \A q \in Processes \ {p} : UNCHANGED <<pc[q], todo[q], marked[q]>>
      /\ \A w \in Workers \ {p} : UNCHANGED row[w]
      /\ pc'[p] = "idle" /\ todo'[p] = {} /\ marked'[p] = {}
  BY SoundParts DEF Finish, Goto, LocalSound, LocalTypes
<1>2. ~Carries(p)' /\ "idle" \notin Held
  BY <1>1 DEF Carries, Enqueueing, Held, InRun
<1> QED BY <1>1, <1>2, AloneKept

(* A process goes on, and what it has stays as it is. *)
LEMMA MoveAlone ==
    ASSUME Sound, Sound', AloneNow, NEW p \in Processes, NEW place, Goto(p, place),
           UNCHANGED <<task, queue, row, todo, marked>>,
           Carries(p)' => Carries(p),
           todo[p] # {} => pc[p] # "insert" \/ place = "insert",
           p \in Workers /\ pc[p] \in InRun => place \in InRun,
           p \in Workers /\ place \in Held => pc[p] \in Held
    PROVE  AloneNow'
<1>1. pc'[p] = place /\ \A q \in Processes \ {p} : pc'[q] = pc[q]
  BY SoundParts DEF Goto, LocalSound, LocalTypes
<1>2. pc[p] = "insert" => marked[p] = {}
  BY RowsOf
<1>3. pc'[p] # "insert" /\ todo'[p] \cup marked'[p] # {}
             => pc[p] # "insert" /\ (todo'[p] # {} => marked'[p] = {})
  BY <1>1, <1>2 DEF AloneNow, OneSelected
<1> QED BY <1>1, <1>3, AloneKept

(* A set with at most one element. *)
LEMMA AtMostOne ==
    ASSUME NEW S, IsFiniteSet(S)
    PROVE  Cardinality(S) <= 1 <=> \A x, y \in S : x = y
<1>1. ASSUME Cardinality(S) <= 1, NEW x \in S, NEW y \in S PROVE x = y
  <2>1. Cardinality(S) \in Nat /\ Cardinality(S) # 0
    BY <1>1, FS_EmptySet, FS_CardinalityType
  <2>2. Cardinality(S) = 1
    BY <1>1, <2>1
  <2> QED BY <2>2, FS_Singleton
<1>2. ASSUME \A x, y \in S : x = y PROVE Cardinality(S) <= 1
  <2>1. CASE S = {}
    BY <2>1, FS_EmptySet
  <2>2. CASE S # {}
    <3>1. PICK x : S = {x}
      BY <1>2, <2>2
    <3> QED BY <3>1, FS_Singleton
  <2> QED BY <2>1, <2>2
<1> QED BY <1>1, <1>2

LEMMA SelectAlone ==
    ASSUME Sound, Sound', AloneNow, limit = 1, NEW p \in Processes, Select(p)
    PROVE  AloneNow'
<1>1. Carries(p) /\ pc[p] \notin InRun
  BY DEF Select, Carries, Processes, InRun, Enqueueing
<1>2. WithStatus({"running"}) = {} /\ WithStatus({"running"})' = {} /\ queue = <<>>
  BY <1>1, SoundParts DEF AloneNow, OneCarrier, OneRunning, Select, WithStatus, QueueTypes
<1>3. /\ \A q \in Processes \ {p} : UNCHANGED <<pc[q], todo[q], marked[q]>>
      /\ UNCHANGED <<row, marked, task, queue>> /\ pc'[p] = "mark" /\ marked[p] = {}
  BY SoundParts, RowsOf DEF Select, Goto, LocalSound, LocalTypes
<1>4. PICK S \in SUBSET WithStatus({"pending"}) :
        IsFirst(S, Free(seen[p].active)) /\ todo' = [todo EXCEPT ![p] = S]
  BY DEF Select
<1>5. IsFiniteSet(S) /\ Cardinality(S) \in Nat
  BY Finite, FS_Subset, FS_CardinalityType, SoundParts
<1>6. Free(seen[p].active) \in {0, 1} \/ seen[p].active \notin Nat
  BY DEF Free
<1>7. Cardinality(S) <= 1
  <2>1. Cardinality(WithStatus({"pending"})) \in Nat /\ seen[p].active \in Nat
    BY Finite, SoundParts DEF Count, LocalSound, LocalTypes, View
  <2> QED BY <1>4, <1>6, <2>1 DEF IsFirst
<1>8. todo'[p] = S /\ \A r, s \in S : r = s
  BY <1>4, <1>5, <1>7, AtMostOne, SoundParts DEF LocalSound, LocalTypes
<1>9. \A r \in S : task[r] \notin Done
  BY DEF WithStatus, Done
<1>10. \A q \in Processes : Carries(q)' => Carries(q)
  BY <1>1, <1>3 DEF Carries
<1>11. OneCarrier' /\ OneRunning'
  BY <1>2, <1>3, <1>10 DEF AloneNow, OneCarrier, OneRunning
<1>12. OneSelected'
  BY <1>3, <1>8 DEF AloneNow, OneSelected
<1>13. NotDone'
  BY <1>3, <1>8, <1>9, PlacesKnown DEF AloneNow, NotDone, Held, InRun
<1> QED BY <1>11, <1>12, <1>13 DEF AloneNow

LEMMA MarkAlone ==
    ASSUME Sound, Sound', AloneNow, NEW p \in Processes, Mark(p)
    PROVE  AloneNow'
<1>1. Carries(p)
  BY DEF Mark, Carries, Processes, Enqueueing
<1>2. CASE /\ todo[p] = {} /\ Goto(p, IF p \in Workers THEN "push" ELSE "save plan")
           /\ UNCHANGED <<task, todo, marked>>
  <2>1. {"push", "save plan"} \cap Held = {} /\ pc[p] \notin InRun
    BY DEF Mark, Held, InRun
  <2> QED BY <1>1, <1>2, <2>1, MoveAlone DEF Mark
<1>3. CASE \E r \in todo[p] : /\ SetTask(r, "queued") /\ todo' = [todo EXCEPT ![p] = @ \ {r}]
                              /\ marked' = [marked EXCEPT ![p] = @ \cup {r}] /\ UNCHANGED pc
  <2>1. PICK r \in todo[p] : /\ SetTask(r, "queued") /\ todo' = [todo EXCEPT ![p] = @ \ {r}]
                             /\ marked' = [marked EXCEPT ![p] = @ \cup {r}] /\ UNCHANGED pc
    BY <1>3
  <2>2. /\ \A q \in Processes \ {p} : UNCHANGED <<pc[q], todo[q], marked[q]>>
        /\ todo'[p] = todo[p] \ {r} /\ marked'[p] = marked[p] \cup {r}
    BY <2>1, SoundParts DEF LocalSound, LocalTypes
  <2>3. todo'[p] = {} /\ pc[p] \notin Held \cup InRun
    <3>1. pc[p] = "mark" /\ pc[p] \notin Held \cup InRun
      BY DEF Mark, Held, InRun
    <3>2. \A q \in todo[p] : q = r
      BY <2>1, <3>1 DEF AloneNow, OneSelected
    <3> QED BY <2>2, <3>1, <3>2
  <2>4. \A q \in Rows : task'[q] \in {task[q], "queued"}
    BY <2>1, SoundParts DEF SetTask, TaskTypes
  <2>5. UNCHANGED <<queue, row>> /\ pc[p] # "insert"
    BY DEF Mark
  <2>6. \A q \in Rows : /\ task'[q] = "running" => task[q] = "running"
                        /\ task'[q] \in Done => task[q] \in Done
    BY <2>4 DEF Done
  <2> QED BY <1>1, <2>1, <2>2, <2>3, <2>5, <2>6, AloneKept
<1> QED BY <1>2, <1>3 DEF Mark

LEMMA PushAlone ==
    ASSUME Sound, Sound', AloneNow, NEW p \in Processes, Push(p)
    PROVE  AloneNow'
<1>1. CASE Finish(p) /\ UNCHANGED queue
  BY <1>1, FinishAlone DEF Push
<1>2. CASE \E r \in marked[p] : /\ queue' = Append(queue, r)
                                /\ marked' = [marked EXCEPT ![p] = @ \ {r}]
                                /\ UNCHANGED <<pc, then, row, seen, todo>>
  <2>1. PICK r \in marked[p] : /\ queue' = Append(queue, r)
                               /\ marked' = [marked EXCEPT ![p] = @ \ {r}]
                               /\ UNCHANGED <<pc, then, row, seen, todo>>
    BY <1>2
  <2>2. Carries(p) /\ pc[p] \notin InRun /\ pc[p] # "insert"
    BY <2>1 DEF Push, Carries, InRun
  <2>3. queue = <<>> /\ WithStatus({"running"}) = {}
    BY <2>2 DEF AloneNow, OneCarrier, OneRunning
  <2>4. /\ \A q \in Processes \ {p} : UNCHANGED marked[q]
        /\ marked'[p] = {} /\ todo'[p] = {}
    <3>1. marked \in [Processes -> SUBSET Rows]
      BY SoundParts DEF LocalSound, LocalTypes
    <3>2. \A q \in marked[p] : q = r
      BY <2>1, <2>2 DEF AloneNow, OneSelected
    <3>3. todo[p] = {}
      BY RowsOf DEF Push
    <3> QED BY <2>1, <3>1, <3>2, <3>3
  <2>5. \A q \in Processes : ~Carries(q)'
    <3>1. pc[p] = "push" /\ UNCHANGED pc
      BY <2>1 DEF Push
    <3>2. ~Carries(p)'
      BY <2>4, <3>1, ConstantsAssumption DEF Carries, Enqueueing, ConstantsAssumption
    <3>3. \A q \in Processes \ {p} : ~Carries(q)
      BY <2>2 DEF AloneNow, OneCarrier
    <3>4. \A q \in Processes \ {p} : ~Carries(q)'
      BY <2>4, <3>1, <3>3 DEF Carries
    <3> QED BY <3>2, <3>4
  <2>6. Len(queue') = 1 /\ Range(queue') = {r}
    BY <2>1, <2>3 DEF Range
  <2>7. OneCarrier' /\ OneRunning' /\ UNCHANGED task
    BY <2>3, <2>5, <2>6 DEF OneCarrier, OneRunning, WithStatus, Push
  <2>8. OneSelected'
    BY <2>1, <2>4 DEF AloneNow, OneSelected
  <2>9. NotDone'
    BY <2>1, <2>4, <2>6, <2>7 DEF AloneNow, NotDone
  <2> QED BY <2>7, <2>8, <2>9 DEF AloneNow
<1> QED BY <1>1, <1>2 DEF Push

LEMMA PopAlone ==
    ASSUME Sound, Sound', AloneNow, NEW w \in Workers, Pop(w)
    PROVE  AloneNow'
<1>1. queue \in Seq(Rows) /\ Len(queue) = 1 /\ \A p \in Processes : ~Carries(p)
  BY SoundParts DEF Pop, AloneNow, OneCarrier, QueueTypes
<1>2. queue' = <<>> /\ Head(queue) \in Range(queue)
  BY <1>1 DEF Pop, Range
<1>3. WithStatus({"running"}) = {}
  BY DEF Pop, AloneNow, OneRunning
<1>4. /\ UNCHANGED <<task, todo, marked>> /\ row'[w] = Head(queue) /\ pc'[w] = "read"
      /\ \A q \in Processes \ {w} : pc'[q] = pc[q]
      /\ \A v \in Workers \ {w} : row'[v] = row[v]
  BY SoundParts, PlacesKnown DEF Pop, Goto, LocalSound, LocalTypes
<1>5. \A p \in Processes \ {w} : ~Carries(p)'
  BY <1>1, <1>4 DEF Carries
<1>6. OneCarrier' /\ OneRunning'
  BY <1>2, <1>3, <1>4, <1>5 DEF OneCarrier, OneRunning, WithStatus
<1>7. OneSelected'
  BY <1>1, <1>4, RowsOf DEF AloneNow, OneSelected
<1>8. NotDone'
  BY <1>2, <1>4, PlacesKnown DEF AloneNow, NotDone, Range
<1> QED BY <1>6, <1>7, <1>8 DEF AloneNow

(* The task a worker is at is written by it.  "read", "limit" and "start"    *)
(* are left before it runs.                                                 *)
LEMMA WriteAlone ==
    ASSUME Sound, Sound', AloneNow, NEW w \in Workers, StartTask(w) \/ SetResult(w)
    PROVE  AloneNow'
<1>1. w \in Processes /\ Carries(w) /\ pc[w] \in Held /\ row[w] \in Rows /\ pc[w] # "idle"
      /\ pc[w] \notin {"insert", "mark", "push", "save plan"}
  BY PlacesKnown, SoundParts DEF StartTask, SetResult, Carries, Held, InRun, LocalSound, Shaped
<1>2. queue = <<>> /\ queue' = <<>> /\ UNCHANGED <<row, todo, marked>>
      /\ \A p \in Processes \ {w} : ~Carries(p)
  BY <1>1 DEF AloneNow, OneCarrier, StartTask, SetResult
<1>3. \A p \in Processes : todo[p] = {} /\ marked[p] = {}
  BY <1>1, <1>2, RowsOf
<1>4. \A p \in Processes \ {w} : pc'[p] = pc[p] /\ ~Carries(p)'
  BY <1>1, <1>2, SoundParts DEF StartTask, SetResult, Goto, LocalSound, LocalTypes, Carries
<1>5. \A r \in Rows \ {row[w]} : task'[r] = task[r] /\ task[r] # "running"
  BY <1>1, SoundParts DEF StartTask, SetResult, SetTask, TaskTypes, AloneNow, OneRunning, WithStatus
<1>6. \A r, s \in WithStatus({"running"})' : r = s /\ r = row[w]
  BY <1>5 DEF WithStatus
<1>7. OneCarrier' /\ OneSelected'
  BY <1>2, <1>3, <1>4 DEF OneCarrier, OneSelected
<1>8. \A v \in Workers \ {w} : pc'[v] \notin Held
  BY <1>4, PlacesKnown DEF Carries, Held, InRun
<1>9. CASE StartTask(w)
  <2>1. pc'[w] = "startPlan" /\ task'[row[w]] \in {"running", "absent"}
    BY <1>1, <1>9, SoundParts DEF StartTask, Goto, SetTask, LocalSound, LocalTypes, TaskTypes
  <2>2. OneRunning'
    BY <1>2, <1>4, <1>6, <2>1 DEF OneRunning, InRun
  <2>3. NotDone'
    BY <1>2, <1>3, <1>8, <2>1 DEF NotDone, Range, Done
  <2> QED BY <1>7, <2>2, <2>3 DEF AloneNow
<1>10. CASE SetResult(w)
  <2>1. pc'[w] = "count done" /\ task'[row[w]] # "running"
    BY <1>1, <1>10, SoundParts DEF SetResult, Goto, SetTask, LocalSound, LocalTypes, TaskTypes
  <2>2. WithStatus({"running"})' = {}
    BY <1>6, <2>1 DEF WithStatus
  <2>3. OneRunning'
    BY <2>2 DEF OneRunning
  <2>4. NotDone'
    <3>1. \A v \in Workers : pc'[v] \notin Held
      BY <1>8, <2>1 DEF Held, InRun
    <3>2. Range(queue') = {}
      BY <1>2 DEF Range
    <3> QED BY <1>2, <1>3, <3>1, <3>2 DEF NotDone
  <2> QED BY <1>7, <2>3, <2>4 DEF AloneNow
<1> QED BY <1>9, <1>10

LEMMA EnqueueAlone ==
    ASSUME Sound, Sound', Unused, NEW c \in Callers, Enqueue(c)
    PROVE  AloneNow'
<1>1. c \in Processes /\ c \notin Workers
  BY ConstantsAssumption, PlacesKnown DEF ConstantsAssumption
<1>2. \A p \in Processes : todo[p] = {} /\ marked[p] = {}
  BY SoundParts DEF Unused, LocalSound, Shaped
<1>3. /\ \A p \in Processes \ {c} : pc'[p] = "idle" /\ todo'[p] = {}
      /\ \A p \in Processes : marked'[p] = {}
      /\ \/ pc'[c] = "insert"
         \/ pc'[c] = "count" /\ todo'[c] = {}
      /\ UNCHANGED <<queue, task>>
  BY <1>1, <1>2, SoundParts DEF Enqueue, Goto, Unused, LocalSound, LocalTypes
<1>4. \A p \in Processes \ {c} : ~Carries(p)'
  BY <1>3 DEF Carries, Enqueueing
<1>5. OneCarrier' /\ OneSelected'
  BY <1>3, <1>4 DEF OneCarrier, OneSelected, Unused
<1>6. OneRunning'
  BY <1>3 DEF OneRunning, WithStatus, Unused
<1>7. \A r \in Rows : task'[r] \notin Done
  BY <1>3 DEF Unused, Done
<1>8. NotDone'
  <2>1. \A w \in Workers : pc'[w] \notin Held
    BY <1>1, <1>3, PlacesKnown DEF Held, InRun
  <2>2. \A p \in Processes : todo'[p] \subseteq Rows /\ marked'[p] \subseteq Rows
    BY SoundParts DEF LocalSound, LocalTypes
  <2> QED BY <1>3, <1>7, <2>1, <2>2 DEF NotDone, Unused, Range
<1> QED BY <1>5, <1>6, <1>8 DEF AloneNow

LEMMA DeleteAlone ==
    ASSUME Sound, Sound', AloneNow, UNCHANGED <<queue, localVars>>,
           \A r \in Rows : task'[r] \in {task[r], "absent"}
    PROVE  AloneNow'
<1>1. \A r \in Rows : /\ task'[r] = "running" => task[r] = "running"
                      /\ task'[r] \in Done => task[r] \in Done
  BY DEF Done
<1>2. OneCarrier' /\ OneSelected'
  BY DEF AloneNow, OneCarrier, OneSelected, Carries, localVars
<1>3. OneRunning'
  BY <1>1 DEF AloneNow, OneRunning, WithStatus, Carries, localVars
<1>4. NotDone'
  <2>1. \A r \in Range(queue') : task'[r] \notin Done
    BY <1>1, SoundParts DEF AloneNow, NotDone, Range, QueueTypes
  <2>2. ASSUME NEW q \in Processes, NEW r \in todo'[q] \cup marked'[q] PROVE task'[r] \notin Done
    <3>1. r \in todo[q] \cup marked[q] /\ r \in Rows
      BY <2>2, RowsOf DEF localVars
    <3> QED BY <1>1, <3>1 DEF AloneNow, NotDone
  <2>3. ASSUME NEW w \in Workers, pc'[w] \in Held PROVE task'[row'[w]] \notin Done
    <3>1. pc[w] \in Held /\ row'[w] = row[w] /\ row[w] \in Rows
      BY <2>3, RowsOf, PlacesKnown DEF localVars
    <3> QED BY <1>1, <3>1 DEF AloneNow, NotDone
  <2> QED BY <2>1, <2>2, <2>3 DEF NotDone
<1> QED BY <1>2, <1>3, <1>4 DEF AloneNow

LEMMA WorkAlone ==
    ASSUME Sound, Sound', AloneNow, NEW w \in Workers, Work(w)
    PROVE  AloneNow'
<1>1. w \in Processes /\ (pc[w] \notin {"idle", "push"} => Carries(w))
  BY PlacesKnown DEF Carries
<1>2. pc[w] # "idle" /\ pc[w] # "push" /\ todo[w] # {} => pc[w] \in {"insert", "mark"}
  BY <1>1, RowsOf
<1>3. CASE Pop(w) \/ StartTask(w) \/ SetResult(w)
  BY <1>3, PopAlone, WriteAlone
<1>4. CASE ReadTask(w)
  <2>1. CASE Finish(w)
    BY <1>1, <1>4, <2>1, FinishAlone DEF ReadTask
  <2>2. ASSUME NEW place \in {"set canceled", "limit"}, Goto(w, place), UNCHANGED <<row, todo, marked>>
        PROVE  AloneNow'
    <3>1. pc[w] = "read" /\ pc[w] \in Held /\ pc[w] \notin InRun
      BY <1>4 DEF ReadTask, Held, InRun
    <3> QED BY <1>1, <1>4, <2>2, <3>1, MoveAlone DEF ReadTask
  <2> QED BY <1>4, <2>1, <2>2 DEF ReadTask
<1>5. CASE CheckLimit(w)
  <2>1. CASE Finish(w)
    BY <1>1, <1>5, <2>1, FinishAlone DEF CheckLimit
  <2>2. CASE Goto(w, "start") /\ UNCHANGED <<row, todo, marked>>
    <3>1. pc[w] = "limit" /\ pc[w] \in Held /\ pc[w] \notin InRun
      BY <1>5 DEF CheckLimit, Held, InRun
    <3> QED BY <1>1, <1>5, <2>2, <3>1, MoveAlone DEF CheckLimit
  <2> QED BY <1>5, <2>1, <2>2 DEF CheckLimit
<1>6. CASE StartPlan(w) \/ Evaluate(w) \/ Judge(w)
  <2>1. PICK place \in {"install", "judge ok", "judge error", "set canceled", "set succeeded",
                        "set failed"} : Goto(w, place)
    BY <1>6 DEF StartPlan, Evaluate, Judge
  <2>2. pc[w] \in {"startPlan", "eval", "judge ok", "judge error"}
        /\ UNCHANGED <<task, queue, row, todo, marked>>
    BY <1>6 DEF StartPlan, Evaluate, Judge
  <2>3. pc[w] \in InRun /\ pc[w] \in Held /\ place \in InRun
    BY <2>1, <2>2 DEF Held, InRun
  <2> QED BY <1>1, <2>1, <2>2, <2>3, MoveAlone
<1>7. CASE Install(w)
  <2>1. CASE Finish(w)
    BY <1>1, <1>7, <2>1, FinishAlone DEF Install
  <2>2. CASE Goto(w, "eval") /\ UNCHANGED <<row, todo, marked>>
    <3>1. pc[w] = "install" /\ pc[w] \in Held /\ "eval" \in InRun
      BY <1>7 DEF Install, Held, InRun
    <3> QED BY <1>1, <1>7, <2>2, <3>1, MoveAlone DEF Install
  <2> QED BY <1>7, <2>1, <2>2 DEF Install
<1>8. CASE QueueMore(w) \/ CountMore(w)
  <2>1. CASE Finish(w)
    BY <1>1, <1>8, <2>1, FinishAlone DEF QueueMore, CountMore
  <2>2. ASSUME NEW place \in {"more count", "select"}, Goto(w, place), UNCHANGED <<row, todo, marked>>
        PROVE  AloneNow'
    <3>1. pc[w] \in {"more", "more count"} /\ place \notin Held /\ pc[w] \notin InRun
          /\ UNCHANGED <<task, queue>>
      BY <1>8 DEF QueueMore, CountMore, Held, InRun
    <3> QED BY <1>1, <2>2, <3>1, MoveAlone
  <2> QED BY <1>8, <2>1, <2>2 DEF QueueMore, CountMore
<1> QED BY <1>3, <1>4, <1>5, <1>6, <1>7, <1>8 DEF Work

LEMMA SharedAlone ==
    ASSUME Sound, Sound', AloneNow, limit = 1, NEW p \in Processes, Shared(p) \/ Crash(p)
    PROVE  AloneNow'
<1>1. CASE Select(p) \/ Mark(p) \/ Push(p)
  BY <1>1, SelectAlone, MarkAlone, PushAlone
<1>2. CASE Crash(p) \/ (WritePlan(p) /\ Finish(p))
  BY <1>2, FinishAlone DEF Crash, WritePlan
<1>3. CASE WritePlan(p) /\ then[p] = "more"
  <2>1. p \in Workers
    BY <1>3, SoundParts DEF LocalSound, Shaped, Processes
  <2>2. Carries(p) /\ "more" \notin Held /\ pc[p] \notin InRun /\ pc[p] # "insert"
    BY <1>3, <2>1 DEF WritePlan, Carries, Held, InRun
  <2> QED BY <1>3, <2>2, MoveAlone DEF WritePlan
<1>4. CASE CountDone(p) \/ CountActive(p) \/ ReadStatus(p)
  <2>1. PICK place \in {"count active", "read status", "write plan"} : Goto(p, place)
    BY <1>4 DEF CountDone, CountActive, ReadStatus
  <2>2. /\ pc[p] \in {"count done", "count active", "read status"}
        /\ UNCHANGED <<task, queue, row, todo, marked>>
    BY <1>4 DEF CountDone, CountActive, ReadStatus
  <2>3. place \notin Held /\ pc[p] \notin InRun /\ pc[p] # "insert"
    BY <2>1, <2>2 DEF Held, InRun
  <2>4. pc'[p] = place
    BY <2>1, SoundParts DEF Goto, LocalSound, LocalTypes
  <2>5. Carries(p)' => Carries(p)
    BY <2>1, <2>2, <2>4 DEF Carries, Enqueueing
  <2> QED BY <2>1, <2>2, <2>3, <2>5, MoveAlone
<1> QED BY <1>1, <1>2, <1>3, <1>4 DEF Shared, WritePlan

LEMMA CallerAlone ==
    ASSUME Sound, Sound', AloneNow, NEW c \in Callers, CancelPlan(c) \/ Continue(c)
    PROVE  AloneNow'
<1>1. c \in Processes /\ c \notin Workers
  BY ConstantsAssumption, PlacesKnown DEF ConstantsAssumption
<1>2. \A q \in Processes \ {c} : Goto(c, pc'[c]) => pc'[q] = pc[q]
  BY SoundParts DEF Goto, LocalSound, LocalTypes
<1>3. CASE CancelPlan(c)
  <2>1. pc'[c] = "cancel tasks" /\ ~Carries(c)' /\ todo[c] = {}
    BY <1>1, <1>3, SoundParts, RowsOf
       DEF CancelPlan, Goto, LocalSound, LocalTypes, Carries, Enqueueing
  <2> QED BY <1>1, <1>3, <2>1, MoveAlone DEF CancelPlan
<1>4. CASE CancelTasks(c)
  <2>1. pc'[c] = "count done" /\ ~Carries(c)' /\ todo[c] = {} /\ marked[c] = {}
        /\ UNCHANGED <<queue, row, todo, marked>> /\ \A q \in Processes \ {c} : pc'[q] = pc[q]
    BY <1>1, <1>4, SoundParts, RowsOf
       DEF CancelTasks, Goto, LocalSound, LocalTypes, Carries, Enqueueing
  <2>2. \A r \in Rows : /\ task'[r] = "running" => task[r] = "running"
                        /\ task'[r] \in Done => task[r] \in Done
    BY <1>4 DEF CancelTasks, Done
  <2> QED BY <1>1, <2>1, <2>2, AloneKept
<1>5. CASE Insert(c)
  <2>1. pc[c] = "insert" /\ Carries(c) /\ UNCHANGED queue
    BY <1>1, <1>5 DEF Insert, Carries, Enqueueing
  <2>2. CASE Finish(c) /\ UNCHANGED task
    BY <1>1, <1>5, <2>1, <2>2, FinishAlone
  <2>3. CASE Goto(c, "count") /\ todo[c] = {} /\ UNCHANGED <<task, row, todo, marked>>
    BY <1>1, <2>1, <2>3, MoveAlone
  <2>4. CASE \E r \in todo[c] : /\ task' = [task EXCEPT ![r] = "pending"]
                                /\ todo' = [todo EXCEPT ![c] = @ \ {r}]
                                /\ UNCHANGED <<pc, row, marked>>
    <3>1. PICK r \in todo[c] : /\ task' = [task EXCEPT ![r] = "pending"]
                               /\ todo' = [todo EXCEPT ![c] = @ \ {r}]
                               /\ UNCHANGED <<pc, row, marked>>
      BY <2>4
    <3>2. \A q \in Rows : task'[q] \in {task[q], "pending"}
      BY <3>1, SoundParts DEF TaskTypes
    <3>3. todo'[c] \subseteq todo[c] /\ \A q \in Processes \ {c} : todo'[q] = todo[q]
      BY <1>1, <3>1, SoundParts DEF LocalSound, LocalTypes
    <3>4. \A q \in Rows : /\ task'[q] = "running" => task[q] = "running"
                          /\ task'[q] \in Done => task[q] \in Done
      BY <3>2 DEF Done
    <3> QED BY <1>1, <2>1, <3>1, <3>3, <3>4, AloneKept
  <2> QED BY <1>5, <2>2, <2>3, <2>4 DEF Insert
<1>6. CASE CountTasks(c) \/ SavePlan(c)
  <2>1. PICK place \in {"select", "push"} : Goto(c, place)
    BY <1>6 DEF CountTasks, SavePlan
  <2>2. /\ pc[c] \in {"count", "save plan"} /\ Carries(c) /\ todo[c] = {}
        /\ UNCHANGED <<task, queue, row, todo, marked>>
    BY <1>1, <1>6, RowsOf DEF CountTasks, SavePlan, Carries, Enqueueing
  <2> QED BY <1>1, <2>1, <2>2, MoveAlone
<1> QED BY <1>3, <1>4, <1>5, <1>6 DEF Continue

LEMMA AloneStep == Sound /\ Sound' /\ EnqueuedOnce /\ Alone /\ [Next]_vars => Alone'
<1> SUFFICES ASSUME Sound, Sound', EnqueuedOnce, Alone, [Next]_vars, Sequential'
             PROVE  AloneNow'
  BY DEF Alone, AloneNow
<1>1. /\ limit = 1 /\ enqueues \in Nat /\ enqueues' <= 1
      /\ IF \E c \in Callers : Enqueue(c) THEN enqueues' = enqueues + 1 ELSE enqueues' = enqueues
  BY EnqueuesGrow DEF Sequential
<1>2. AloneNow
  BY <1>1 DEF Alone, AloneNow, Sequential
<1>3. ASSUME NEW c \in Callers, Enqueue(c) PROVE AloneNow'
  <2>1. enqueues = 0
    BY <1>1, <1>3
  <2> QED BY <1>3, <2>1, EnqueueAlone DEF EnqueuedOnce
<1>4. CASE DeletePlan
  BY <1>2, <1>4, DeleteAlone DEF DeletePlan
<1>5. CASE UNCHANGED vars
  BY <1>2, <1>5, DeleteAlone DEF vars
<1> QED BY <1>1, <1>2, <1>3, <1>4, <1>5, WorkAlone, SharedAlone, CallerAlone DEF Next

LEMMA InitAlone == Init => EnqueuedOnce /\ Alone
<1> SUFFICES ASSUME Init PROVE EnqueuedOnce /\ Alone
  OBVIOUS
<1> USE DEF Init
<1>1. \A p \in Processes : pc[p] = "idle" /\ todo[p] = {} /\ marked[p] = {} /\ ~Carries(p)
  BY DEF Carries, Enqueueing
<1>2. Unused
  BY <1>1 DEF Unused
<1>3. EnqueuedOnce
  BY <1>1, <1>2 DEF EnqueuedOnce, Used
<1>4. OneCarrier /\ OneSelected /\ OneRunning
  BY <1>1 DEF OneCarrier, OneSelected, OneRunning, WithStatus
<1>5. NotDone
  <2>1. \A w \in Workers : pc[w] \notin Held
    BY <1>1, PlacesKnown DEF Held, InRun
  <2> QED BY <1>1, <2>1 DEF NotDone, Range
<1> QED BY <1>3, <1>4, <1>5 DEF Alone

LEMMA AlwaysAlone == Spec => [](Sound /\ EnqueuedOnce /\ Alone)
<1>1. Init => Sound /\ EnqueuedOnce /\ Alone
  BY InitSound, InitAlone
<1>2. Sound /\ EnqueuedOnce /\ Alone /\ [Next]_vars => (Sound /\ EnqueuedOnce /\ Alone)'
  BY SoundStep, EnqueuedStep, AloneStep
<1> QED BY <1>1, <1>2, PTL DEF Spec

(* A sequential plan never runs more tasks at once than its max_workers,     *)
(* for any number of workers, requests and tasks, and whoever crashes.       *)
THEOREM OneTaskRuns == Spec => []RunningWithinLimit
<1>1. Sound /\ Alone => RunningWithinLimit
  <2> SUFFICES ASSUME Sound, Alone, Sequential PROVE Count({"running"}) <= limit
    BY DEF RunningWithinLimit
  <2>1. IsFiniteSet(WithStatus({"running"}))
    BY Finite, SoundParts
  <2>2. Cardinality(WithStatus({"running"})) <= 1
    BY <2>1, AtMostOne DEF Alone, OneRunning
  <2> QED BY <2>2 DEF Sequential, Count
<1> QED BY <1>1, AlwaysAlone, PTL

(* No step of a sequential plan writes to a task that has its result.       *)
LEMMA ResultKept ==
    ASSUME Sound, AloneNow, [Next]_vars, NEW r \in Rows, task[r] \in Done
    PROVE  task'[r] \in {task[r], "absent"}
<1>1. task \in [Rows -> TaskStatuses]
  BY SoundParts DEF TaskTypes
<1>2. ASSUME NEW p \in Processes, Shared(p) \/ Crash(p) PROVE task'[r] = task[r]
  <2>1. CASE Mark(p)
    <3>1. r \notin todo[p]
      BY DEF AloneNow, NotDone
    <3> QED BY <1>1, <2>1, <3>1 DEF Mark, SetTask
  <2>2. CASE ~Mark(p)
    BY <1>2, <2>2 DEF Shared, Select, Push, CountDone, CountActive, ReadStatus, WritePlan, Crash
  <2> QED BY <2>1, <2>2
<1>3. ASSUME NEW w \in Workers, Work(w) PROVE task'[r] = task[r]
  <2>1. CASE StartTask(w) \/ SetResult(w)
    <3>1. pc[w] \in Held
      BY <2>1 DEF StartTask, SetResult, Held, InRun
    <3>2. row[w] # r
      BY <3>1 DEF AloneNow, NotDone
    <3> QED BY <1>1, <2>1, <3>2 DEF StartTask, SetResult, SetTask
  <2>2. CASE ~(StartTask(w) \/ SetResult(w))
    BY <1>3, <2>2 DEF Work, Pop, ReadTask, CheckLimit, StartPlan, Install, Evaluate, Judge,
                      QueueMore, CountMore
  <2> QED BY <2>1, <2>2
<1>4. ASSUME NEW c \in Callers, Enqueue(c) \/ CancelPlan(c) \/ Continue(c) PROVE task'[r] = task[r]
  <2>1. CASE Insert(c)
    <3>1. r \notin todo[c]
      BY PlacesKnown DEF AloneNow, NotDone
    <3> QED BY <1>1, <2>1, <3>1 DEF Insert
  <2>2. CASE CancelTasks(c)
    BY <2>2 DEF CancelTasks, Unfinished, Done
  <2>3. CASE Enqueue(c) \/ CancelPlan(c) \/ CountTasks(c) \/ SavePlan(c)
    BY <2>3 DEF Enqueue, CancelPlan, CountTasks, SavePlan
  <2> QED BY <1>4, <2>1, <2>2, <2>3 DEF Continue
<1>5. CASE DeletePlan
  BY <1>5 DEF DeletePlan
<1>6. CASE UNCHANGED vars
  BY <1>6 DEF vars
<1> QED BY <1>2, <1>3, <1>4, <1>5, <1>6 DEF Next

(* The result of a task of a sequential plan is written once: nothing but a  *)
(* deletion changes it afterwards, however late a message or an answer is.   *)
THEOREM ResultsAreFinal == Spec => ResultStays
<1> DEFINE Final == \A r \in Rows : Sequential /\ task[r] \in {"succeeded", "failed"}
                                   => task'[r] \in {task[r], "absent"}
<1>1. Sound /\ EnqueuedOnce /\ Alone /\ [Next]_vars => [Final]_vars
  BY ResultKept DEF Alone, AloneNow, Done
<1>2. ResultStays <=> [][Final]_vars
  BY DEF ResultStays
<1> HIDE DEF Final
<1> QED BY <1>1, <1>2, AlwaysAlone, PTL DEF Spec

-------------------------------------------------------------------------------
(* Queued tasks have a message. *)

Waiting == {"read", "limit", "start", "set canceled"}

(* What a process that moves has, it keeps, and no task becomes queued.     *)
LEMMA SentKept ==
    ASSUME NEW p \in Processes, NEW r \in Rows, Sent(r),
           \A q \in Processes \ {p} : marked'[q] = marked[q],
           \A w \in Workers \ {p} : pc'[w] = pc[w] /\ row'[w] = row[w],
           r \in marked[p] => r \in marked'[p],
           p \in Workers /\ pc[p] \in Waiting /\ row[p] = r => pc'[p] \in Waiting /\ row'[p] = r,
           UNCHANGED queue
    PROVE  Sent(r)'
<1>1. CASE \E n \in 1..Len(queue) : queue[n] = r
  BY <1>1 DEF Sent
<1>2. CASE \E q \in Processes : r \in marked[q]
  <2>1. PICK q \in Processes : r \in marked[q]
    BY <1>2
  <2>2. r \in marked'[q]
    BY <2>1
  <2> QED BY <2>2 DEF Sent
<1>3. CASE \E w \in Workers : row[w] = r /\ pc[w] \in Waiting
  <2>1. PICK w \in Workers : row[w] = r /\ pc[w] \in Waiting
    BY <1>3
  <2>2. row'[w] = r /\ pc'[w] \in Waiting
    BY <2>1
  <2> QED BY <2>2 DEF Sent, Waiting
<1> QED BY <1>1, <1>2, <1>3 DEF Sent, Waiting

(* Only the process that moves loses anything, when it ends.                *)
LEMMA FinishSent ==
    ASSUME Sound, NEW p \in Processes, Finish(p), UNCHANGED queue, NEW r \in Rows, Sent(r),
           r \notin marked[p], ~(p \in Workers /\ pc[p] \in Waiting /\ row[p] = r)
    PROVE  Sent(r)'
<1>1. /\ \A q \in Processes \ {p} : marked'[q] = marked[q] /\ pc'[q] = pc[q]
      /\ \A w \in Workers \ {p} : row'[w] = row[w]
  BY SoundParts DEF Finish, Goto, LocalSound, LocalTypes
<1> QED BY <1>1, SentKept, PlacesKnown

LEMMA GotoSent ==
    ASSUME Sound, NEW p \in Processes, NEW place, Goto(p, place), NEW r \in Rows, Sent(r),
           UNCHANGED <<queue, row, marked>>,
           p \in Workers /\ pc[p] \in Waiting /\ row[p] = r => place \in Waiting
    PROVE  Sent(r)'
<1>1. pc'[p] = place /\ \A q \in Processes \ {p} : pc'[q] = pc[q]
  BY SoundParts DEF Goto, LocalSound, LocalTypes
<1> QED BY <1>1, SentKept, PlacesKnown

(* A worker that has a queued task finds room for it.                       *)
LEMMA RoomForQueued ==
    ASSUME Sound, EnqueuedOnce, Alone, SelectedOnce, NEW w \in Workers, pc[w] = "limit",
           task[row[w]] = "queued"
    PROVE  Count({"running"}) < limit
<1> DEFINE Running == WithStatus({"running"})
<1>1. /\ row[w] \in Rows /\ w \in Processes /\ Carries(w) /\ pc[w] \notin InRun
      /\ limit \in Nat \ {0} /\ IsFiniteSet(Running)
  <2>1. row[w] \in Rows /\ w \in Processes /\ Carries(w) /\ pc[w] \notin InRun
    BY SoundParts, PlacesKnown DEF LocalSound, Shaped, Carries, InRun
  <2>2. limit \in Nat \ {0}
    BY SoundParts, ConstantsAssumption DEF PlanTypes, ConstantsAssumption
  <2>3. IsFiniteSet(Running)
    BY SoundParts, Finite
  <2> QED BY <2>1, <2>2, <2>3
<1>2. CASE limit = 1
  <2>1. Running = {}
    BY <1>1, <1>2 DEF Alone, Sequential, SelectedOnce, OneRunning
  <2> QED BY <1>1, <1>2, <2>1, FS_EmptySet DEF Count
<1>3. CASE Items <= limit
  <2> DEFINE c == row[w][1]
             All == {c} \X (1..Items)
  <2>1. c \in Callers /\ row[w] \in All
    BY <1>1 DEF Rows
  <2>2. \A r \in Running : r[1] = c
    BY <1>1 DEF EnqueuedOnce, SelectedOnce, Used, WithStatus
  <2>3. Running \subseteq All \ {row[w]}
    BY <2>2 DEF WithStatus, Rows
  <2>4. IsFiniteSet(All) /\ Cardinality(All) = Items
    <3>1. IsFiniteSet({c}) /\ Cardinality({c}) = 1
      BY FS_Singleton
    <3>2. IsFiniteSet(1..Items) /\ Cardinality(1..Items) = Items
      <4>1. 1 \in Int /\ Items \in Int /\ ~(1 > Items) /\ Items - 1 + 1 = Items
        BY ConstantsAssumption DEF ConstantsAssumption
      <4> QED BY <4>1, FS_Interval
    <3>3. IsFiniteSet(All) /\ Cardinality(All) = Cardinality({c}) * Cardinality(1..Items)
      BY <3>1, <3>2, FS_Product, Zenon
    <3> QED BY <3>1, <3>2, <3>3, ConstantsAssumption DEF ConstantsAssumption
  <2> HIDE DEF All
  <2>5. IsFiniteSet(All \ {row[w]}) /\ Cardinality(All \ {row[w]}) = Items - 1
    <3>1. Cardinality(All \ {row[w]}) = Cardinality(All) - 1
      BY <2>1, <2>4, FS_RemoveElement
    <3> QED BY <2>4, <3>1, FS_RemoveElement
  <2>6. Cardinality(Running) <= Items - 1 /\ Cardinality(Running) \in Nat
    BY <2>3, <2>5, <1>1, FS_Subset, FS_CardinalityType
  <2> QED BY <1>1, <1>3, <2>6, ConstantsAssumption DEF Count, ConstantsAssumption
<1> QED BY <1>2, <1>3 DEF SelectedOnce

LEMMA WorkSent ==
    ASSUME Sound, EnqueuedOnce, Alone, SelectedOnce, UNCHANGED faults,
           NEW w \in Workers, Work(w), NEW r \in Rows, task'[r] = "queued",
           task[r] = "queued" => Sent(r)
    PROVE  Sent(r)'
<1>1. w \in Processes /\ LocalTypes /\ TaskTypes /\ queue \in Seq(Rows)
      /\ (pc[w] # "idle" => row[w] \in Rows)
      /\ (marked[w] # {} => pc[w] \in {"mark", "push", "save plan"})
  BY PlacesKnown, SoundParts DEF LocalSound, Shaped, QueueTypes
<1>2. task[r] = "queued"
  BY <1>1 DEF Work, Pop, ReadTask, CheckLimit, StartTask, StartPlan, Install, Evaluate, Judge,
              SetResult, QueueMore, CountMore, SetTask, TaskTypes
<1>3. Sent(r)
  BY <1>2
<1>4. CASE Pop(w)
  <2>1. /\ row'[w] = Head(queue) /\ pc'[w] = "read" /\ UNCHANGED marked
        /\ \A v \in Workers \ {w} : row'[v] = row[v] /\ pc'[v] = pc[v]
    BY <1>1, <1>4, PlacesKnown DEF Pop, Goto, LocalTypes
  <2>2. CASE \E n \in 1..Len(queue) : queue[n] = r
    <3>1. PICK n \in 1..Len(queue) : queue[n] = r
      BY <2>2
    <3>2. CASE n = 1
      <4>1. row'[w] = r
        BY <1>1, <1>4, <2>1, <3>1, <3>2 DEF Pop
      <4> QED BY <2>1, <4>1 DEF Sent
    <3>3. CASE n # 1
      <4>1. n - 1 \in 1..Len(queue') /\ queue'[n - 1] = r
        BY <1>1, <1>4, <3>1, <3>3 DEF Pop
      <4> QED BY <4>1 DEF Sent
    <3> QED BY <3>2, <3>3
  <2>3. CASE \E p \in Processes : r \in marked[p]
    BY <2>1, <2>3 DEF Sent
  <2>4. CASE \E v \in Workers : row[v] = r /\ pc[v] \in Waiting
    <3>1. PICK v \in Workers : row[v] = r /\ pc[v] \in Waiting
      BY <2>4
    <3>2. v # w
      BY <1>4, <3>1 DEF Pop, Waiting
    <3> QED BY <2>1, <3>1, <3>2 DEF Sent, Waiting
  <2> QED BY <1>3, <2>2, <2>3, <2>4 DEF Sent, Waiting
<1>5. CASE ReadTask(w)
  <2>1. CASE Finish(w) /\ task[row[w]] \notin {"queued", "pending"}
    BY <1>1, <1>2, <1>3, <1>5, <2>1, FinishSent DEF ReadTask
  <2>2. CASE (Goto(w, "set canceled") \/ Goto(w, "limit")) /\ UNCHANGED <<row, marked>>
    BY <1>1, <1>3, <1>5, <2>2, GotoSent DEF ReadTask, Waiting
  <2>3. CASE Finish(w) /\ task[row[w]] = "absent"
    BY <1>1, <1>2, <1>3, <1>5, <2>3, FinishSent DEF ReadTask
  <2> QED BY <1>5, <2>1, <2>2, <2>3 DEF ReadTask
<1>6. CASE CheckLimit(w)
  <2>1. CASE Finish(w) /\ Count({"running"}) >= limit
    <3>1. Count({"running"}) \in Nat /\ limit \in Nat
      BY Finite, SoundParts DEF PlanTypes
    <3>2. row[w] # r
      BY <1>2, <1>6, <2>1, <3>1, RoomForQueued DEF CheckLimit
    <3> QED BY <1>1, <1>3, <1>6, <2>1, <3>2, FinishSent DEF CheckLimit
  <2>2. CASE Goto(w, "start") /\ UNCHANGED <<row, marked>>
    BY <1>1, <1>3, <1>6, <2>2, GotoSent DEF CheckLimit, Waiting
  <2> QED BY <1>6, <2>1, <2>2 DEF CheckLimit
<1>7. CASE StartTask(w) \/ SetResult(w)
  <2>1. row[w] \in Rows /\ row[w] # r
    BY <1>1, <1>7 DEF StartTask, SetResult, SetTask, TaskTypes
  <2> QED BY <1>1, <1>3, <1>7, <2>1, GotoSent DEF StartTask, SetResult
<1>8. CASE StartPlan(w) \/ Evaluate(w) \/ Judge(w)
  <2>1. pc[w] \notin Waiting
    BY <1>8 DEF StartPlan, Evaluate, Judge, Waiting
  <2>2. (\E place : Goto(w, place)) /\ UNCHANGED <<queue, row, marked>>
    BY <1>8 DEF StartPlan, Evaluate, Judge
  <2> QED BY <1>1, <1>3, <2>1, <2>2, GotoSent
<1>9. CASE Install(w) \/ QueueMore(w) \/ CountMore(w)
  <2>1. pc[w] \notin Waiting /\ marked[w] = {} /\ UNCHANGED queue
    BY <1>1, <1>9 DEF Install, QueueMore, CountMore, Waiting
  <2>2. CASE Finish(w)
    BY <1>1, <1>3, <2>1, <2>2, FinishSent
  <2>3. CASE (\E place : Goto(w, place)) /\ UNCHANGED <<row, marked>>
    BY <1>1, <1>3, <2>1, <2>3, GotoSent
  <2> QED BY <1>9, <2>2, <2>3 DEF Install, QueueMore, CountMore
<1> QED BY <1>4, <1>5, <1>6, <1>7, <1>8, <1>9 DEF Work

LEMMA SharedSent ==
    ASSUME Sound, NEW p \in Processes, Shared(p), NEW r \in Rows, task'[r] = "queued",
           task[r] = "queued" => Sent(r)
    PROVE  Sent(r)'
<1>1. LocalTypes /\ TaskTypes /\ queue \in Seq(Rows)
      /\ (marked[p] # {} => pc[p] \in {"mark", "push", "save plan"})
  BY SoundParts DEF LocalSound, Shaped, QueueTypes
<1>2. pc[p] \notin Waiting
  BY DEF Shared, Select, Mark, Push, CountDone, CountActive, ReadStatus, WritePlan, Waiting
<1>3. CASE Mark(p)
  <2>1. CASE (\E place : Goto(p, place)) /\ UNCHANGED <<task, marked>>
    BY <1>2, <1>3, <2>1, GotoSent DEF Mark
  <2>2. CASE \E q \in todo[p] : SetTask(q, "queued") /\ UNCHANGED pc
                                /\ marked' = [marked EXCEPT ![p] = @ \cup {q}]
    <3>1. PICK q \in todo[p] : SetTask(q, "queued") /\ UNCHANGED pc
                                /\ marked' = [marked EXCEPT ![p] = @ \cup {q}]
      BY <2>2
    <3>2. marked'[p] = marked[p] \cup {q} /\ \A s \in Processes \ {p} : marked'[s] = marked[s]
      BY <1>1, <3>1 DEF LocalTypes
    <3>3. CASE r = q
      BY <3>2, <3>3 DEF Sent
    <3>4. CASE r # q
      <4>1. task[r] = "queued" /\ Sent(r)
        BY <1>1, <3>1, <3>4 DEF SetTask, TaskTypes, LocalTypes
      <4> QED BY <1>2, <1>3, <3>1, <3>2, <4>1, SentKept DEF Mark
    <3> QED BY <3>3, <3>4
  <2> QED BY <1>3, <2>1, <2>2 DEF Mark
<1>4. CASE Push(p)
  <2>1. task[r] = "queued" /\ Sent(r)
    BY <1>4 DEF Push
  <2>2. CASE marked[p] = {} /\ Finish(p) /\ UNCHANGED queue
    BY <1>2, <2>1, <2>2, FinishSent
  <2>3. CASE \E q \in marked[p] : /\ queue' = Append(queue, q)
                                 /\ marked' = [marked EXCEPT ![p] = @ \ {q}]
                                 /\ UNCHANGED <<pc, row>>
    <3>1. PICK q \in marked[p] : /\ queue' = Append(queue, q)
                                 /\ marked' = [marked EXCEPT ![p] = @ \ {q}]
                                 /\ UNCHANGED <<pc, row>>
      BY <2>3
    <3>2. /\ marked'[p] = marked[p] \ {q} /\ \A s \in Processes \ {p} : marked'[s] = marked[s]
          /\ q \in Rows
      BY <1>1, <3>1 DEF LocalTypes
    <3>3. Len(queue') = Len(queue) + 1 /\ queue'[Len(queue')] = q
          /\ \A n \in 1..Len(queue) : queue'[n] = queue[n] /\ n \in 1..Len(queue')
          /\ Len(queue') \in 1..Len(queue')
      <4>1. queue' = Append(queue, q) /\ queue \in Seq(Rows) /\ q \in Rows
        BY <1>1, <3>1, <3>2
      <4>2. Len(queue) \in Nat /\ Len(queue') = Len(queue) + 1 /\ queue'[Len(queue) + 1] = q
            /\ \A n \in 1..Len(queue) : queue'[n] = queue[n]
        BY <4>1
      <4> QED BY <4>2
    <3>4. CASE r = q
      <4>1. Len(queue') \in 1..Len(queue') /\ queue'[Len(queue')] = r
        BY <3>3, <3>4
      <4> QED BY <4>1 DEF Sent
    <3>5. CASE \E n \in 1..Len(queue) : queue[n] = r
      BY <3>3, <3>5 DEF Sent
    <3>6. CASE r # q /\ \E s \in Processes : r \in marked[s]
      BY <3>2, <3>6 DEF Sent
    <3>7. CASE \E w \in Workers : row[w] = r /\ pc[w] \in Waiting
      BY <3>1, <3>7 DEF Sent, Waiting
    <3> QED BY <2>1, <3>4, <3>5, <3>6, <3>7 DEF Sent, Waiting
  <2> QED BY <1>4, <2>2, <2>3 DEF Push
<1>5. CASE Select(p) \/ CountDone(p) \/ CountActive(p) \/ ReadStatus(p)
  <2>1. (\E place : Goto(p, place)) /\ UNCHANGED <<task, queue, row, marked>>
    BY <1>5 DEF Select, CountDone, CountActive, ReadStatus
  <2> QED BY <1>2, <2>1, GotoSent
<1>6. CASE WritePlan(p)
  <2>1. task[r] = "queued" /\ Sent(r) /\ marked[p] = {} /\ UNCHANGED queue
    BY <1>1, <1>6 DEF WritePlan
  <2>2. CASE Finish(p)
    BY <1>2, <2>1, <2>2, FinishSent
  <2>3. CASE Goto(p, "more") /\ UNCHANGED <<row, marked>>
    BY <1>2, <2>1, <2>3, GotoSent
  <2> QED BY <1>6, <2>2, <2>3 DEF WritePlan
<1> QED BY <1>3, <1>4, <1>5, <1>6 DEF Shared

LEMMA CallerSent ==
    ASSUME Sound, NEW c \in Callers, Enqueue(c) \/ CancelPlan(c) \/ Continue(c),
           NEW r \in Rows, task'[r] = "queued", task[r] = "queued" => Sent(r)
    PROVE  Sent(r)'
<1>1. c \in Processes /\ c \notin Workers /\ LocalTypes /\ TaskTypes
      /\ (marked[c] # {} => pc[c] \in {"mark", "push", "save plan"})
  BY PlacesKnown, SoundParts, ConstantsAssumption DEF LocalSound, Shaped, ConstantsAssumption
<1>2. CASE Insert(c)
  <2>1. marked[c] = {} /\ UNCHANGED queue
    BY <1>1, <1>2 DEF Insert
  <2>2. task[r] = "queued"
    BY <1>1, <1>2 DEF Insert, TaskTypes, LocalTypes
  <2>3. CASE Finish(c)
    BY <1>1, <2>1, <2>2, <2>3, FinishSent
  <2>4. CASE UNCHANGED <<pc, row, marked>>
    BY <2>1, <2>2, <2>4 DEF Sent
  <2>5. CASE Goto(c, "count") /\ UNCHANGED <<row, marked>>
    BY <1>1, <2>1, <2>2, <2>5, GotoSent
  <2> QED BY <1>2, <2>3, <2>4, <2>5 DEF Insert
<1>3. CASE Enqueue(c) \/ CancelPlan(c) \/ CountTasks(c) \/ SavePlan(c) \/ CancelTasks(c)
  <2>1. (\E place : Goto(c, place)) /\ UNCHANGED <<queue, row, marked>>
    BY <1>3 DEF Enqueue, CancelPlan, CountTasks, SavePlan, CancelTasks
  <2>2. task[r] = "queued"
    BY <1>3 DEF Enqueue, CancelPlan, CountTasks, SavePlan, CancelTasks
  <2> QED BY <1>1, <2>1, <2>2, GotoSent
<1> QED BY <1>2, <1>3 DEF Continue

LEMMA SentStep ==
    Sound /\ EnqueuedOnce /\ Alone /\ QueuedHasMessage /\ [Next]_vars => QueuedHasMessage'
<1> SUFFICES ASSUME Sound, EnqueuedOnce, Alone, QueuedHasMessage, [Next]_vars,
                    SelectedOnce', faults' = 0, NEW r \in Rows, task'[r] = "queued"
             PROVE  Sent(r)'
  BY DEF QueuedHasMessage, Sent, WithStatus
<1>1. SelectedOnce /\ faults = 0 /\ UNCHANGED faults
  BY EnqueuesGrow DEF SelectedOnce
<1>2. task[r] = "queued" => Sent(r)
  BY <1>1 DEF QueuedHasMessage, Sent, WithStatus
<1>3. ASSUME NEW p \in Processes PROVE ~Crash(p)
  BY <1>1 DEF Crash
<1>4. CASE DeletePlan
  BY <1>4 DEF DeletePlan
<1>5. CASE UNCHANGED vars
  BY <1>2, <1>5 DEF vars, localVars, Sent
<1> QED BY <1>1, <1>2, <1>3, <1>4, <1>5, WorkSent, SharedSent, CallerSent DEF Next

(* While nothing fails, no task of a plan that is enqueued once is left      *)
(* "queued" without a message that will have it run, when its tasks run one  *)
(* at a time or all at once.                                                *)
THEOREM QueuedTasksAreSent == Spec => []QueuedHasMessage
<1>1. Init => QueuedHasMessage
  BY DEF Init, QueuedHasMessage, WithStatus
<1> QED BY <1>1, SentStep, AlwaysAlone, PTL DEF Spec

-------------------------------------------------------------------------------
(* The verdict. *)

(* The process that moves goes where it goes, and the others stay.          *)
LEMMA OthersStay ==
    ASSUME Sound, NEW p \in Processes, NEW place, Goto(p, place)
    PROVE  pc'[p] = place /\ \A q \in Processes \ {p} : pc'[q] = pc[q]
BY SoundParts DEF Goto, LocalSound, LocalTypes

LEMMA UndisturbedStep ==
    ASSUME Sound, Undisturbed, [Next]_vars, cancels' = 0
    PROVE  Undisturbed'
<1>1. cancels = 0
  BY EnqueuesGrow
<1>2. /\ plan \notin {"canceled", "deleted"}
      /\ \A p \in Processes : /\ pc[p] \notin {"set canceled", "cancel tasks"}
                              /\ p \in Callers => pc[p] \notin Reconciling
                              /\ pc[p] = "write plan" => seen[p].status # "canceled"
  BY <1>1 DEF Undisturbed
<1>3. LocalTypes
  BY SoundParts DEF LocalSound
<1> DEFINE Calm(p) == /\ pc'[p] \notin {"set canceled", "cancel tasks"}
                      /\ p \in Callers => pc'[p] \notin Reconciling
                      /\ pc'[p] = "write plan" => seen'[p].status # "canceled"
<1>4. ASSUME NEW p \in Processes, NEW place, Goto(p, place), Calm(p),
             \A q \in Processes \ {p} : seen'[q] = seen[q],
             plan' \in {plan, "queued", "running", "succeeded", "failed"}
      PROVE  Undisturbed'
  <2>1. \A q \in Processes \ {p} : Calm(q)
    BY <1>2, <1>4, OthersStay
  <2>2. \A q \in Processes : Calm(q)
    BY <1>4, <2>1
  <2>3. plan' \notin {"canceled", "deleted"}
    BY <1>2, <1>4
  <2> QED BY <2>2, <2>3 DEF Undisturbed
<1>5. ASSUME NEW p \in Processes, NEW place, Goto(p, place), UNCHANGED seen,
             place \notin {"set canceled", "cancel tasks", "write plan"},
             p \in Callers => place \notin Reconciling,
             plan' \in {plan, "queued", "running"}
      PROVE  Undisturbed'
  <2>1. Calm(p)
    BY <1>5, OthersStay
  <2> QED BY <1>4, <1>5, <2>1
<1>6. ASSUME NEW p \in Processes, Finish(p), plan' \in {plan, "running", "succeeded", "failed"}
      PROVE  Undisturbed'
  <2>1. pc'[p] = "idle" /\ Goto(p, "idle") /\ \A q \in Processes \ {p} : seen'[q] = seen[q]
    BY <1>3, <1>6, OthersStay DEF Finish, LocalTypes
  <2>2. Calm(p)
    BY <2>1 DEF Reconciling
  <2> QED BY <1>4, <1>6, <2>1, <2>2
<1>7. ASSUME NEW w \in Workers, Work(w) PROVE Undisturbed'
  <2>1. w \in Processes /\ w \notin Callers
    BY PlacesKnown, ConstantsAssumption DEF ConstantsAssumption
  <2>2. pc[w] # "set canceled"
    BY <1>2, <2>1
  <2>3. CASE Finish(w) /\ plan' = plan
    BY <1>6, <2>1, <2>3
  <2>4. CASE CountMore(w) /\ Goto(w, "select")
    <3>1. plan' = plan /\ \A q \in Processes \ {w} : seen'[q] = seen[q]
      BY <1>3, <2>4 DEF CountMore, Finish, LocalTypes, planVars
    <3>2. pc'[w] = "select"
      BY <2>1, <2>4, OthersStay
    <3>3. Calm(w)
      BY <2>1, <3>2
    <3> QED BY <1>4, <2>1, <2>4, <3>1, <3>3
  <2>5. ASSUME NEW place \in {"read", "limit", "start", "startPlan", "install", "eval", "judge ok",
                             "judge error", "set succeeded", "set failed", "count done",
                             "more count"},
               Goto(w, place), UNCHANGED seen, plan' \in {plan, "running"}
        PROVE  Undisturbed'
    BY <1>5, <2>1, <2>5
  <2>6. CASE Pop(w) \/ StartTask(w) \/ StartPlan(w) \/ Evaluate(w) \/ Judge(w) \/ SetResult(w)
    <3>1. UNCHANGED seen /\ plan' \in {plan, "running"}
      BY <2>6 DEF Pop, StartTask, StartPlan, Evaluate, Judge, SetResult, planVars
    <3>2. \E place \in {"read", "startPlan", "install", "judge ok", "judge error", "set succeeded",
                        "set failed", "count done"} : Goto(w, place)
      BY <1>2, <2>6 DEF Pop, StartTask, StartPlan, Evaluate, Judge, SetResult
    <3> QED BY <2>5, <3>1, <3>2
  <2>7. CASE ReadTask(w) \/ CheckLimit(w) \/ Install(w) \/ QueueMore(w) \/ CountMore(w)
    <3>1. plan' = plan
      BY <2>7 DEF ReadTask, CheckLimit, Install, QueueMore, CountMore, planVars
    <3>2. \/ Finish(w)
          \/ CountMore(w) /\ Goto(w, "select")
          \/ UNCHANGED seen /\ \E place \in {"limit", "start", "eval", "more count"} : Goto(w, place)
      BY <1>2, <2>7 DEF ReadTask, CheckLimit, Install, QueueMore, CountMore
    <3> QED BY <2>3, <2>4, <2>5, <3>1, <3>2
  <2> QED BY <1>7, <2>6, <2>7 DEF Work
<1>8. ASSUME NEW c \in Callers, Enqueue(c) \/ CancelPlan(c) \/ Continue(c) PROVE Undisturbed'
  <2>1. c \in Processes /\ ~CancelPlan(c) /\ ~CancelTasks(c)
    <3>1. c \in Processes
      BY PlacesKnown
    <3>2. ~CancelPlan(c)
      BY <1>1 DEF CancelPlan
    <3>3. ~CancelTasks(c)
      BY <1>2, <3>1 DEF CancelTasks
    <3> QED BY <3>1, <3>2, <3>3
  <2>2. CASE Finish(c) /\ plan' = plan
    BY <1>6, <2>1, <2>2
  <2>3. CASE CountTasks(c)
    <3>1. pc'[c] = "select" /\ plan' = plan /\ \A q \in Processes \ {c} : seen'[q] = seen[q]
      BY <1>3, <2>1, <2>3, OthersStay DEF CountTasks, LocalTypes, planVars
    <3>2. Calm(c)
      BY <3>1 DEF Reconciling
    <3> QED BY <1>4, <2>1, <2>3, <3>1, <3>2 DEF CountTasks
  <2>4. CASE Enqueue(c) \/ SavePlan(c) \/ (Insert(c) /\ ~Finish(c))
    <3>1. UNCHANGED seen /\ plan' \in {plan, "queued"}
      BY <2>4 DEF Enqueue, SavePlan, Insert, SetPlan, planVars
    <3>2. \/ UNCHANGED pc
          \/ \E place \in {"insert", "count", "push"} : Goto(c, place)
      BY <2>4 DEF Enqueue, SavePlan, Insert
    <3>3. CASE UNCHANGED pc
      BY <1>2, <3>1, <3>3 DEF Undisturbed
    <3>4. {"insert", "count", "push"} \cap Reconciling = {}
      BY DEF Reconciling
    <3> QED BY <1>5, <2>1, <3>1, <3>2, <3>3, <3>4
  <2>5. Insert(c) => plan' = plan
    BY DEF Insert, planVars
  <2> QED BY <1>8, <2>1, <2>2, <2>3, <2>4, <2>5 DEF Continue
<1>9. ASSUME NEW p \in Processes, Shared(p) \/ Crash(p) PROVE Undisturbed'
  <2>1. CASE Crash(p)
    BY <1>6, <2>1 DEF Crash, planVars
  <2>2. CASE Select(p) \/ Mark(p) \/ (Push(p) /\ ~Finish(p))
    <3>1. UNCHANGED seen /\ plan' = plan
      BY <2>2 DEF Select, Mark, Push, planVars
    <3>2. \/ UNCHANGED pc
          \/ \E place \in {"mark", "push", "save plan"} : Goto(p, place)
      BY <2>2 DEF Select, Mark, Push
    <3>3. CASE UNCHANGED pc
      BY <1>2, <3>1, <3>3 DEF Undisturbed
    <3>4. {"mark", "push", "save plan"} \cap Reconciling = {}
      BY DEF Reconciling
    <3> QED BY <1>5, <3>1, <3>2, <3>3, <3>4
  <2>3. CASE Push(p) /\ Finish(p)
    BY <1>6, <2>3 DEF Push, planVars
  <2>4. CASE CountDone(p) \/ CountActive(p) \/ ReadStatus(p)
    <3>1. p \notin Callers
      BY <1>2, <2>4 DEF CountDone, CountActive, ReadStatus, Reconciling
    <3>2. plan' = plan /\ \A q \in Processes \ {p} : seen'[q] = seen[q]
      BY <1>3, <2>4 DEF CountDone, CountActive, ReadStatus, planVars, LocalTypes
    <3>3. CASE CountDone(p) \/ CountActive(p)
      <4>1. pc'[p] \in {"count active", "read status"}
        BY <3>3, OthersStay DEF CountDone, CountActive
      <4>2. Calm(p)
        BY <3>1, <4>1
      <4> QED BY <1>4, <3>2, <3>3, <4>2 DEF CountDone, CountActive
    <3>4. CASE ReadStatus(p)
      <4>1. pc'[p] = "write plan" /\ seen'[p].status = plan
        BY ZenonT(60), <1>3, <3>4, OthersStay DEF ReadStatus, LocalTypes, View
      <4>2. Calm(p)
        BY <1>2, <3>1, <4>1
      <4> QED BY <1>4, <3>2, <3>4, <4>2 DEF ReadStatus
    <3> QED BY <2>4, <3>3, <3>4
  <2>5. CASE WritePlan(p)
    <3>1. Verdict(seen[p]) \in {"running", "succeeded", "failed"}
      BY <1>2, <2>5 DEF WritePlan, Verdict
    <3>2. plan' \in {"running", "succeeded", "failed"}
      BY <1>2, <2>5, <3>1 DEF WritePlan, SetPlan
    <3>3. CASE Finish(p)
      BY <1>6, <3>2, <3>3
    <3>4. CASE Goto(p, "more") /\ seen' = [seen EXCEPT ![p] = NothingSeen]
      <4>1. pc'[p] = "more" /\ \A q \in Processes \ {p} : seen'[q] = seen[q]
        BY <1>3, <3>4, OthersStay DEF LocalTypes
      <4>2. Calm(p)
        BY <4>1 DEF Reconciling
      <4> QED BY <1>4, <3>2, <3>4, <4>1, <4>2
    <3> QED BY <2>5, <3>3, <3>4 DEF WritePlan
  <2> QED BY <1>9, <2>1, <2>2, <2>3, <2>4, <2>5 DEF Shared
<1>10. ~DeletePlan
  BY <1>1 DEF DeletePlan
<1>11. CASE UNCHANGED vars
  BY <1>2, <1>11 DEF vars, planVars, localVars, Undisturbed
<1> QED BY <1>7, <1>8, <1>9, <1>10, <1>11 DEF Next

(* A worker has the plan to itself from its first count until it writes.     *)
Counting == {"count active", "read status", "write plan"}
Elsewhere(p) == /\ pc'[p] \notin Counting
                /\ \A q \in Processes \ {p} : UNCHANGED <<pc[q], seen[q]>>

LEMMA FinishElsewhere ==
    ASSUME Sound, NEW p \in Processes, Finish(p)
    PROVE  Elsewhere(p)
<1>1. pc'[p] = "idle" /\ \A q \in Processes \ {p} : pc'[q] = pc[q]
  BY OthersStay DEF Finish
<1> QED BY <1>1, SoundParts DEF Finish, LocalSound, LocalTypes, Elsewhere, Counting

LEMMA GotoElsewhere ==
    ASSUME Sound, NEW p \in Processes, NEW place, Goto(p, place), place \notin Counting,
           \A q \in Processes \ {p} : seen'[q] = seen[q]
    PROVE  Elsewhere(p)
BY OthersStay DEF Elsewhere

LEMMA CountingStep ==
    ASSUME Sound, Undisturbed, cancels = 0, cancels' = 0, [Next]_vars
    PROVE  \/ \E p \in Processes : CountDone(p) \/ CountActive(p) \/ ReadStatus(p)
           \/ UNCHANGED <<task, pc, seen>>
           \/ \E p \in Processes : Elsewhere(p) /\ (Carries(p) \/ UNCHANGED task)
<1>1. LocalTypes
  BY SoundParts DEF LocalSound
<1>2. ASSUME NEW w \in Workers, Work(w)
      PROVE  \E p \in Processes : Elsewhere(p) /\ (Carries(p) \/ UNCHANGED task)
  <2>1. w \in Processes /\ (pc[w] \notin {"idle", "push"} => Carries(w))
    BY PlacesKnown DEF Carries
  <2>2. Carries(w) \/ UNCHANGED task
    <3>1. CASE Pop(w)
      BY <3>1 DEF Pop
    <3>2. CASE ~Pop(w)
      BY <1>2, <2>1, <3>2 DEF Work, ReadTask, CheckLimit, StartTask, StartPlan, Install, Evaluate,
         Judge, SetResult, QueueMore, CountMore
    <3> QED BY <3>1, <3>2
  <2>3. \A q \in Processes \ {w} : seen'[q] = seen[q]
    BY <1>1, <1>2 DEF Work, Pop, ReadTask, CheckLimit, StartTask, StartPlan, Install, Evaluate,
       Judge, SetResult, QueueMore, CountMore, Finish, LocalTypes
  <2>4. \/ Finish(w)
        \/ \E place : Goto(w, place) /\ place \notin Counting
    <3>1. CASE Pop(w) \/ StartTask(w) \/ StartPlan(w) \/ Evaluate(w) \/ Judge(w) \/ SetResult(w)
      <4>1. \E place \in {"read", "startPlan", "install", "judge ok", "judge error", "set succeeded",
                          "set failed", "set canceled", "count done"} : Goto(w, place)
        BY <3>1 DEF Pop, StartTask, StartPlan, Evaluate, Judge, SetResult
      <4> QED BY <4>1 DEF Counting
    <3>2. CASE ReadTask(w) \/ CheckLimit(w) \/ Install(w) \/ QueueMore(w) \/ CountMore(w)
      <4>1. \/ Finish(w)
            \/ \E place \in {"set canceled", "limit", "start", "eval", "more count", "select"} :
                 Goto(w, place)
        BY <3>2 DEF ReadTask, CheckLimit, Install, QueueMore, CountMore
      <4> QED BY <4>1 DEF Counting
    <3> QED BY <1>2, <3>1, <3>2 DEF Work
  <2>5. Elsewhere(w)
    BY <2>1, <2>3, <2>4, FinishElsewhere, GotoElsewhere
  <2> QED BY <2>1, <2>2, <2>5
<1>3. ASSUME NEW c \in Callers, Enqueue(c) \/ CancelPlan(c) \/ Continue(c)
      PROVE  \/ UNCHANGED <<task, pc, seen>>
             \/ \E p \in Processes : Elsewhere(p) /\ (Carries(p) \/ UNCHANGED task)
  <2>1. c \in Processes
    BY PlacesKnown
  <2>2. CASE Insert(c)
    <3>1. Carries(c)
      BY <2>2 DEF Insert, Carries, Enqueueing
    <3>2. CASE Finish(c) \/ (Goto(c, "count") /\ UNCHANGED seen)
      <4>1. Elsewhere(c)
        BY <2>1, <3>2, FinishElsewhere, GotoElsewhere DEF Counting
      <4> QED BY <2>1, <3>1, <4>1
    <3>3. CASE UNCHANGED <<pc, seen>>
      <4>1. Elsewhere(c)
        BY <2>1, <2>2, <3>3 DEF Insert, Elsewhere, Counting
      <4> QED BY <2>1, <3>1, <4>1
    <3> QED BY <2>2, <3>2, <3>3 DEF Insert
  <2>3. CASE Enqueue(c) \/ CountTasks(c) \/ SavePlan(c)
    <3>1. UNCHANGED task /\ \A q \in Processes \ {c} : seen'[q] = seen[q]
      BY <1>1, <2>3 DEF Enqueue, CountTasks, SavePlan, LocalTypes
    <3>2. \E place \in {"insert", "count", "select", "push"} : Goto(c, place)
      BY <2>3 DEF Enqueue, CountTasks, SavePlan
    <3>3. Elsewhere(c)
      BY <2>1, <3>1, <3>2, GotoElsewhere DEF Counting
    <3> QED BY <2>1, <3>1, <3>3
  <2>4. ~CancelPlan(c) /\ ~CancelTasks(c)
    <3>1. ~CancelPlan(c)
      BY DEF CancelPlan
    <3>2. ~CancelTasks(c)
      BY <2>1 DEF CancelTasks, Undisturbed
    <3> QED BY <3>1, <3>2
  <2> QED BY <1>3, <2>2, <2>3, <2>4 DEF Continue
<1>4. ASSUME NEW p \in Processes, Shared(p) \/ Crash(p),
             ~(CountDone(p) \/ CountActive(p) \/ ReadStatus(p))
      PROVE  Elsewhere(p) /\ (Carries(p) \/ UNCHANGED task)
  <2>1. CASE Mark(p)
    <3>1. Carries(p) /\ pc[p] = "mark" /\ UNCHANGED seen
      BY <2>1 DEF Mark, Carries, Processes, Enqueueing
    <3>2. CASE UNCHANGED pc
      BY <3>1, <3>2 DEF Elsewhere, Counting
    <3>3. CASE Goto(p, IF p \in Workers THEN "push" ELSE "save plan")
      <4>1. \E place \in {"push", "save plan"} : Goto(p, place)
        BY <3>3
      <4> QED BY <3>1, <4>1, GotoElsewhere DEF Counting
    <3> QED BY <2>1, <3>1, <3>2, <3>3 DEF Mark
  <2>2. CASE Finish(p) /\ UNCHANGED task
    BY <2>2, FinishElsewhere
  <2>3. CASE Push(p) /\ ~Finish(p)
    <3>1. UNCHANGED <<task, pc, seen>> /\ pc[p] = "push"
      BY <2>3 DEF Push
    <3> QED BY <3>1 DEF Elsewhere, Counting
  <2>4. CASE Select(p) \/ (WritePlan(p) /\ ~Finish(p))
    <3>1. UNCHANGED task /\ \A q \in Processes \ {p} : seen'[q] = seen[q]
      BY <1>1, <2>4 DEF Select, WritePlan, LocalTypes
    <3>2. \E place \in {"mark", "more"} : Goto(p, place)
      BY <2>4 DEF Select, WritePlan
    <3>3. Elsewhere(p)
      BY <3>1, <3>2, GotoElsewhere DEF Counting
    <3> QED BY <3>1, <3>3
  <2>5. UNCHANGED task \/ Mark(p)
    BY <1>4 DEF Shared, Select, Push, CountDone, CountActive, ReadStatus, WritePlan, Crash
  <2> QED BY <1>4, <2>1, <2>2, <2>3, <2>4, <2>5 DEF Shared, Crash
<1>5. ~DeletePlan
  BY DEF DeletePlan
<1>6. CASE UNCHANGED vars
  BY <1>6 DEF vars, localVars
<1> QED BY <1>2, <1>3, <1>4, <1>5, <1>6 DEF Next

LEMMA CountsKept ==
    ASSUME UNCHANGED task, NEW S
    PROVE  Count(S)' = Count(S)
BY DEF Count, WithStatus

LEMMA CountsStep ==
    ASSUME Sound, AloneNow, Undisturbed, cancels = 0, cancels' = 0, CountsHold, [Next]_vars
    PROVE  CountsHold'
<1>1. LocalTypes /\ \A p \in Callers : pc[p] \notin Reconciling
  BY PlacesKnown, SoundParts DEF LocalSound, Undisturbed
<1>2. ASSUME NEW p \in Processes, pc[p] \in Counting PROVE Carries(p)
  BY <1>1, <1>2 DEF Carries, Counting, Reconciling, Processes
<1>3. ASSUME NEW p \in Processes, UNCHANGED task, UNCHANGED <<pc[p], seen[p]>>
      PROVE  /\ pc'[p] \in Counting => Counted(p)'
             /\ pc'[p] \in {"read status", "write plan"} => seen'[p].active = Count(Unfinished)'
  BY <1>3, CountsKept DEF CountsHold, Counted, Counting
<1>4. ASSUME NEW p \in Processes, CountDone(p) \/ CountActive(p) \/ ReadStatus(p) PROVE CountsHold'
  <2>1. UNCHANGED task /\ seen[p] \in View /\ \A q \in Processes \ {p} : UNCHANGED <<pc[q], seen[q]>>
    BY <1>1, <1>4 DEF CountDone, CountActive, ReadStatus, Goto, LocalTypes
  <2>2. CASE CountDone(p)
    <3>1. pc'[p] = "count active" /\ Counted(p)'
      BY <1>1, <2>1, <2>2, CountsKept DEF CountDone, Goto, LocalTypes, View, Counted
    <3> QED BY <1>3, <2>1, <3>1 DEF CountsHold, Counting
  <2>3. CASE CountActive(p)
    <3>1. pc'[p] = "read status" /\ Counted(p)' /\ seen'[p].active = Count(Unfinished)'
      BY <1>1, <2>1, <2>3, CountsKept DEF CountActive, Goto, LocalTypes, View, Counted, CountsHold
    <3> QED BY <1>3, <2>1, <3>1 DEF CountsHold, Counting
  <2>4. CASE ReadStatus(p)
    <3>1. pc'[p] = "write plan" /\ Counted(p)' /\ seen'[p].active = Count(Unfinished)'
      BY <1>1, <2>1, <2>4, CountsKept DEF ReadStatus, Goto, LocalTypes, View, Counted, CountsHold
    <3> QED BY <1>3, <2>1, <3>1 DEF CountsHold, Counting
  <2> QED BY <1>4, <2>2, <2>3, <2>4
<1>5. CASE UNCHANGED <<task, pc, seen>>
  BY <1>3, <1>5 DEF CountsHold, Counting
<1>6. ASSUME NEW p \in Processes, Elsewhere(p), Carries(p) \/ UNCHANGED task PROVE CountsHold'
  <2>1. ASSUME NEW q \in Processes, pc'[q] \in Counting
        PROVE  UNCHANGED <<pc[q], seen[q]>> /\ UNCHANGED task
    <3>1. q # p /\ UNCHANGED <<pc[q], seen[q]>>
      BY <1>6, <2>1 DEF Elsewhere
    <3>2. Carries(q)
      BY <1>2, <2>1, <3>1
    <3>3. ~Carries(p)
      BY <3>1, <3>2 DEF AloneNow, OneCarrier
    <3> QED BY <1>6, <3>1, <3>3
  <2> QED BY <1>3, <2>1 DEF CountsHold, Counting
<1> QED BY <1>4, <1>5, <1>6, CountingStep

(* Only the worker that reconciles last writes the verdict.                 *)
LEMMA PlanSteps ==
    ASSUME Sound, cancels = 0, cancels' = 0, [Next]_vars, plan' \in {"succeeded", "failed"},
           ~\E p \in Processes : WritePlan(p)
    PROVE  UNCHANGED <<plan, stored>>
<1>1. ASSUME NEW p \in Processes, Shared(p) \/ Crash(p) PROVE UNCHANGED <<plan, stored>>
  BY <1>1 DEF Shared, Select, Mark, Push, CountDone, CountActive, ReadStatus, Crash, planVars
<1>2. ASSUME NEW w \in Workers, Work(w) PROVE UNCHANGED <<plan, stored>>
  BY <1>2 DEF Work, Pop, ReadTask, CheckLimit, StartTask, StartPlan, Install, Evaluate, Judge,
              SetResult, QueueMore, CountMore, planVars
<1>3. ASSUME NEW c \in Callers, Enqueue(c) \/ CancelPlan(c) \/ Continue(c)
      PROVE  UNCHANGED <<plan, stored>>
  BY <1>3 DEF Enqueue, CancelPlan, Continue, Insert, CountTasks, SavePlan, CancelTasks, SetPlan,
              planVars
<1>4. ~DeletePlan
  BY DEF DeletePlan
<1>5. CASE UNCHANGED vars
  BY <1>5 DEF vars, planVars
<1> QED BY <1>1, <1>2, <1>3, <1>4, <1>5 DEF Next

LEMMA WrittenVerdict ==
    ASSUME Sound, Sound', AloneNow, Undisturbed, cancels = 0, CountsHold,
           NEW p \in Processes, WritePlan(p), plan' \in {"succeeded", "failed"}
    PROVE  Reported'
<1>1. pc[p] = "write plan" /\ LocalTypes /\ TaskTypes /\ UNCHANGED <<task, queue>>
  BY SoundParts DEF WritePlan, LocalSound
<1>2. p \in Workers /\ Carries(p) /\ plan # "deleted" /\ seen[p].status # "canceled"
  BY <1>1 DEF Undisturbed, Carries, Reconciling, Processes
<1>3. /\ seen[p].active = Count(Unfinished) /\ Counted(p)
  BY <1>1 DEF CountsHold
<1>4. /\ plan' = Verdict(seen[p])
      /\ stored' = [total |-> seen[p].total, completed |-> seen[p].completed,
                    failed |-> seen[p].failed]
  BY <1>2 DEF WritePlan, SetPlan
<1>5. Count(Unfinished) = 0 /\ (plan' = "failed" <=> Count({"failed"}) > 0)
  BY <1>2, <1>3, <1>4 DEF Verdict, Counted
<1>6. stored' = [total |-> Count(TaskStatuses \ {"absent"}),
                 completed |-> Count({"succeeded"}), failed |-> Count({"failed"})]
  BY <1>3, <1>4 DEF Counted
<1>7. queue' = <<>> /\ \A q \in Processes \ {p} : ~Carries(q)
  BY <1>1, <1>2 DEF AloneNow, OneCarrier
<1>8. /\ pc'[p] \in {"more", "idle"}
      /\ \A q \in Processes \ {p} : UNCHANGED <<pc[q], todo[q], marked[q]>>
      /\ todo'[p] \subseteq todo[p] /\ marked'[p] \subseteq marked[p]
  BY <1>1 DEF WritePlan, Finish, Goto, LocalTypes
<1>9. \A q \in Processes : todo[q] = {} /\ marked[q] = {}
  BY <1>1, <1>7, RowsOf
<1>10. \A q \in Processes : /\ Carries(q)' => q \in Workers /\ pc'[q] \in Asking
                            /\ todo'[q] = {} /\ marked'[q] = {}
  <2>1. \A q \in Processes \ {p} : ~Carries(q)'
    BY <1>7, <1>8 DEF Carries
  <2>2. Carries(p)' => p \in Workers /\ pc'[p] \in Asking
    BY <1>2, <1>8, ConstantsAssumption DEF Carries, Asking, ConstantsAssumption
  <2> QED BY <1>8, <1>9, <2>1, <2>2
<1> QED BY <1>1, <1>5, <1>6, <1>7, <1>10, CountsKept DEF Reported

(* Nothing is left to do for a plan that is reported: workers ask for tasks  *)
(* that are pending, and there are none.                                    *)
LEMMA ReportedStep ==
    ASSUME Sound, Sound', AloneNow, Undisturbed, EnqueuedOnce, cancels = 0, cancels' = 0,
           enqueues' <= 1, CountsHold, Reported, [Next]_vars
    PROVE  Reported'
<1> SUFFICES ASSUME plan' \in {"succeeded", "failed"}, ~\E p \in Processes : WritePlan(p)
             PROVE  Reported'
  BY WrittenVerdict DEF Reported
<1>1. UNCHANGED <<plan, stored>> /\ plan \in {"succeeded", "failed"}
  BY PlanSteps
<1>2. LocalTypes /\ TaskTypes
  BY SoundParts DEF LocalSound
<1>3. /\ Count(Unfinished) = 0 /\ queue = <<>>
      /\ plan = "failed" <=> Count({"failed"}) > 0
      /\ stored = [total |-> Count(TaskStatuses \ {"absent"}),
                   completed |-> Count({"succeeded"}), failed |-> Count({"failed"})]
      /\ \A p \in Processes : /\ Carries(p) => p \in Workers /\ pc[p] \in Asking
                              /\ todo[p] = {} /\ marked[p] = {}
  BY <1>1 DEF Reported
<1>4. ASSUME UNCHANGED <<task, queue>>,
             \A p \in Processes : /\ Carries(p)' => p \in Workers /\ pc'[p] \in Asking
                                 /\ todo'[p] = {} /\ marked'[p] = {}
      PROVE  Reported'
  BY <1>1, <1>3, <1>4, CountsKept DEF Reported
<1>5. ASSUME NEW p \in Processes, NEW place, Goto(p, place), UNCHANGED <<task, queue, todo, marked>>,
             place = "push" \/ (p \in Workers /\ place \in Asking)
      PROVE  Reported'
  <2>1. \A q \in Processes \ {p} : Carries(q)' => Carries(q) /\ pc'[q] = pc[q]
    BY <1>5, OthersStay DEF Carries
  <2>2. Carries(p)' => p \in Workers /\ place \in Asking
    BY <1>3, <1>5, OthersStay, ConstantsAssumption DEF Carries, Enqueueing, ConstantsAssumption
  <2> QED BY <1>3, <1>4, <1>5, <2>1, <2>2, OthersStay
<1>6. ASSUME NEW p \in Processes, Finish(p), UNCHANGED <<task, queue>> PROVE Reported'
  <2>1. /\ pc'[p] = "idle" /\ todo'[p] = {} /\ marked'[p] = {}
        /\ \A q \in Processes \ {p} : UNCHANGED <<pc[q], todo[q], marked[q]>>
    BY <1>2, <1>6 DEF Finish, Goto, LocalTypes
  <2>2. ~Carries(p)' /\ \A q \in Processes \ {p} : Carries(q)' => Carries(q)
    BY <2>1 DEF Carries, Enqueueing
  <2> QED BY <1>3, <1>4, <1>6, <2>1, <2>2
<1>7. ASSUME NEW w \in Workers, Work(w) PROVE Reported'
  <2>1. w \in Processes /\ pc[w] \in Asking \cup {"idle", "push"}
    BY <1>3, PlacesKnown DEF Carries
  <2>2. QueueMore(w) \/ CountMore(w)
    BY <1>3, <1>7, <2>1 DEF Work, Pop, ReadTask, CheckLimit, StartTask, StartPlan, Install,
       Evaluate, Judge, SetResult, Asking
  <2>3. UNCHANGED <<task, queue>>
    BY <2>2 DEF QueueMore, CountMore
  <2>4. CASE Finish(w)
    BY <1>6, <2>1, <2>3, <2>4
  <2>5. CASE (Goto(w, "more count") \/ Goto(w, "select")) /\ UNCHANGED <<todo, marked>>
    BY <1>5, <2>1, <2>3, <2>5 DEF Asking
  <2> QED BY <2>2, <2>4, <2>5 DEF QueueMore, CountMore
<1>8. ASSUME NEW c \in Callers PROVE ~(Enqueue(c) \/ CancelPlan(c) \/ Continue(c))
  <2>1. c \in Processes /\ c \notin Workers
    BY PlacesKnown, ConstantsAssumption DEF ConstantsAssumption
  <2>2. pc[c] \notin Enqueueing
    BY <1>3, <2>1 DEF Carries
  <2>3. ~Continue(c)
    BY <2>1, <2>2 DEF Continue, Insert, CountTasks, SavePlan, CancelTasks, Enqueueing, Undisturbed
  <2>4. ~CancelPlan(c)
    BY DEF CancelPlan
  <2>5. ~Enqueue(c)
    <3>1. enqueues # 0
      BY <1>1 DEF EnqueuedOnce, Unused
    <3> QED BY <3>1, EnqueuesGrow
  <2> QED BY <2>3, <2>4, <2>5
<1>9. ASSUME NEW p \in Processes, Shared(p) \/ Crash(p) PROVE Reported'
  <2>1. CASE Crash(p)
    BY <1>6, <2>1 DEF Crash
  <2>2. CASE CountDone(p) \/ CountActive(p) \/ ReadStatus(p)
    <3>1. pc[p] \in Reconciling
      BY <2>2 DEF CountDone, CountActive, ReadStatus, Reconciling
    <3>2. p \in Workers /\ Carries(p)
      BY <3>1 DEF Undisturbed, Carries, Reconciling, Processes
    <3> QED BY <1>3, <3>1, <3>2 DEF Reconciling, Asking
  <2>3. CASE Select(p)
    <3>1. PICK S \in SUBSET WithStatus({"pending"}) : todo' = [todo EXCEPT ![p] = S]
      BY <2>3 DEF Select
    <3>2. WithStatus(Unfinished) = {}
      <4>1. IsFiniteSet(WithStatus(Unfinished)) /\ Cardinality(WithStatus(Unfinished)) = 0
        BY <1>2, <1>3, Finite, Statuses DEF Count
      <4> QED BY <4>1, FS_EmptySet
    <3>3. S = {} /\ todo' = todo
      BY <1>2, <1>3, <3>1, <3>2 DEF WithStatus, Unfinished, LocalTypes
    <3>4. p \in Workers
      BY <1>3, <2>3 DEF Select, Carries, Processes, Enqueueing
    <3> QED BY <1>5, <2>3, <3>3, <3>4 DEF Select, Asking
  <2>4. CASE Mark(p)
    <3>1. p \in Workers
      BY <1>3, <2>4 DEF Mark, Carries, Processes, Enqueueing
    <3>2. Goto(p, "push") /\ UNCHANGED <<task, todo, marked>>
      BY <1>3, <2>4, <3>1 DEF Mark
    <3> QED BY <1>5, <2>4, <3>2 DEF Mark
  <2>5. CASE Push(p)
    BY <1>3, <1>6, <2>5 DEF Push
  <2> QED BY <1>9, <2>1, <2>2, <2>3, <2>4, <2>5 DEF Shared
<1>10. ~DeletePlan
  BY DEF DeletePlan
<1>11. CASE UNCHANGED vars
  BY <1>3, <1>4, <1>11 DEF vars, localVars, Carries
<1> QED BY <1>7, <1>8, <1>9, <1>10, <1>11 DEF Next

LEMMA VerdictStep ==
    Sound /\ Sound' /\ EnqueuedOnce /\ Alone /\ Undisturbed /\ VerdictHolds /\ [Next]_vars
      => Undisturbed' /\ VerdictHolds'
<1>1. ASSUME Sound, [Next]_vars, Undisturbed PROVE Undisturbed'
  BY <1>1, UndisturbedStep DEF Undisturbed
<1>2. ASSUME Sound, Sound', EnqueuedOnce, Alone, Undisturbed, VerdictHolds, [Next]_vars,
             Sequential', cancels' = 0
      PROVE  CountsHold' /\ Reported'
  <2>1. Sequential /\ cancels = 0 /\ enqueues' <= 1
    BY <1>2, EnqueuesGrow DEF Sequential
  <2>2. AloneNow /\ CountsHold /\ Reported
    BY <1>2, <2>1 DEF Alone, AloneNow, VerdictHolds
  <2> QED BY <1>2, <2>1, <2>2, CountsStep, ReportedStep
<1> QED BY <1>1, <1>2 DEF VerdictHolds

(* A sequential plan that nobody cancels is reported "succeeded" or "failed" *)
(* only when all its tasks have ended, with the verdict and the counters     *)
(* they amount to, whoever crashes and whatever order the statements of      *)
(* workers and requests come in.                                            *)
THEOREM VerdictIsRight == Spec => []VerdictFits
<1>1. Init => Undisturbed /\ VerdictHolds
  <2> SUFFICES ASSUME Init PROVE Undisturbed /\ VerdictHolds
    OBVIOUS
  <2>1. plan = "draft" /\ \A p \in Processes : pc[p] = "idle"
    BY DEF Init
  <2>2. Undisturbed
    BY <2>1, PlacesKnown DEF Undisturbed, Reconciling
  <2>3. VerdictHolds
    BY <2>1 DEF VerdictHolds, CountsHold, Reported
  <2> QED BY <2>2, <2>3
<1>2. VerdictHolds => VerdictFits
  BY DEF VerdictHolds, Reported, VerdictFits
<1>3. Spec => [](Undisturbed /\ VerdictHolds)
  BY <1>1, VerdictStep, AlwaysAlone, PTL DEF Spec
<1> QED BY <1>2, <1>3, PTL
===============================================================================
