------------------------- MODULE EndpointInvocations --------------------------
(***************************************************************************)
(* Calls of one managed endpoint: the requests in the backend, the Redis   *)
(* list of every build, the workers with their rows in                     *)
(* endpoint_worker_registrations, and the publication of the answer on a   *)
(* channel that only keeps what somebody has subscribed to.  Around them a *)
(* promotion, the deletion of the endpoint, and a reconciler that drains   *)
(* workers nobody wants any more; EndpointRollout has the rest of it.      *)
(*                                                                         *)
(* Legacy static workers, authentication and the deltas of a stream are    *)
(* left out.                                                               *)
(***************************************************************************)
EXTENDS Naturals, Sequences

CONSTANTS
    Invocations,
    OldWorkers,   \* workers of the build that is active first, and
    NewWorkers,   \* of the one that is promoted
    NoTask,
    MaxFaults     \* bound: crashes, missed heartbeats, timed out drains, deletions,
                  \* rebuilds

ASSUME ConstantsAssumption ==
    /\ NoTask \notin Invocations
    /\ OldWorkers \cap NewWorkers = {}
    /\ MaxFaults \in Nat

VARIABLES
    active,      \* the build requests are routed to
    deleting,    \* delete_requested_at is set
    superseded,  \* builds whose row is not "ready" any more
    request,     \* where the handler of an invocation is
    target,      \* the build it was routed to
    subscribed,  \* invocations whose channel has a subscriber
    heard,       \* invocations whose subscriber has been sent the answer
    queue,       \* of every build, the oldest payload first
    pc,          \* where a worker is
    hand,        \* the payload it has popped
    status,      \* registry; "stale": marked or expired
    assigned,    \* workers whose assigned_endpoint_id is set
    task,        \* registry
    container,   \* lifecycle in managed_endpoint_containers
    look,        \* what the reconciler has read of a worker it wants to go
    answered,    \* invocations for which an answer was published
    dropped,     \* invocations that a process took with it when it died
    faults

routeVars == <<active, deleting, superseded>>
requestVars == <<request, target, subscribed>>
workerVars == <<pc, hand>>
registryVars == <<status, assigned, task>>
drainVars == <<container, look>>
answerVars == <<heard, answered, dropped>>
vars == <<routeVars, requestVars, queue, workerVars, registryVars, drainVars,
          answerVars, faults>>

Workers == OldWorkers \cup NewWorkers
Builds == {1, 2}
BuildOf(w) == IF w \in OldWorkers THEN 1 ELSE 2

Places == {"off", "top", "listen", "pop", "claim", "requeue", "check", "run",
           "release"}

Init ==
    /\ active = 1 /\ deleting = FALSE /\ superseded = {}
    /\ request = [i \in Invocations |-> "new"]
    /\ target = [i \in Invocations |-> 1]
    /\ subscribed = {}
    /\ heard = {}
    /\ queue = [b \in Builds |-> <<>>]
    /\ pc = [w \in Workers |-> "off"]
    /\ hand = [w \in Workers |-> NoTask]
    /\ status = [w \in Workers |-> "none"]
    /\ assigned = {}
    /\ task = [w \in Workers |-> NoTask]
    /\ container = [w \in Workers |-> "ready"]
    /\ look = [w \in Workers |-> "none"]
    /\ answered = {} /\ dropped = {}
    /\ faults = 0

Fault == faults < MaxFaults /\ faults' = faults + 1

-------------------------------------------------------------------------------
(* The request. *)

(* A target of get_endpoint_routing_state: only the active build has any.   *)
Routable ==
    \E w \in assigned : /\ BuildOf(w) = active /\ status[w] = "listening"
                        /\ container[w] # "removed"

(* Mutant: the channel is subscribed to when the job is in its queue. *)
SubscribeLater(i) ==
    /\ \/ /\ request[i] = "new" /\ Routable
          /\ request' = [request EXCEPT ![i] = "routed"]
          /\ target' = [target EXCEPT ![i] = active]
          /\ UNCHANGED subscribed
       \/ /\ request[i] = "waiting"
          /\ subscribed' = subscribed \cup {i}
          /\ UNCHANGED <<request, target>>
    /\ UNCHANGED <<routeVars, queue, workerVars, registryVars, drainVars,
                   answerVars, faults>>

(* The request is authenticated, a target is looked for, the channel is     *)
(* subscribed to, and a target is looked for again.  The second look decides *)
(* alone whether there is one; the endpoint may be deleted after the first.  *)
Route(i) ==
    /\ request[i] = "new"
    /\ \/ /\ Routable
          /\ request' = [request EXCEPT ![i] = "routed"]
          /\ target' = [target EXCEPT ![i] = active]
          /\ subscribed' = subscribed \cup {i}
       \/ /\ deleting \/ ~Routable
          /\ request' = [request EXCEPT ![i] = "refused"]
          /\ UNCHANGED <<target, subscribed>>
    /\ UNCHANGED <<routeVars, queue, workerVars, registryVars, drainVars,
                   answerVars, faults>>

(* By now the target may be drained, deleted or busy.                       *)
Push(i) ==
    /\ request[i] = "routed"
    /\ request' = [request EXCEPT ![i] = "waiting"]
    /\ queue' = [queue EXCEPT ![target[i]] = Append(@, i)]
    /\ UNCHANGED <<routeVars, target, subscribed, workerVars, registryVars,
                   drainVars, answerVars, faults>>

EndRequest(i) ==
    /\ request' = [request EXCEPT ![i] = "ended"]
    /\ subscribed' = subscribed \ {i}
    /\ heard' = heard \ {i}
    /\ UNCHANGED <<routeVars, target, queue, workerVars, registryVars,
                   drainVars, answered, dropped, faults>>

Receive(i) ==
    /\ request[i] = "waiting" /\ i \in heard
    /\ EndRequest(i)

(* The deadline of a plain request; a streaming client that goes away.      *)
GiveUp(i) ==
    /\ request[i] = "waiting"
    /\ EndRequest(i)

-------------------------------------------------------------------------------
(* The worker: run_endpoint_worker. *)

Goto(w, place) == pc' = [pc EXCEPT ![w] = place]

SetRow(w, s, t) ==
    /\ status' = [status EXCEPT ![w] = s]
    /\ task' = [task EXCEPT ![w] = t]
    /\ UNCHANGED assigned

(* What the process holds is gone with it. *)
Dies(w) ==
    /\ Goto(w, "off")
    /\ hand' = [hand EXCEPT ![w] = NoTask]
    /\ dropped' = dropped \cup ({hand[w]} \ (answered \cup {NoTask}))
    /\ UNCHANGED <<heard, answered>>

(* Mutant: a registration keeps the task of the process before. *)
BootWithTask(w) ==
    /\ pc[w] = "off" /\ container[w] = "ready"
    /\ BuildOf(w) \notin superseded
    /\ Goto(w, "top")
    /\ status' = [status EXCEPT ![w] = "preparing"]
    /\ assigned' = assigned \cup {w}
    /\ UNCHANGED <<routeVars, requestVars, queue, hand, task, drainVars,
                   answerVars, faults>>

(* validate_managed_endpoint_worker_identity asks for a ready build of every *)
(* registration, every heartbeat and every execution.                       *)
BuildIsReady(w) == BuildOf(w) \notin superseded

(* Docker starts the process again, however it ended; it registers only if  *)
(* its build is ready and its container still eligible for claims.          *)
Boot(w) ==
    /\ pc[w] = "off" /\ container[w] = "ready" /\ BuildIsReady(w)
    /\ Goto(w, "top")
    /\ status' = [status EXCEPT ![w] = "preparing"]
    /\ task' = [task EXCEPT ![w] = NoTask]
    /\ assigned' = assigned \cup {w}
    /\ UNCHANGED <<routeVars, requestVars, queue, hand, drainVars, answerVars, faults>>

(* Mutant: a managed worker idles without an assignment, as a legacy one.   *)
IdleUnassigned(w) ==
    /\ pc[w] = "top"
    /\ IF w \in assigned THEN Goto(w, "listen") /\ UNCHANGED registryVars
       ELSE SetRow(w, "idle", NoTask) /\ UNCHANGED pc
    /\ UNCHANGED <<routeVars, requestVars, queue, hand, drainVars, answerVars,
                   faults>>

(* A heartbeat reads the row, validates the identity, and later writes, and *)
(* then the build may be superseded.  The worker survives neither the loss  *)
(* of its assignment nor a heartbeat that is refused.                       *)
ReadAssignment(w) ==
    /\ pc[w] = "top"
    /\ IF w \in assigned /\ status[w] # "stale" /\ BuildIsReady(w)
       THEN Goto(w, "listen") /\ UNCHANGED <<hand, answerVars>>
       ELSE Dies(w)
    /\ UNCHANGED <<routeVars, requestVars, queue, registryVars, drainVars,
                   faults>>

BeatListening(w) ==
    /\ pc[w] = "listen"
    /\ IF task[w] = NoTask
       THEN /\ SetRow(w, "listening", NoTask)
            /\ Goto(w, "pop")
            /\ UNCHANGED <<hand, answerVars>>
       ELSE Dies(w) /\ UNCHANGED registryVars
    /\ UNCHANGED <<routeVars, requestVars, queue, drainVars, faults>>

(* BRPOP gives up after five seconds.                                       *)
Pop(w) ==
    /\ pc[w] = "pop"
    /\ LET q == queue[BuildOf(w)]
       IN  IF q = <<>> THEN Goto(w, "top") /\ UNCHANGED <<hand, queue>>
           ELSE /\ hand' = [hand EXCEPT ![w] = Head(q)]
                /\ queue' = [queue EXCEPT ![BuildOf(w)] = Tail(q)]
                /\ Goto(w, "claim")
    /\ UNCHANGED <<routeVars, requestVars, registryVars, drainVars, answerVars, faults>>

Claimable(w) == w \in assigned /\ status[w] = "listening" /\ task[w] = NoTask

Claim(w) ==
    /\ pc[w] = "claim"
    /\ IF Claimable(w)
       THEN SetRow(w, "running", hand[w]) /\ Goto(w, "check")
       ELSE Goto(w, "requeue") /\ UNCHANGED registryVars
    /\ UNCHANGED <<routeVars, requestVars, queue, hand, drainVars, answerVars, faults>>

(* Mutant: an invocation that was not claimed is not put back. *)
ForgetUnclaimed(w) ==
    /\ pc[w] = "requeue"
    /\ hand' = [hand EXCEPT ![w] = NoTask]
    /\ Goto(w, "top")
    /\ UNCHANGED <<routeVars, requestVars, queue, registryVars, drainVars, answerVars, faults>>

(* RPUSH: it is the next to be popped. *)
Requeue(w) ==
    /\ pc[w] = "requeue"
    /\ queue' = [queue EXCEPT ![BuildOf(w)] = <<hand[w]>> \o @]
    /\ hand' = [hand EXCEPT ![w] = NoTask]
    /\ Goto(w, "top")
    /\ UNCHANGED <<routeVars, requestVars, registryVars, drainVars, answerVars, faults>>

(* run_endpoint_invocation_job refuses a row that is not live, a build that *)
(* is not ready, and a draining container whose row does not name this      *)
(* invocation.                                                             *)
Runnable(w) ==
    /\ ~deleting /\ BuildIsReady(w) /\ status[w] \notin {"none", "stale"}
    /\ container[w] = "draining" => status[w] = "running" /\ task[w] = hand[w]

Answer(w) ==
    /\ answered' = answered \cup {hand[w]}
    /\ heard' = heard \cup ({hand[w]} \cap subscribed)
    /\ Goto(w, "release")
    /\ UNCHANGED dropped

(* A refusal is published as an error. *)
Check(w) ==
    /\ pc[w] = "check"
    /\ IF Runnable(w) THEN Goto(w, "run") /\ UNCHANGED answerVars
       ELSE Answer(w)
    /\ UNCHANGED <<routeVars, requestVars, queue, hand, registryVars,
                   drainVars, faults>>

(* The bundle runs, and its output or its exception is published. *)
Run(w) ==
    /\ pc[w] = "run"
    /\ Answer(w)
    /\ UNCHANGED <<routeVars, requestVars, queue, hand, registryVars,
                   drainVars, faults>>

(* finally: if the task that beats meanwhile has failed, its exception, and *)
(* if the row is stale or the build not ready, a refusal, leaves the row as *)
(* it is; the loop goes on.                                                *)
Release(w) ==
    /\ pc[w] = "release"
    /\ LET refused == status[w] = "stale" \/ ~BuildIsReady(w)
       IN  \/ /\ ~refused
              /\ SetRow(w, "listening", NoTask) /\ UNCHANGED faults
           \/ /\ IF refused THEN UNCHANGED faults ELSE Fault
              /\ UNCHANGED registryVars
    /\ hand' = [hand EXCEPT ![w] = NoTask]
    /\ Goto(w, "top")
    /\ UNCHANGED <<routeVars, requestVars, queue, drainVars, answerVars>>

Crash(w) ==
    /\ pc[w] # "off" /\ Fault
    /\ Dies(w)
    /\ UNCHANGED <<routeVars, requestVars, queue, registryVars, drainVars>>

(* heartbeat_expires_at passes, for a dead process or a slow one.           *)
Expire(w) ==
    /\ status[w] \notin {"none", "stale"}
    /\ IF pc[w] = "off" THEN UNCHANGED faults ELSE Fault
    /\ status' = [status EXCEPT ![w] = "stale"]
    /\ UNCHANGED <<routeVars, requestVars, queue, workerVars, assigned, task,
                   drainVars, answerVars>>

-------------------------------------------------------------------------------
(* Promotion, deletion and the drain of workers. *)

Promote ==
    /\ active = 1 /\ ~deleting
    /\ \E w \in NewWorkers \cap assigned : status[w] = "listening"
    /\ active' = 2
    /\ UNCHANGED <<deleting, superseded, requestVars, queue, workerVars, registryVars,
                   drainVars, answerVars, faults>>

DeleteEndpoint ==
    /\ ~deleting /\ deleting' = TRUE /\ Fault
    /\ status' = [w \in Workers |-> IF status[w] = "none" THEN "none"
                                    ELSE "stale"]
    /\ assigned' = {}
    /\ UNCHANGED <<active, superseded, requestVars, queue, workerVars, task,
                   drainVars, answerVars>>

(* A rebuild of its revision is published: complete_claim.                  *)
Supersede(b) ==
    /\ b \notin superseded /\ Fault
    /\ superseded' = superseded \cup {b}
    /\ UNCHANGED <<active, deleting, requestVars, queue, workerVars, registryVars,
                   drainVars, answerVars>>

Unwanted(w) == deleting \/ BuildOf(w) < active

(* Mutant: claims are not blocked. *)
BlockNothing(w) ==
    /\ Unwanted(w) /\ container[w] = "ready"
    /\ container' = [container EXCEPT ![w] = "draining"]
    /\ UNCHANGED <<routeVars, requestVars, queue, workerVars, registryVars,
                   look, answerVars, faults>>

(* block_worker_claims, one statement; the cycle goes no further. *)
Block(w) ==
    /\ Unwanted(w) /\ container[w] = "ready"
    /\ container' = [container EXCEPT ![w] = "draining"]
    /\ assigned' = assigned \ {w}
    /\ UNCHANGED <<routeVars, requestVars, queue, workerVars, status, task,
                   look, answerVars, faults>>

(* A later cycle reads the registry, and then acts on what it has read.     *)
Look(w) ==
    /\ container[w] = "draining" /\ look[w] = "none"
    /\ look' = [look EXCEPT ![w] = IF status[w] = "running" THEN "busy"
                                   ELSE "idle"]
    /\ UNCHANGED <<routeVars, requestVars, queue, workerVars, registryVars,
                   container, answerVars, faults>>

KeepDraining(w) ==
    /\ look[w] = "busy"
    /\ look' = [look EXCEPT ![w] = "none"]
    /\ UNCHANGED <<routeVars, requestVars, queue, workerVars, registryVars,
                   container, answerVars, faults>>

(* The container is stopped, and its registration deleted.                  *)
Remove(w) ==
    /\ look[w] # "none"
    /\ IF look[w] = "busy" THEN Fault ELSE UNCHANGED faults
    /\ container' = [container EXCEPT ![w] = "removed"]
    /\ look' = [look EXCEPT ![w] = "none"]
    /\ status' = [status EXCEPT ![w] = "none"]
    /\ assigned' = assigned \ {w}
    /\ task' = [task EXCEPT ![w] = NoTask]
    /\ Dies(w)
    /\ UNCHANGED <<routeVars, requestVars, queue>>

-------------------------------------------------------------------------------
Handle(i) == Push(i) \/ Receive(i)

Work(w) == \/ Boot(w) \/ ReadAssignment(w) \/ BeatListening(w)
           \/ Pop(w) \/ Claim(w) \/ Requeue(w) \/ Check(w) \/ Run(w)
           \/ Release(w)

Reconcile(w) == Look(w) \/ Block(w) \/ KeepDraining(w) \/ Remove(w)

Next ==
    \/ \E i \in Invocations : Route(i) \/ Handle(i) \/ GiveUp(i)
    \/ \E w \in Workers :
         Work(w) \/ Crash(w) \/ Expire(w) \/ Reconcile(w)
    \/ Promote \/ DeleteEndpoint
    \/ \E b \in Builds : Supersede(b)

Spec == Init /\ [][Next]_vars

(* Requests, workers and their restarts go on.  Nothing else has to happen, *)
(* and the reconciler may never look.                                      *)
Fairness ==
    /\ \A i \in Invocations : WF_vars(Handle(i))
    /\ \A w \in Workers : WF_vars(Work(w))

FairSpec == Spec /\ Fairness

-------------------------------------------------------------------------------
InQueue(i) == \E b \in Builds : \E k \in DOMAIN queue[b] : queue[b][k] = i

TypeOK ==
    /\ active \in Builds /\ deleting \in BOOLEAN /\ superseded \in SUBSET Builds
    /\ request \in [Invocations -> {"new", "routed", "waiting", "refused",
                                    "ended"}]
    /\ target \in [Invocations -> Builds]
    /\ subscribed \in SUBSET Invocations
    /\ heard \in SUBSET Invocations
    /\ queue \in [Builds -> Seq(Invocations)]
    /\ pc \in [Workers -> Places]
    /\ hand \in [Workers -> Invocations \cup {NoTask}]
    /\ status \in [Workers -> {"none", "preparing", "listening", "running",
                               "stale"}]
    /\ assigned \in SUBSET Workers
    /\ task \in [Workers -> Invocations \cup {NoTask}]
    /\ container \in [Workers -> {"ready", "draining", "removed"}]
    /\ look \in [Workers -> {"none", "idle", "busy"}]
    /\ answered \in SUBSET Invocations /\ dropped \in SUBSET Invocations
    /\ faults \in 0..MaxFaults

(* Popping, claiming, putting back and dying neither multiply nor lose an   *)
(* invocation: until it is answered, or a process has died holding it, an   *)
(* accepted one is in one place of one queue or in one worker's hand, and   *)
(* afterwards in none where a worker would start it again.                  *)
PlacesOf(i) ==
    (UNION {{b} \X {k \in DOMAIN queue[b] : queue[b][k] = i} : b \in Builds})
    \cup ({v \in Workers : hand[v] = i /\ pc[v] # "release"} \X {0})
Outstanding(i) == /\ request[i] \in {"waiting", "ended"}
                  /\ i \notin answered \cup dropped
HandledOnce ==
    \A i \in Invocations :
        IF Outstanding(i) THEN \E place \in PlacesOf(i) : PlacesOf(i) = {place}
        ELSE PlacesOf(i) = {}

(* Nobody keeps what is published on a channel: a request that still waits  *)
(* for an invocation that was answered has been sent the answer.            *)
AnswerIsHeard ==
    \A i \in answered : request[i] = "waiting" => i \in heard

(* A worker that executes what it has claimed, and whose row is live, is    *)
(* removed only if its drain timed out: the drain blocks claims before it   *)
(* reads whether the worker is busy, and no restart unblocks them.          *)
DrainSparesClaim ==
    [][\A w \in Workers :
         container[w] = "draining" /\ container'[w] = "removed"
         /\ pc[w] \in {"check", "run"} /\ status[w] = "running" =>
            look[w] = "busy" /\ faults' > faults]_vars

(* An accepted invocation is answered, unless its build was drained, or is  *)
(* about to be, or was superseded, the endpoint was deleted, or a fault met *)
(* its worker: no order of pops, refused claims and registrations keeps it  *)
(* in the queue of workers that serve.                                      *)
InvocationServed ==
    \A i \in Invocations :
        InQueue(i) ~> \/ i \in answered \cup dropped
                      \/ deleting \/ target[i] < active
                      \/ target[i] \in superseded
===============================================================================
