----------------------------- MODULE BuildProcess -----------------------------
(***************************************************************************)
(* How the deployer runs one image build after another: the coordinator    *)
(* on the event loop, the thread that RevisionImageBuildProcessRunner.build *)
(* blocks in, and the child process that talks to Docker.  The loop and    *)
(* the thread share two locks, the cancellation flag and the active child; *)
(* the child reports through a pipe and is ended by signals.               *)
(*                                                                         *)
(* Claims, leases and the table are in RevisionBuilds; here a claim is the *)
(* number of a build and what was settled for it.                          *)
(***************************************************************************)
EXTENDS Naturals, Sequences

CONSTANTS
    MaxBuilds,   \* bound: builds that are claimed
    MaxLogs,     \* bound: log messages of a child
    MaxFaults    \* bound: failed commands, failed starts, killed children

ASSUME ConstantsAssumption ==
    /\ MaxBuilds \in Nat \ {0}
    /\ MaxLogs \in Nat
    /\ MaxFaults \in Nat

VARIABLES
    claim,       \* the build the coordinator has claimed last, 0 at first
    pc,          \* where the loop and the thread are
    back,        \* where the loop goes on after it has cancelled
    lock,        \* owner of _lock
    lifecycle,   \* owner of _lifecycle_lock
    active,      \* _active_child, 0 for None
    cancelled,   \* the BuildCancellation of the claim
    reason,      \* cancellation_reason of the coordinator
    stopping,    \* request_stop was called
    child,       \* the processes, by build
    message,     \* what the thread has received
    outcome,     \* what build() returned or raised
    decision,    \* what the coordinator is going to settle
    settled,     \* what it has settled, by build
    faults

loopVars == <<claim, back, reason, stopping, decision, settled>>
lockVars == <<lock, lifecycle, active>>
threadVars == <<message, outcome>>
vars == <<loopVars, pc, lockVars, cancelled, child, threadVars, faults>>

Builds == 1..MaxBuilds
Threads == {"loop", "thread"}

Verdicts == {"ready", "failed", "error"}
Messages == Verdicts \cup {"log"}

Child == [is : {"absent", "alive", "dead", "closed"},
          signal : {"none", "term", "kill"},
          logs : 0..MaxLogs, verdict : Verdicts \cup {"none"}, pipe : Seq(Messages)]

NoChild == [is |-> "absent", signal |-> "none", logs |-> 0,
            verdict |-> "none", pipe |-> <<>>]

Terminating == {"enter", "grace", "kill"}
Executing == {"watch", "turn", "renew", "await", "decide", "settle"}
LoopPlaces == {"idle", "cycle", "cancel", "stopped"} \cup Executing
              \cup Terminating
ThreadPlaces == {"idle", "start", "lock", "poll", "check", "alive", "close",
                 "closing", "returned"} \cup Terminating

Init ==
    /\ claim = 0
    /\ pc = [loop |-> "idle", thread |-> "idle"]
    /\ back = "idle"
    /\ lock = "free" /\ lifecycle = "free" /\ active = 0
    /\ cancelled = FALSE /\ reason = "none" /\ stopping = FALSE
    /\ child = [b \in Builds |-> NoChild]
    /\ message = "none" /\ outcome = "none" /\ decision = "none"
    /\ settled = [b \in Builds |-> "none"]
    /\ faults = 0

Goto(p, place) == pc' = [pc EXCEPT ![p] = place]
Fault == faults < MaxFaults /\ faults' = faults + 1

-------------------------------------------------------------------------------
(* The child: RevisionImageBuilder.build and the messages it sends. *)

Send(b, m) == child[b].pipe \o <<m>>

ChildLogs(b) ==
    /\ child[b].is = "alive" /\ child[b].verdict = "none"
    /\ child[b].logs < MaxLogs
    /\ child' = [child EXCEPT ![b].logs = @ + 1, ![b].pipe = Send(b, "log")]
    /\ UNCHANGED <<loopVars, pc, lockVars, cancelled, threadVars, faults>>

(* Any stage of the build may fail, which is a result; what is raised       *)
(* outside of them is an error.                                            *)
ChildReports(b) ==
    /\ child[b].is = "alive" /\ child[b].verdict = "none"
    /\ \E v \in Verdicts :
         child' = [child EXCEPT ![b].verdict = v, ![b].pipe = Send(b, v)]
    /\ UNCHANGED <<loopVars, pc, lockVars, cancelled, threadVars, faults>>

(* It exits after its verdict, or because of a signal, which may take long. *)
ChildEnds(b) ==
    /\ child[b].is = "alive"
    /\ child[b].verdict # "none" \/ child[b].signal # "none"
    /\ child' = [child EXCEPT ![b].is = "dead"]
    /\ UNCHANGED <<loopVars, pc, lockVars, cancelled, threadVars, faults>>

ChildKilled(b) ==
    /\ child[b].is = "alive" /\ Fault
    /\ child' = [child EXCEPT ![b].is = "dead"]
    /\ UNCHANGED <<loopVars, pc, lockVars, cancelled, threadVars>>

-------------------------------------------------------------------------------
(* _terminate, called by the loop with _lock held and by the thread without. *)

Target(p) == IF p = "loop" THEN active ELSE claim

(* Mutant: the loop goes on without giving _lock back. *)
LeaveLocked(p) ==
    /\ lifecycle' = "free"
    /\ Goto(p, IF p = "loop" THEN back ELSE "close")
    /\ UNCHANGED <<lock, active>>

(* Where a caller of _terminate goes on, and what it gives back. *)
Leave(p) ==
    /\ lifecycle' = "free"
    /\ IF p = "loop" THEN lock' = "free" /\ Goto(p, back)
       ELSE UNCHANGED lock /\ Goto(p, "close")
    /\ UNCHANGED active

EnterTerminate(p) ==
    /\ pc[p] = "enter" /\ lifecycle = "free"
    /\ IF child[Target(p)].is = "alive"
       THEN /\ child' = [child EXCEPT ![Target(p)].signal = "term"]
            /\ lifecycle' = p
            /\ Goto(p, "grace")
            /\ UNCHANGED <<lock, active>>
       ELSE Leave(p) /\ UNCHANGED child
    /\ UNCHANGED <<loopVars, cancelled, threadVars, faults>>

(* Mutant: the child is given up after the grace period. *)
GraceEndsWithoutKill(p) ==
    /\ pc[p] = "grace"
    /\ Leave(p)
    /\ UNCHANGED <<child, loopVars, cancelled, threadVars, faults>>

(* The grace period ends with the child, or without it. *)
GraceEnds(p) ==
    /\ pc[p] = "grace"
    /\ IF child[Target(p)].is = "alive"
       THEN /\ child' = [child EXCEPT ![Target(p)].signal = "kill"]
            /\ Goto(p, "kill")
            /\ UNCHANGED lockVars
       ELSE Leave(p) /\ UNCHANGED child
    /\ UNCHANGED <<loopVars, cancelled, threadVars, faults>>

JoinKilled(p) ==
    /\ pc[p] = "kill" /\ child[Target(p)].is # "alive"
    /\ Leave(p)
    /\ UNCHANGED <<child, loopVars, cancelled, threadVars, faults>>

-------------------------------------------------------------------------------
(* build(), in its thread. *)

Begin ==
    /\ pc["thread"] = "start"
    /\ IF cancelled THEN outcome' = "cancelled" /\ Goto("thread", "returned")
       ELSE UNCHANGED outcome /\ Goto("thread", "lock")
    /\ UNCHANGED <<loopVars, lockVars, cancelled, child, message, faults>>

StartChild ==
    /\ pc["thread"] = "lock" /\ lock = "free"
    /\ IF active # 0
       THEN /\ outcome' = "refused" /\ Goto("thread", "returned")
            /\ UNCHANGED <<child, active, faults>>
       ELSE \/ /\ child' = [child EXCEPT ![claim].is = "alive"]
               /\ active' = claim
               /\ Goto("thread", "poll")
               /\ UNCHANGED <<outcome, faults>>
            \/ /\ Fault
               /\ child' = [child EXCEPT ![claim].is = "closed"]
               /\ outcome' = "error" /\ Goto("thread", "returned")
               /\ UNCHANGED active
    /\ UNCHANGED <<loopVars, lock, lifecycle, cancelled, message>>

Ends(what) == outcome' = what /\ Goto("thread", "enter")

(* receive: a message, or None after the timeout or at the end of the pipe. *)
Receive ==
    /\ pc["thread"] = "poll"
    /\ IF cancelled
       THEN Ends("cancelled") /\ UNCHANGED <<message, child>>
       ELSE /\ IF child[claim].pipe = <<>>
               THEN message' = "none" /\ UNCHANGED child
               ELSE /\ message' = Head(child[claim].pipe)
                    /\ child' = [child EXCEPT ![claim].pipe = Tail(@)]
            /\ Goto("thread", "check")
            /\ UNCHANGED outcome
    /\ UNCHANGED <<loopVars, lockVars, cancelled, faults>>

Handle ==
    /\ pc["thread"] = "check"
    /\ CASE cancelled -> Ends("cancelled")
         [] ~cancelled /\ message = "log" ->
              Goto("thread", "poll") /\ UNCHANGED outcome
         [] ~cancelled /\ message = "none" ->
              Goto("thread", "alive") /\ UNCHANGED outcome
         [] OTHER -> Ends(message)
    /\ message' = "none"
    /\ UNCHANGED <<loopVars, lockVars, cancelled, child, faults>>

CheckAlive ==
    /\ pc["thread"] = "alive"
    /\ IF child[claim].is = "alive"
       THEN Goto("thread", "poll") /\ UNCHANGED outcome
       ELSE Ends("no result")
    /\ UNCHANGED <<loopVars, lockVars, cancelled, child, message, faults>>

(* Mutant: the child is closed with the lifecycle lock only. *)
CloseUnlocked ==
    /\ pc["thread"] = "close" /\ lifecycle = "free"
    /\ lock' = "thread"
    /\ child' = [child EXCEPT ![claim].is = "closed"]
    /\ Goto("thread", "closing")
    /\ UNCHANGED <<loopVars, lifecycle, active, cancelled, threadVars, faults>>

LockToClose ==
    /\ pc["thread"] = "close" /\ lock = "free"
    /\ lock' = "thread"
    /\ Goto("thread", "closing")
    /\ UNCHANGED <<loopVars, lifecycle, active, cancelled, child, threadVars,
                   faults>>

(* A closed child has no process and no pipe any more; what it found stays  *)
(* for the properties.  Closing a process that still runs raises.           *)
Closed(b) == [NoChild EXCEPT !.is = "closed", !.verdict = child[b].verdict]

CloseChild ==
    /\ pc["thread"] = "closing" /\ lifecycle = "free"
    /\ lock' = "free"
    /\ IF active = claim /\ child[claim].is = "dead"
       THEN child' = [child EXCEPT ![claim] = Closed(claim)] /\ active' = 0
       ELSE UNCHANGED <<child, active>>
    /\ Goto("thread", "returned")
    /\ UNCHANGED <<loopVars, lifecycle, cancelled, threadVars, faults>>

-------------------------------------------------------------------------------
(* The coordinator, on the event loop. *)

(* The stop is looked at when a cycle begins, not again when it has a claim. *)
BeginCycle ==
    /\ pc["loop"] = "idle" /\ ~stopping
    /\ Goto("loop", "cycle")
    /\ UNCHANGED <<loopVars, lockVars, cancelled, child, threadVars, faults>>

(* There is nothing to claim, or the store fails. *)
EndCycle ==
    /\ pc["loop"] = "cycle"
    /\ Goto("loop", "idle")
    /\ UNCHANGED <<loopVars, lockVars, cancelled, child, threadVars, faults>>

TakeClaim ==
    /\ pc["loop"] = "cycle"
    /\ claim < MaxBuilds
    /\ claim' = claim + 1
    /\ pc' = [loop |-> "watch", thread |-> "start"]
    /\ cancelled' = FALSE /\ reason' = "none"
    /\ outcome' = "none" /\ decision' = "none"
    /\ UNCHANGED <<back, stopping, settled, lockVars, child, message, faults>>

(* cancel(): the flag, then the child if there is one. *)
Cancel(place) ==
    /\ cancelled' = TRUE
    /\ back' = place
    /\ Goto("loop", "cancel")

LockToCancel ==
    /\ pc["loop"] = "cancel" /\ lock = "free"
    /\ IF active = 0 THEN Goto("loop", back) /\ UNCHANGED lock
       ELSE Goto("loop", "enter") /\ lock' = "loop"
    /\ UNCHANGED <<loopVars, lifecycle, active, cancelled, child, threadVars,
                   faults>>

(* What the store raises unwinds through a cancellation, unless the build  *)
(* has ended.                                                              *)
StoreFails ==
    /\ Fault /\ reason' = "lost"
    /\ IF pc["thread"] = "returned"
       THEN Goto("loop", "await") /\ UNCHANGED <<cancelled, back>>
       ELSE Cancel("await")

(* A turn of the monitor: it waits for the build and saves its log, *)
Watch ==
    /\ pc["loop"] = "watch"
    /\ \/ /\ Goto("loop", IF pc["thread"] = "returned" THEN "await" ELSE "turn")
          /\ UNCHANGED <<reason, cancelled, back, faults>>
       \/ StoreFails
    /\ UNCHANGED <<claim, stopping, decision, settled, lockVars, child,
                   threadVars>>

(* looks whether the deployer was told to stop, *)
CheckStop ==
    /\ pc["loop"] = "turn"
    /\ IF stopping THEN reason' = "stopping" /\ Cancel("await")
       ELSE Goto("loop", "renew") /\ UNCHANGED <<reason, cancelled, back>>
    /\ UNCHANGED <<claim, stopping, decision, settled, lockVars, child,
                   threadVars, faults>>

(* and asks the store whether the claim still stands.  The build may end    *)
(* meanwhile.                                                              *)
RenewClaim ==
    /\ pc["loop"] = "renew"
    /\ \/ Goto("loop", "watch") /\ UNCHANGED <<reason, cancelled, back, faults>>
       \/ reason' = "doomed" /\ Cancel("await") /\ UNCHANGED faults
       \/ StoreFails
    /\ UNCHANGED <<claim, stopping, decision, settled, lockVars, child,
                   threadVars>>

AwaitBuild ==
    /\ pc["loop"] = "await" /\ pc["thread"] = "returned"
    /\ pc' = [loop |-> "decide", thread |-> "idle"]
    /\ UNCHANGED <<loopVars, lockVars, cancelled, child, threadVars, faults>>

(* Mutant: a stop that came before the build was awaited is not looked at. *)
DecideByReason ==
    /\ pc["loop"] = "decide"
    /\ decision' = CASE reason = "lost" -> "left"
                     [] reason = "stopping" -> "released"
                     [] reason = "none" /\ outcome = "ready" -> "ready"
                     [] OTHER -> "failed"
    /\ Goto("loop", "settle")
    /\ UNCHANGED <<claim, back, reason, stopping, settled, lockVars, cancelled,
                   child, threadVars, faults>>

Decide ==
    /\ pc["loop"] = "decide"
    /\ decision' = CASE reason = "lost" -> "left"
                     [] reason # "lost" /\ stopping -> "released"
                     [] reason = "none" /\ ~stopping /\ outcome = "ready" ->
                          "ready"
                     [] OTHER -> "failed"
    /\ Goto("loop", "settle")
    /\ UNCHANGED <<claim, back, reason, stopping, settled, lockVars, cancelled,
                   child, threadVars, faults>>

(* The statement may fail; the claim is then left to its lease. *)
SettleClaim ==
    /\ pc["loop"] = "settle"
    /\ \/ /\ settled' = [settled EXCEPT ![claim] = decision]
          /\ UNCHANGED faults
       \/ Fault /\ settled' = [settled EXCEPT ![claim] = "left"]
    /\ Goto("loop", "idle")
    /\ UNCHANGED <<claim, back, reason, stopping, decision, lockVars,
                   cancelled, child, threadVars>>

(* The signal handler runs between two steps of the loop. *)
RequestStop ==
    /\ ~stopping /\ stopping' = TRUE
    /\ \/ /\ pc["loop"] \in Executing
          /\ Cancel(pc["loop"])
       \/ /\ pc["loop"] \in {"idle", "cycle"}
          /\ UNCHANGED <<pc, back, cancelled>>
    /\ UNCHANGED <<claim, reason, decision, settled, lockVars, child,
                   threadVars, faults>>

Exit ==
    /\ pc["loop"] = "idle" /\ stopping
    /\ Goto("loop", "stopped")
    /\ UNCHANGED <<loopVars, lockVars, cancelled, child, threadVars, faults>>

-------------------------------------------------------------------------------
Terminate(p) == EnterTerminate(p) \/ GraceEnds(p) \/ JoinKilled(p)
Build == Begin \/ StartChild \/ Receive \/ Handle \/ CheckAlive
         \/ LockToClose \/ CloseChild \/ Terminate("thread")
Coordinate == EndCycle \/ Watch \/ CheckStop \/ RenewClaim \/ AwaitBuild
              \/ LockToCancel \/ Decide \/ SettleClaim \/ Exit
              \/ Terminate("loop")

Next ==
    \/ BeginCycle \/ TakeClaim \/ RequestStop
    \/ Coordinate
    \/ Build
    \/ \E b \in Builds :
         ChildLogs(b) \/ ChildReports(b) \/ ChildEnds(b) \/ ChildKilled(b)

(* The loop and the thread go on, and a child that was killed, or has sent  *)
(* its verdict, ends.  A child may build, or ignore SIGTERM, for ever.      *)
Fairness ==
    /\ WF_vars(Coordinate)
    /\ WF_vars(Build)
    /\ \A b \in Builds :
         WF_vars(ChildEnds(b) /\ (child[b].signal = "kill"
                                  \/ child[b].verdict # "none"))

Spec == Init /\ [][Next]_vars /\ Fairness

-------------------------------------------------------------------------------
TypeOK ==
    /\ claim \in 0..MaxBuilds
    /\ pc \in [loop : LoopPlaces, thread : ThreadPlaces]
    /\ back \in LoopPlaces
    /\ lock \in Threads \cup {"free"}
    /\ lifecycle \in Threads \cup {"free"}
    /\ active \in 0..MaxBuilds
    /\ cancelled \in BOOLEAN
    /\ reason \in {"none", "doomed", "stopping", "lost"}
    /\ stopping \in BOOLEAN
    /\ child \in [Builds -> Child]
    /\ message \in Messages \cup {"none"}
    /\ outcome \in Verdicts \cup {"none", "cancelled", "refused", "no result"}
    /\ decision \in {"none", "ready", "failed", "released", "left"}
    /\ settled \in [Builds -> {"none", "ready", "failed", "released", "left"}]
    /\ faults \in 0..MaxFaults

(* Whatever ends a build, a cancellation, a stop, a lost store or the death *)
(* of the child: when its claim is about to be settled its child is gone,   *)
(* so that no second build of the deployer runs beside it.                  *)
NoChildOutlivesBuild ==
    \A b \in Builds :
        child[b].is \in {"alive", "dead"} =>
            b = claim /\ pc["loop"] \notin {"idle", "cycle", "decide",
                                            "settle", "stopped"}

(* The loop and the thread both end a child, the thread closes it: neither *)
(* touches a process object that has been closed, which raises ValueError.  *)
ClosedChildIsLeftAlone ==
    \A p \in Threads : pc[p] \in Terminating =>
        Target(p) # 0 /\ child[Target(p)].is \in {"alive", "dead"}

(* The build is to be withdrawn: before the loop has awaited its thread, it *)
(* was found doomed, lost its store, or its deployer was told to stop.      *)
Withdrawn(b) ==
    /\ claim = b /\ pc["thread"] # "idle"
    /\ reason # "none" \/ stopping

(* An image is published only if the child of this claim found it good, and *)
(* never of a build that was to be withdrawn, whatever its thread returned. *)
PublishedAsFound ==
    /\ [][\A b \in Builds :
            settled'[b] = "ready" /\ settled[b] # "ready" =>
               child[b].verdict = "ready"]_vars
    /\ \A b \in Builds : [](Withdrawn(b) => [](settled[b] # "ready"))

(* A deployer told to stop gets to its end: no order of the two locks       *)
(* blocks the loop or the thread.                                          *)
StopEnds == stopping ~> pc["loop"] = "stopped"
===============================================================================
