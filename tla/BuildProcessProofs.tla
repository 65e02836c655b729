-------------------------- MODULE BuildProcessProofs --------------------------
(* Theorems about BuildProcess for every value of its constants. *)
EXTENDS BuildProcess, TLAPS

(* The thread has started the child of its claim and not closed it yet. *)
Holding == {"poll", "check", "alive", "close", "closing"} \cup Terminating
Settling == {"idle", "cycle", "decide", "settle", "stopped"}

(* _active_child is the child the thread holds, and the only process there  *)
(* is.                                                                     *)
ActiveIsHeld ==
    /\ pc["thread"] \in Holding =>
           /\ claim \in Builds /\ active = claim
           /\ child[claim].is \in {"alive", "dead"}
    /\ pc["thread"] \notin Holding => active = 0
    /\ \A b \in Builds : child[b].is \in {"alive", "dead"} => active = b

(* Who owns _lock: the loop while it ends the child, the thread while it    *)
(* closes it.  So _active_child does not go away under the loop.           *)
LockOwned ==
    /\ pc["loop"] \in Terminating <=> lock = "loop"
    /\ pc["thread"] = "closing" <=> lock = "thread"
    /\ pc["loop"] \in Terminating => active # 0
    /\ pc["thread"] \in {"close", "closing"} => child[claim].is = "dead"

(* A claim is settled when the thread has been awaited, also by a loop that *)
(* cancels in between.                                                     *)
ThreadAwaited ==
    /\ pc["loop"] \in Settling => pc["thread"] = "idle"
    /\ pc["loop"] \in {"cancel"} \cup Terminating =>
           \/ back \in {"watch", "turn", "renew", "await"}
           \/ back \in {"decide", "settle"} /\ pc["thread"] = "idle"
    /\ pc["thread"] # "idle" => claim \in Builds

Inv == TypeOK /\ ActiveIsHeld /\ LockOwned /\ ThreadAwaited

-------------------------------------------------------------------------------
LEMMA InvInit == Init => Inv
<1> SUFFICES ASSUME Init PROVE Inv
  OBVIOUS
<1>1. 0 \in 0..MaxBuilds /\ 0 \in 0..MaxFaults /\ 0 \in 0..MaxLogs
  BY ConstantsAssumption DEF ConstantsAssumption
<1>2. NoChild \in Child
  BY <1>1 DEF NoChild, Child
<1>3. TypeOK
  BY <1>1, <1>2 DEF Init, TypeOK, LoopPlaces, ThreadPlaces, Terminating
<1>4. ActiveIsHeld
  BY DEF Init, ActiveIsHeld, Holding, Terminating, NoChild
<1>5. LockOwned
  BY DEF Init, LockOwned, Terminating
<1>6. ThreadAwaited
  BY DEF Init, ThreadAwaited, Terminating
<1> QED BY <1>3, <1>4, <1>5, <1>6 DEF Inv

(* The type invariant by what a step changes. *)
PcOK == pc \in [loop : LoopPlaces, thread : ThreadPlaces]
LoopOK ==
    /\ claim \in 0..MaxBuilds /\ back \in LoopPlaces
    /\ reason \in {"none", "doomed", "stopping", "lost"} /\ stopping \in BOOLEAN
    /\ decision \in {"none", "ready", "failed", "released", "left"}
    /\ settled \in [Builds -> {"none", "ready", "failed", "released", "left"}]
LocksOK ==
    /\ lock \in Threads \cup {"free"} /\ lifecycle \in Threads \cup {"free"}
    /\ active \in 0..MaxBuilds
ThreadOK ==
    /\ message \in Messages \cup {"none"}
    /\ outcome \in Verdicts \cup {"none", "cancelled", "refused", "no result"}
CancelledOK == cancelled \in BOOLEAN
ChildrenOK == child \in [Builds -> Child]
FaultsOK == faults \in 0..MaxFaults

LEMMA TypeParts ==
    TypeOK <=> /\ PcOK /\ LoopOK /\ LocksOK /\ ThreadOK
               /\ CancelledOK /\ ChildrenOK /\ FaultsOK
BY DEF TypeOK, PcOK, LoopOK, LocksOK, ThreadOK, CancelledOK, ChildrenOK, FaultsOK

(* The same after a step. *)
LEMMA TypePartsNext ==
    ASSUME PcOK', LoopOK', LocksOK', ThreadOK', CancelledOK', ChildrenOK', FaultsOK'
    PROVE  TypeOK'
BY DEF TypeOK, PcOK, LoopOK, LocksOK, ThreadOK, CancelledOK, ChildrenOK, FaultsOK

(* What a step leaves alone keeps its type. *)
LEMMA Kept ==
    ASSUME TypeOK
    PROVE  /\ UNCHANGED pc => PcOK'
           /\ UNCHANGED loopVars => LoopOK'
           /\ UNCHANGED lockVars => LocksOK'
           /\ UNCHANGED threadVars => ThreadOK'
           /\ UNCHANGED cancelled => CancelledOK'
           /\ UNCHANGED child => ChildrenOK'
           /\ UNCHANGED faults => FaultsOK'
<1>0. /\ PcOK /\ LoopOK /\ LocksOK /\ ThreadOK
      /\ CancelledOK /\ ChildrenOK /\ FaultsOK
  BY TypeParts
<1>1. UNCHANGED pc => PcOK'
  BY <1>0 DEF PcOK
<1>2. UNCHANGED loopVars => LoopOK'
  BY <1>0 DEF LoopOK, loopVars
<1>3. UNCHANGED lockVars => LocksOK'
  BY <1>0 DEF LocksOK, lockVars
<1>4. UNCHANGED threadVars => ThreadOK'
  BY <1>0 DEF ThreadOK, threadVars
<1>5. UNCHANGED cancelled => CancelledOK'
  BY <1>0 DEF CancelledOK
<1>6. UNCHANGED child => ChildrenOK'
  BY <1>0 DEF ChildrenOK
<1>7. UNCHANGED faults => FaultsOK'
  BY <1>0 DEF FaultsOK
<1> QED BY <1>1, <1>2, <1>3, <1>4, <1>5, <1>6, <1>7

(* One of the two moves, the other stays where it is. *)
LEMMA LoopGoes ==
    ASSUME TypeOK, NEW place \in LoopPlaces, Goto("loop", place)
    PROVE  /\ PcOK'
           /\ pc'["loop"] = place /\ pc'["thread"] = pc["thread"]
BY TypeParts DEF PcOK, Goto

LEMMA ThreadGoes ==
    ASSUME TypeOK, NEW place \in ThreadPlaces, Goto("thread", place)
    PROVE  /\ PcOK'
           /\ pc'["thread"] = place /\ pc'["loop"] = pc["loop"]
BY TypeParts DEF PcOK, Goto

LEMMA FaultOK ==
    ASSUME TypeOK, Fault PROVE FaultsOK'
<1>1. FaultsOK
  BY TypeParts
<1> QED BY <1>1, ConstantsAssumption DEF ConstantsAssumption, FaultsOK, Fault

-------------------------------------------------------------------------------
(* A child that runs never comes back once it has ended, and what it does   *)
(* changes nothing but its own record.                                     *)
LEMMA ChildStep ==
    ASSUME Inv, NEW b \in Builds,
           ChildLogs(b) \/ ChildReports(b) \/ ChildEnds(b) \/ ChildKilled(b)
    PROVE  Inv'
<1>0. /\ TypeOK /\ ChildrenOK
      /\ child[b] \in Child /\ child[b].pipe \in Seq(Messages)
  BY TypeParts DEF Inv, ChildrenOK, Child
<1>1. \A m \in Messages : Send(b, m) \in Seq(Messages)
  BY <1>0 DEF Send
<1>2. UNCHANGED <<loopVars, pc, lockVars, cancelled, threadVars>>
  BY DEF ChildLogs, ChildReports, ChildEnds, ChildKilled
<1>3. FaultsOK'
  BY <1>0, FaultOK, Kept DEF ChildLogs, ChildReports, ChildEnds, ChildKilled
<1>4. \E c \in Child : /\ c.is \in {"alive", "dead"}
                       /\ child' = [child EXCEPT ![b] = c]
  <2>1. CASE ChildLogs(b)
    <3>1. child[b].logs + 1 \in 0..MaxLogs
      BY <1>0, <2>1, ConstantsAssumption DEF Child, ChildLogs, ConstantsAssumption
    <3>2. "log" \in Messages
      BY DEF Messages
    <3> DEFINE c == [child[b] EXCEPT !.logs = @ + 1, !.pipe = Send(b, "log")]
    <3>3. c \in Child /\ c.is = child[b].is
      BY <1>0, <1>1, <3>1, <3>2 DEF Child
    <3>4. child' = [child EXCEPT ![b] = c]
      BY <2>1 DEF ChildLogs
    <3> QED BY <2>1, <3>3, <3>4 DEF ChildLogs
  <2>2. CASE ChildReports(b)
    <3>1. PICK v \in Verdicts :
            child' = [child EXCEPT ![b].verdict = v, ![b].pipe = Send(b, v)]
      BY <2>2 DEF ChildReports
    <3> DEFINE c == [child[b] EXCEPT !.verdict = v, !.pipe = Send(b, v)]
    <3>2. c \in Child /\ c.is = child[b].is
      BY <1>0, <1>1 DEF Child, Messages
    <3>3. child' = [child EXCEPT ![b] = c]
      BY <3>1
    <3> QED BY <2>2, <3>2, <3>3 DEF ChildReports
  <2>3. CASE ChildEnds(b) \/ ChildKilled(b)
    <3> DEFINE c == [child[b] EXCEPT !.is = "dead"]
    <3>1. c \in Child /\ c.is = "dead"
      BY <1>0 DEF Child
    <3>2. child' = [child EXCEPT ![b] = c]
      BY <2>3 DEF ChildEnds, ChildKilled
    <3> QED BY <3>1, <3>2
  <2> QED BY <2>1, <2>2, <2>3
<1>5. child[b].is = "alive"
  BY DEF ChildLogs, ChildReports, ChildEnds, ChildKilled
<1>6. PICK c \in Child : c.is \in {"alive", "dead"} /\ child' = [child EXCEPT ![b] = c]
  BY <1>4
<1>7. TypeOK'
  <2>1. ChildrenOK'
    BY <1>0, <1>6 DEF ChildrenOK
  <2>2. PcOK' /\ LoopOK' /\ LocksOK' /\ ThreadOK' /\ CancelledOK'
    BY <1>0, <1>2, Kept
  <2> QED BY <1>3, <2>1, <2>2, TypePartsNext
<1>8. ActiveIsHeld'
  BY <1>0, <1>2, <1>5, <1>6
     DEF ChildrenOK, Inv, ActiveIsHeld, loopVars, lockVars
<1>9. LockOwned'
  <2>1. ~(pc["thread"] \in {"close", "closing"})
    <3> SUFFICES ASSUME pc["thread"] \in {"close", "closing"} PROVE FALSE
      OBVIOUS
    <3>1. active = claim /\ active = b
      BY <1>5 DEF Inv, ActiveIsHeld, Holding
    <3> QED BY <1>5, <3>1 DEF Inv, LockOwned
  <2>2. pc' = pc /\ lock' = lock /\ active' = active
    BY <1>2 DEF lockVars
  <2>3. pc'["thread"] \notin {"close", "closing"}
    BY <2>1, <2>2
  <2>4. LockOwned
    BY DEF Inv
  <2>5. (pc'["loop"] \in Terminating <=> lock' = "loop")
        /\ (pc'["loop"] \in Terminating => active' # 0)
    BY <2>2, <2>4 DEF LockOwned
  <2>6. pc'["thread"] = "closing" <=> lock' = "thread"
    BY <2>2, <2>4 DEF LockOwned
  <2> QED BY <2>3, <2>5, <2>6 DEF LockOwned
<1>10. ThreadAwaited'
  BY <1>2 DEF Inv, ThreadAwaited, loopVars
<1> QED BY <1>7, <1>8, <1>9, <1>10 DEF Inv

-------------------------------------------------------------------------------
(* Most steps start and close nothing. *)
LEMMA HeldKept ==
    ASSUME Inv, claim' = claim, active' = active,
           \A b \in Builds : child'[b].is = child[b].is,
           pc'["thread"] \in Holding <=> pc["thread"] \in Holding
    PROVE  ActiveIsHeld'
BY DEF Inv, ActiveIsHeld

(* What the thread does to neither lock: it goes to close only a dead child. *)
LEMMA ThreadUnlocked ==
    ASSUME Inv, claim' = claim, active' = active, lock' = lock, back' = back,
           \A b \in Builds : child'[b].is = child[b].is,
           pc'["loop"] = pc["loop"],
           pc["thread"] \notin {"closing", "idle"},
           pc'["thread"] \notin {"closing", "idle"},
           pc'["thread"] = "close" => child[claim].is = "dead",
           pc'["thread"] \in Holding <=> pc["thread"] \in Holding
    PROVE  ActiveIsHeld' /\ LockOwned' /\ ThreadAwaited'
<1>0. claim \in Builds
  BY DEF Inv, ThreadAwaited
<1>1. ActiveIsHeld'
  BY HeldKept
<1>2. LockOwned /\ ThreadAwaited
  BY DEF Inv
<1>3. LockOwned'
  <2>1. (pc'["loop"] \in Terminating <=> lock' = "loop")
        /\ (pc'["loop"] \in Terminating => active' # 0)
    BY <1>2 DEF LockOwned
  <2>2. pc'["thread"] = "closing" <=> lock' = "thread"
    BY <1>2 DEF LockOwned
  <2>3. pc'["thread"] \in {"close", "closing"} => child'[claim'].is = "dead"
    BY <1>0
  <2> QED BY <2>1, <2>2, <2>3 DEF LockOwned
<1>4. ThreadAwaited'
  BY <1>0, <1>2 DEF ThreadAwaited, Builds
<1> QED BY <1>1, <1>3, <1>4

LEMMA BeginStep == ASSUME Inv, Begin PROVE Inv'
<1>0. TypeOK
  BY DEF Inv
<1>1. UNCHANGED <<loopVars, lockVars, cancelled, child, faults>>
  BY DEF Begin
<1>2. ThreadOK'
  BY <1>0, TypeParts DEF Begin, ThreadOK
<1>3. PICK place \in {"returned", "lock"} : Goto("thread", place)
  BY DEF Begin
<1>4. /\ PcOK' /\ pc["thread"] = "start"
      /\ pc'["thread"] = place /\ pc'["loop"] = pc["loop"]
  BY <1>0, <1>3, ThreadGoes DEF Begin, ThreadPlaces
<1>5. TypeOK'
  BY <1>0, <1>1, <1>2, <1>4, Kept, TypePartsNext
<1>6. ActiveIsHeld' /\ LockOwned' /\ ThreadAwaited'
  BY <1>1, <1>4, ThreadUnlocked DEF loopVars, lockVars, Holding, Terminating
<1> QED BY <1>5, <1>6 DEF Inv

LEMMA HandleStep == ASSUME Inv, Handle PROVE Inv'
<1>0. TypeOK
  BY DEF Inv
<1>1. UNCHANGED <<loopVars, lockVars, cancelled, child, faults>>
  BY DEF Handle
<1>2. PICK place \in {"poll", "alive", "enter"} : Goto("thread", place)
  BY DEF Handle, Ends
<1>3. /\ PcOK' /\ pc["thread"] = "check"
      /\ pc'["thread"] = place /\ pc'["loop"] = pc["loop"]
  BY <1>0, <1>2, ThreadGoes DEF Handle, ThreadPlaces, Terminating
<1>4. ThreadOK'
  <2>1. ThreadOK
    BY <1>0, TypeParts
  <2>2. message' = "none"
    BY DEF Handle
  <2>3. outcome' \in {outcome, "cancelled"}
        \/ (message \notin {"log", "none"} /\ outcome' = message)
    BY DEF Handle, Ends
  <2> QED BY <2>1, <2>2, <2>3 DEF ThreadOK, Messages
<1>5. TypeOK'
  BY <1>0, <1>1, <1>3, <1>4, Kept, TypePartsNext
<1>6. ActiveIsHeld' /\ LockOwned' /\ ThreadAwaited'
  BY <1>1, <1>3, ThreadUnlocked DEF loopVars, lockVars, Holding, Terminating
<1> QED BY <1>5, <1>6 DEF Inv

LEMMA CheckAliveStep == ASSUME Inv, CheckAlive PROVE Inv'
<1>0. TypeOK
  BY DEF Inv
<1>1. UNCHANGED <<loopVars, lockVars, cancelled, child, faults>>
  BY DEF CheckAlive
<1>2. PICK place \in {"poll", "enter"} : Goto("thread", place)
  BY DEF CheckAlive, Ends
<1>3. /\ PcOK' /\ pc["thread"] = "alive"
      /\ pc'["thread"] = place /\ pc'["loop"] = pc["loop"]
  BY <1>0, <1>2, ThreadGoes DEF CheckAlive, ThreadPlaces, Terminating
<1>4. ThreadOK'
  BY <1>0, TypeParts DEF CheckAlive, Ends, ThreadOK
<1>5. TypeOK'
  BY <1>0, <1>1, <1>3, <1>4, Kept, TypePartsNext
<1>6. ActiveIsHeld' /\ LockOwned' /\ ThreadAwaited'
  BY <1>1, <1>3, ThreadUnlocked DEF loopVars, lockVars, Holding, Terminating
<1> QED BY <1>5, <1>6 DEF Inv

LEMMA ReceiveStep == ASSUME Inv, Receive PROVE Inv'
<1>0. TypeOK /\ ChildrenOK /\ claim \in Builds /\ ThreadOK
  BY TypeParts DEF Inv, ThreadAwaited, Receive
<1>1. UNCHANGED <<loopVars, lockVars, cancelled, faults>>
  BY DEF Receive
<1>2. PICK place \in {"check", "enter"} : Goto("thread", place)
  BY DEF Receive, Ends
<1>3. /\ PcOK' /\ pc["thread"] = "poll"
      /\ pc'["thread"] = place /\ pc'["loop"] = pc["loop"]
  BY <1>0, <1>2, ThreadGoes DEF Receive, ThreadPlaces, Terminating
<1>4. child[claim] \in Child /\ child[claim].pipe \in Seq(Messages)
  BY <1>0 DEF ChildrenOK, Child
<1>5. /\ ThreadOK'
      /\ \E c \in Child : c.is = child[claim].is
                          /\ child' = [child EXCEPT ![claim] = c]
  <2>1. CASE cancelled \/ child[claim].pipe = <<>>
    <3>1. child' = child
      BY <2>1 DEF Receive
    <3>2. child' = [child EXCEPT ![claim] = child[claim]]
      BY <1>0, <3>1 DEF ChildrenOK
    <3>3. ThreadOK'
      BY <1>0, <2>1 DEF Receive, Ends, ThreadOK
    <3> QED BY <1>4, <3>2, <3>3
  <2>2. CASE ~cancelled /\ child[claim].pipe # <<>>
    <3> DEFINE c == [child[claim] EXCEPT !.pipe = Tail(@)]
    <3>1. Head(child[claim].pipe) \in Messages
          /\ Tail(child[claim].pipe) \in Seq(Messages)
      BY <1>4, <2>2
    <3>2. c \in Child /\ c.is = child[claim].is
      BY <1>4, <3>1 DEF Child
    <3>3. child' = [child EXCEPT ![claim] = c]
      BY <2>2 DEF Receive
    <3>4. message' = Head(child[claim].pipe) /\ outcome' = outcome
      BY <2>2 DEF Receive
    <3>5. ThreadOK'
      BY <1>0, <3>1, <3>4 DEF ThreadOK
    <3> QED BY <3>2, <3>3, <3>5
  <2> QED BY <2>1, <2>2
<1>6. ChildrenOK' /\ \A b \in Builds : child'[b].is = child[b].is
  BY <1>0, <1>5 DEF ChildrenOK
<1>7. TypeOK'
  BY <1>0, <1>1, <1>3, <1>5, <1>6, Kept, TypePartsNext
<1>8. ActiveIsHeld' /\ LockOwned' /\ ThreadAwaited'
  BY <1>1, <1>3, <1>6, ThreadUnlocked DEF loopVars, lockVars, Holding, Terminating
<1> QED BY <1>7, <1>8 DEF Inv

LEMMA LockToCloseStep == ASSUME Inv, LockToClose PROVE Inv'
<1>0. TypeOK /\ LocksOK /\ LockOwned /\ ThreadAwaited
  BY TypeParts DEF Inv
<1>1. UNCHANGED <<loopVars, lifecycle, active, cancelled, child, threadVars, faults>>
  BY DEF LockToClose
<1>2. /\ PcOK' /\ pc["thread"] = "close"
      /\ pc'["thread"] = "closing" /\ pc'["loop"] = pc["loop"]
      /\ lock = "free" /\ lock' = "thread"
  BY <1>0, ThreadGoes DEF LockToClose, ThreadPlaces
<1>3. TypeOK'
  <2>1. LocksOK'
    BY <1>0, <1>1, <1>2 DEF LocksOK, Threads
  <2> QED BY <1>0, <1>1, <1>2, <2>1, Kept, TypePartsNext
<1>4. ActiveIsHeld'
  BY <1>1, <1>2, HeldKept DEF loopVars, Holding
<1>5. LockOwned'
  <2>1. pc'["loop"] \notin Terminating /\ lock' # "loop"
    BY <1>0, <1>2 DEF LockOwned
  <2>2. child'[claim'].is = "dead"
    BY <1>0, <1>1, <1>2 DEF LockOwned, loopVars
  <2> QED BY <1>2, <2>1, <2>2 DEF LockOwned
<1>6. ThreadAwaited'
  BY <1>0, <1>1, <1>2 DEF ThreadAwaited, loopVars, Builds
<1> QED BY <1>3, <1>4, <1>5, <1>6 DEF Inv

(* A child is started when there is none. *)
LEMMA StartChildStep == ASSUME Inv, StartChild PROVE Inv'
<1>0. /\ TypeOK /\ ChildrenOK /\ LocksOK /\ ThreadOK /\ claim \in Builds
      /\ ActiveIsHeld /\ LockOwned /\ ThreadAwaited
  BY TypeParts DEF Inv, ThreadAwaited, StartChild
<1>1. /\ UNCHANGED <<loopVars, lock, lifecycle, cancelled, message>>
      /\ pc["thread"] = "lock" /\ lock = "free"
  BY DEF StartChild
<1>2. active = 0
  BY <1>0, <1>1 DEF ActiveIsHeld, Holding, Terminating
<1>3. PICK place \in {"poll", "returned"}, is \in {"alive", "closed"} :
        /\ Goto("thread", place)
        /\ child' = [child EXCEPT ![claim].is = is]
        /\ \/ place = "poll" /\ is = "alive" /\ active' = claim
              /\ UNCHANGED <<outcome, faults>>
           \/ place = "returned" /\ is = "closed" /\ active' = active
              /\ Fault /\ outcome' = "error"
  <2>1. CASE child' = [child EXCEPT ![claim].is = "alive"] /\ active' = claim
             /\ Goto("thread", "poll") /\ UNCHANGED <<outcome, faults>>
    BY <2>1
  <2>2. CASE Fault /\ child' = [child EXCEPT ![claim].is = "closed"]
             /\ outcome' = "error" /\ Goto("thread", "returned")
             /\ UNCHANGED active
    BY <2>2
  <2> QED BY <1>2, <2>1, <2>2 DEF StartChild
<1> DEFINE c == [child[claim] EXCEPT !.is = is]
<1>4. c \in Child /\ c.is = is /\ child' = [child EXCEPT ![claim] = c]
  BY <1>0, <1>3 DEF ChildrenOK, Child
<1> HIDE DEF c
<1>5. /\ PcOK'
      /\ pc'["thread"] = place /\ pc'["loop"] = pc["loop"]
  BY <1>0, <1>3, ThreadGoes DEF ThreadPlaces
<1>6. TypeOK'
  <2>1. ChildrenOK'
    BY <1>0, <1>4 DEF ChildrenOK
  <2>2. ThreadOK'
    <3>1. outcome' \in {outcome, "error"} /\ message' = message
      BY <1>1, <1>3
    <3> QED BY <1>0, <3>1 DEF ThreadOK, Verdicts
  <2>4. LocksOK'
    <3>1. claim \in 0..MaxBuilds
      BY <1>0 DEF Builds
    <3>2. active' \in {claim, active} /\ lock' = lock /\ lifecycle' = lifecycle
      BY <1>1, <1>3
    <3> QED BY <1>0, <3>1, <3>2 DEF LocksOK
  <2>3. FaultsOK'
    BY <1>0, <1>3, FaultOK, Kept
  <2> QED BY <1>0, <1>1, <1>5, <2>1, <2>2, <2>3, <2>4, Kept, TypePartsNext
<1>7. ActiveIsHeld'
  <2>1. claim' = claim /\ \A b \in Builds : child[b].is \notin {"alive", "dead"}
    BY <1>0, <1>1, <1>2 DEF ActiveIsHeld, loopVars, Builds
  <2>2. child'[claim].is = is
        /\ \A b \in Builds : b # claim => child'[b].is = child[b].is
    BY <1>0, <1>4 DEF ChildrenOK
  <2>3. CASE place = "poll"
    BY <1>0, <1>3, <1>5, <2>1, <2>2, <2>3 DEF ActiveIsHeld, Holding
  <2>4. CASE place = "returned"
    BY <1>0, <1>2, <1>3, <1>5, <2>1, <2>2, <2>4
       DEF ActiveIsHeld, Holding, Terminating
  <2> QED BY <2>3, <2>4
<1>8. LockOwned'
  <2>1. pc'["loop"] \notin Terminating /\ lock' = "free"
    BY <1>0, <1>1, <1>5 DEF LockOwned
  <2> QED BY <1>5, <2>1 DEF LockOwned
<1>9. ThreadAwaited'
  BY <1>0, <1>1, <1>5 DEF ThreadAwaited, loopVars, Builds
<1> QED BY <1>6, <1>7, <1>8, <1>9 DEF Inv

(* The thread closes the child it holds, which is dead, and no other. *)
LEMMA CloseChildStep == ASSUME Inv, CloseChild PROVE Inv'
<1>0. /\ TypeOK /\ ChildrenOK /\ LocksOK /\ claim \in Builds
      /\ ActiveIsHeld /\ LockOwned /\ ThreadAwaited
  BY TypeParts DEF Inv, ThreadAwaited, CloseChild
<1>1. /\ UNCHANGED <<loopVars, lifecycle, cancelled, threadVars, faults>>
      /\ lock' = "free" /\ pc["thread"] = "closing"
  BY DEF CloseChild
<1>2. active = claim /\ child[claim].is = "dead" /\ lock = "thread"
  BY <1>0, <1>1 DEF ActiveIsHeld, LockOwned, Holding
<1>3. child' = [child EXCEPT ![claim] = Closed(claim)] /\ active' = 0
  BY <1>2 DEF CloseChild
<1>4. Closed(claim) \in Child /\ Closed(claim).is = "closed"
  <2>1. 0 \in 0..MaxLogs
    BY ConstantsAssumption DEF ConstantsAssumption
  <2>2. child[claim].verdict \in Verdicts \cup {"none"}
    BY <1>0 DEF ChildrenOK, Child
  <2>3. <<>> \in Seq(Messages)
    OBVIOUS
  <2>4. NoChild \in Child
    BY <2>1, <2>3 DEF NoChild, Child
  <2> QED BY <2>2, <2>4 DEF Closed, Child
<1>5. /\ PcOK'
      /\ pc'["thread"] = "returned" /\ pc'["loop"] = pc["loop"]
  BY <1>0, ThreadGoes DEF CloseChild, ThreadPlaces
<1>6. TypeOK'
  <2>1. ChildrenOK'
    BY <1>0, <1>3, <1>4 DEF ChildrenOK
  <2>2. LocksOK'
    BY <1>0, <1>1, <1>3, ConstantsAssumption DEF LocksOK, ConstantsAssumption
  <2> QED BY <1>0, <1>1, <1>5, <2>1, <2>2, Kept, TypePartsNext
<1>7. ActiveIsHeld'
  <2>1. \A b \in Builds : child'[b].is \notin {"alive", "dead"}
    BY <1>0, <1>2, <1>3, <1>4 DEF ActiveIsHeld, ChildrenOK
  <2> QED BY <1>3, <1>5, <2>1 DEF ActiveIsHeld, Holding, Terminating
<1>8. LockOwned'
  <2>1. pc'["loop"] \notin Terminating
    BY <1>0, <1>2, <1>5 DEF LockOwned
  <2> QED BY <1>1, <1>5, <2>1 DEF LockOwned
<1>9. ThreadAwaited'
  BY <1>0, <1>1, <1>5 DEF ThreadAwaited, loopVars, Builds
<1> QED BY <1>6, <1>7, <1>8, <1>9 DEF Inv

-------------------------------------------------------------------------------
(* What the loop does without a lock leaves the thread and its child alone. *)
LEMMA LoopUnlocked ==
    ASSUME Inv,
           UNCHANGED <<claim, lockVars, child>>,
           pc'["thread"] = pc["thread"],
           pc["loop"] \notin Terminating, pc'["loop"] \notin Terminating
    PROVE  ActiveIsHeld' /\ LockOwned'
<1>1. ActiveIsHeld'
  BY HeldKept DEF lockVars
<1>2. LockOwned
  BY DEF Inv
<1>3. (pc'["loop"] \in Terminating <=> lock' = "loop")
      /\ (pc'["loop"] \in Terminating => active' # 0)
  BY <1>2 DEF LockOwned, lockVars
<1>4. pc'["thread"] = "closing" <=> lock' = "thread"
  BY <1>2 DEF LockOwned, lockVars
<1>5. pc'["thread"] \in {"close", "closing"} => child'[claim'].is = "dead"
  BY <1>2 DEF LockOwned
<1> QED BY <1>1, <1>3, <1>4, <1>5 DEF LockOwned

LEMMA TakeClaimStep == ASSUME Inv, TakeClaim PROVE Inv'
<1>0. /\ TypeOK /\ PcOK /\ LoopOK /\ ThreadOK
      /\ ActiveIsHeld /\ LockOwned /\ ThreadAwaited
  BY TypeParts DEF Inv
<1>1. /\ UNCHANGED <<back, stopping, settled, lockVars, child, message, faults>>
      /\ claim' = claim + 1 /\ claim < MaxBuilds
      /\ pc["loop"] = "cycle" /\ pc' = [loop |-> "watch", thread |-> "start"]
      /\ cancelled' = FALSE /\ reason' = "none"
      /\ outcome' = "none" /\ decision' = "none"
  BY DEF TakeClaim
<1>2. claim' \in Builds /\ claim' \in 0..MaxBuilds
  BY <1>0, <1>1, ConstantsAssumption DEF LoopOK, Builds, ConstantsAssumption
<1>3. pc["thread"] = "idle"
  BY <1>0, <1>1 DEF ThreadAwaited, Settling
<1>4. TypeOK'
  <2>1. PcOK'
    BY <1>1 DEF PcOK, LoopPlaces, Executing, ThreadPlaces
  <2>2. LoopOK'
    BY <1>0, <1>1, <1>2 DEF LoopOK
  <2>3. ThreadOK' /\ CancelledOK'
    BY <1>0, <1>1 DEF ThreadOK, CancelledOK
  <2> QED BY <1>0, <1>1, <2>1, <2>2, <2>3, Kept, TypePartsNext
<1>5. ActiveIsHeld'
  <2>1. active = 0 /\ \A b \in Builds : child[b].is \notin {"alive", "dead"}
    BY <1>0, <1>3 DEF ActiveIsHeld, Holding, Terminating, Builds
  <2> QED BY <1>1, <2>1 DEF ActiveIsHeld, Holding, Terminating, lockVars
<1>6. LockOwned'
  <2>1. lock # "loop" /\ lock # "thread"
    BY <1>0, <1>1, <1>3 DEF LockOwned, Terminating
  <2> QED BY <1>1, <2>1 DEF LockOwned, Terminating, lockVars
<1>7. ThreadAwaited'
  BY <1>1, <1>2 DEF ThreadAwaited, Settling, Terminating
<1> QED BY <1>4, <1>5, <1>6, <1>7 DEF Inv

(* A turn of the monitor, one step at a time. *)
LEMMA WatchStep == ASSUME Inv, Watch \/ CheckStop \/ RenewClaim PROVE Inv'
<1>0. /\ TypeOK /\ LoopOK /\ CancelledOK /\ LockOwned /\ ThreadAwaited
  BY TypeParts DEF Inv
<1>1. /\ UNCHANGED <<claim, stopping, decision, settled, lockVars, child, threadVars>>
      /\ pc["loop"] \in {"watch", "turn", "renew"}
  BY DEF Watch, CheckStop, RenewClaim
<1>2. PICK place \in {"watch", "turn", "renew", "await", "cancel"} :
        /\ Goto("loop", place)
        /\ place = "cancel" => back' = "await"
        /\ back' \in {back, "await"}
        /\ cancelled' \in {cancelled, TRUE}
        /\ reason' \in {reason, "stopping", "doomed", "lost"}
  BY DEF Watch, CheckStop, RenewClaim, StoreFails, Cancel
<1>3. /\ PcOK'
      /\ pc'["loop"] = place /\ pc'["thread"] = pc["thread"]
  BY <1>0, <1>2, LoopGoes DEF LoopPlaces, Executing
<1>4. TypeOK'
  <2>1. LoopOK'
    BY <1>0, <1>1, <1>2 DEF LoopOK, LoopPlaces, Executing
  <2>2. CancelledOK'
    BY <1>0, <1>2 DEF CancelledOK
  <2>3. FaultsOK'
    BY <1>0, FaultOK, Kept DEF Watch, CheckStop, RenewClaim, StoreFails
  <2> QED BY <1>0, <1>1, <1>3, <2>1, <2>2, <2>3, Kept, TypePartsNext
<1>5. ActiveIsHeld' /\ LockOwned'
  BY <1>1, <1>3, LoopUnlocked DEF Terminating
<1>6. ThreadAwaited'
  BY <1>0, <1>1, <1>2, <1>3 DEF ThreadAwaited, Settling, Terminating
<1> QED BY <1>4, <1>5, <1>6 DEF Inv

LEMMA RequestStopStep == ASSUME Inv, RequestStop PROVE Inv'
<1>0. /\ TypeOK /\ LoopOK /\ CancelledOK /\ LockOwned /\ ThreadAwaited
  BY TypeParts DEF Inv
<1>1. /\ UNCHANGED <<claim, reason, decision, settled, lockVars, child,
                     threadVars, faults>>
      /\ stopping' = TRUE
      /\ cancelled' \in {cancelled, TRUE}
  BY DEF RequestStop, Cancel
<1>2. /\ PcOK' /\ pc'["thread"] = pc["thread"]
      /\ \/ /\ pc["loop"] \in Executing
            /\ pc'["loop"] = "cancel" /\ back' = pc["loop"]
         \/ /\ pc["loop"] \in {"idle", "cycle"}
            /\ pc'["loop"] = pc["loop"] /\ back' = back
  <2>1. CASE pc["loop"] \in Executing /\ Cancel(pc["loop"])
    BY <1>0, <2>1, LoopGoes DEF Cancel, LoopPlaces
  <2>2. CASE pc["loop"] \in {"idle", "cycle"} /\ UNCHANGED <<pc, back, cancelled>>
    BY <1>0, <2>2, Kept
  <2> QED BY <2>1, <2>2 DEF RequestStop
<1>3. TypeOK'
  <2>1. LoopOK'
    BY <1>0, <1>1, <1>2 DEF LoopOK, LoopPlaces
  <2>2. CancelledOK'
    BY <1>0, <1>1 DEF CancelledOK
  <2> QED BY <1>0, <1>1, <1>2, <2>1, <2>2, Kept, TypePartsNext
<1>4. ActiveIsHeld' /\ LockOwned'
  BY <1>1, <1>2, LoopUnlocked DEF Executing, Terminating
<1>5. ThreadAwaited'
  BY <1>0, <1>1, <1>2 DEF ThreadAwaited, Executing, Settling, Terminating
<1> QED BY <1>3, <1>4, <1>5 DEF Inv

LEMMA AwaitBuildStep == ASSUME Inv, AwaitBuild PROVE Inv'
<1>0. /\ TypeOK /\ PcOK /\ ActiveIsHeld /\ LockOwned /\ ThreadAwaited
  BY TypeParts DEF Inv
<1>1. /\ UNCHANGED <<loopVars, lockVars, cancelled, child, threadVars, faults>>
      /\ pc["loop"] = "await" /\ pc["thread"] = "returned"
      /\ pc' = [loop |-> "decide", thread |-> "idle"]
  BY DEF AwaitBuild
<1>2. TypeOK'
  <2>1. PcOK'
    BY <1>1 DEF PcOK, LoopPlaces, Executing, ThreadPlaces
  <2> QED BY <1>0, <1>1, <2>1, Kept, TypePartsNext
<1>3. ActiveIsHeld'
  BY <1>1, HeldKept DEF loopVars, lockVars, Holding, Terminating
<1>4. LockOwned'
  <2>1. lock # "loop" /\ lock # "thread"
    BY <1>0, <1>1 DEF LockOwned, Terminating
  <2> QED BY <1>1, <2>1 DEF LockOwned, Terminating, lockVars
<1>5. ThreadAwaited'
  BY <1>1 DEF ThreadAwaited, Settling, Terminating
<1> QED BY <1>2, <1>3, <1>4, <1>5 DEF Inv

LEMMA DecideStep == ASSUME Inv, Decide PROVE Inv'
<1>0. TypeOK /\ LoopOK /\ ThreadAwaited
  BY TypeParts DEF Inv
<1>1. /\ UNCHANGED <<claim, back, reason, stopping, settled, lockVars, cancelled,
                     child, threadVars, faults>>
      /\ pc["loop"] = "decide"
      /\ decision' \in {"ready", "failed", "released", "left"}
  BY DEF Decide
<1>2. /\ PcOK'
      /\ pc'["loop"] = "settle" /\ pc'["thread"] = pc["thread"]
  BY <1>0, LoopGoes DEF Decide, LoopPlaces, Executing
<1>3. TypeOK'
  <2>1. LoopOK'
    BY <1>0, <1>1 DEF LoopOK
  <2> QED BY <1>0, <1>1, <1>2, <2>1, Kept, TypePartsNext
<1>4. ActiveIsHeld' /\ LockOwned'
  BY <1>1, <1>2, LoopUnlocked DEF Terminating
<1>5. ThreadAwaited'
  BY <1>0, <1>1, <1>2 DEF ThreadAwaited, Settling, Terminating
<1> QED BY <1>3, <1>4, <1>5 DEF Inv

LEMMA SettleClaimStep == ASSUME Inv, SettleClaim PROVE Inv'
<1>0. TypeOK /\ LoopOK /\ ThreadAwaited
  BY TypeParts DEF Inv
<1>1. /\ UNCHANGED <<claim, back, reason, stopping, decision, lockVars,
                     cancelled, child, threadVars>>
      /\ pc["loop"] = "settle"
      /\ \E how \in {decision, "left"} : settled' = [settled EXCEPT ![claim] = how]
  BY DEF SettleClaim
<1>2. /\ PcOK'
      /\ pc'["loop"] = "idle" /\ pc'["thread"] = pc["thread"]
  BY <1>0, LoopGoes DEF SettleClaim, LoopPlaces
<1>3. TypeOK'
  <2>1. LoopOK'
    BY <1>0, <1>1 DEF LoopOK
  <2>2. FaultsOK'
    BY <1>0, FaultOK, Kept DEF SettleClaim
  <2> QED BY <1>0, <1>1, <1>2, <2>1, <2>2, Kept, TypePartsNext
<1>4. ActiveIsHeld' /\ LockOwned'
  BY <1>1, <1>2, LoopUnlocked DEF Terminating
<1>5. ThreadAwaited'
  BY <1>0, <1>1, <1>2 DEF ThreadAwaited, Settling, Terminating
<1> QED BY <1>3, <1>4, <1>5 DEF Inv

(* The loop between two claims. *)
LEMMA ExitStep == ASSUME Inv, BeginCycle \/ EndCycle \/ Exit PROVE Inv'
<1>0. TypeOK /\ ThreadAwaited
  BY DEF Inv
<1>1. /\ UNCHANGED <<loopVars, lockVars, cancelled, child, threadVars, faults>>
      /\ pc["loop"] \in {"idle", "cycle"}
      /\ \E place \in {"idle", "cycle", "stopped"} : Goto("loop", place)
  BY DEF BeginCycle, EndCycle, Exit
<1>2. /\ PcOK'
      /\ pc'["loop"] \in {"idle", "cycle", "stopped"} /\ pc'["thread"] = pc["thread"]
  BY <1>0, <1>1, LoopGoes DEF LoopPlaces
<1>3. TypeOK'
  BY <1>0, <1>1, <1>2, Kept, TypePartsNext
<1>4. ActiveIsHeld' /\ LockOwned'
  BY <1>1, <1>2, LoopUnlocked DEF loopVars, Terminating
<1>5. ThreadAwaited'
  BY <1>0, <1>1, <1>2 DEF ThreadAwaited, Settling, Terminating, loopVars
<1> QED BY <1>3, <1>4, <1>5 DEF Inv

(* The loop takes _lock only when there is a child to end. *)
LEMMA LockToCancelStep == ASSUME Inv, LockToCancel PROVE Inv'
<1>0. /\ TypeOK /\ LoopOK /\ LocksOK /\ ActiveIsHeld /\ LockOwned /\ ThreadAwaited
  BY TypeParts DEF Inv
<1>1. /\ UNCHANGED <<loopVars, lifecycle, active, cancelled, child, threadVars,
                     faults>>
      /\ pc["loop"] = "cancel" /\ lock = "free"
  BY DEF LockToCancel
<1>2. CASE active = 0 /\ Goto("loop", back) /\ UNCHANGED lock
  <2>1. /\ PcOK'
        /\ pc'["loop"] = back /\ pc'["thread"] = pc["thread"]
    BY <1>0, <1>2, LoopGoes DEF LoopOK
  <2>2. TypeOK'
    BY <1>0, <1>1, <1>2, <2>1, Kept, TypePartsNext DEF lockVars
  <2>3. ActiveIsHeld' /\ LockOwned'
    BY <1>0, <1>1, <1>2, <2>1, LoopUnlocked
       DEF ThreadAwaited, Terminating, loopVars, lockVars
  <2>4. ThreadAwaited'
    BY <1>0, <1>1, <2>1 DEF ThreadAwaited, Settling, Terminating, loopVars
  <2> QED BY <2>2, <2>3, <2>4 DEF Inv
<1>3. CASE active # 0 /\ Goto("loop", "enter") /\ lock' = "loop"
  <2>1. /\ PcOK'
        /\ pc'["loop"] = "enter" /\ pc'["thread"] = pc["thread"]
    BY <1>0, <1>3, LoopGoes DEF LoopPlaces, Terminating
  <2>2. TypeOK'
    <3>1. LocksOK'
      BY <1>0, <1>1, <1>3 DEF LocksOK, Threads
    <3> QED BY <1>0, <1>1, <2>1, <3>1, Kept, TypePartsNext
  <2>3. ActiveIsHeld'
    BY <1>1, <2>1, HeldKept DEF loopVars
  <2>4. LockOwned'
    <3>1. pc["thread"] # "closing"
      BY <1>0, <1>1 DEF LockOwned
    <3>2. pc'["thread"] \in {"close", "closing"} => child'[claim'].is = "dead"
      BY <1>0, <1>1, <2>1 DEF LockOwned, loopVars
    <3> QED BY <1>1, <1>3, <2>1, <3>1, <3>2 DEF LockOwned, Terminating
  <2>5. ThreadAwaited'
    BY <1>0, <1>1, <2>1 DEF ThreadAwaited, Settling, Terminating, loopVars
  <2> QED BY <2>2, <2>3, <2>4, <2>5 DEF Inv
<1> QED BY <1>2, <1>3 DEF LockToCancel

-------------------------------------------------------------------------------
(* _terminate, by the loop or the thread, signals the child that is active  *)
(* or leaves when it has ended.                                            *)
LEMMA TargetIsActive ==
    ASSUME Inv, NEW p \in Threads, pc[p] \in Terminating
    PROVE  /\ Target(p) = active /\ active \in Builds
           /\ child[active].is \in {"alive", "dead"}
<1>1. ActiveIsHeld /\ LockOwned
  BY DEF Inv
<1>2. pc["thread"] \in Holding
  <2>1. CASE p = "loop"
    BY <1>1, <2>1 DEF ActiveIsHeld, LockOwned
  <2>2. CASE p = "thread"
    BY <2>2 DEF Holding
  <2> QED BY <2>1, <2>2 DEF Threads
<1> QED BY <1>1, <1>2 DEF ActiveIsHeld, Target

LEMMA LeaveStep ==
    ASSUME Inv, NEW p \in Threads, pc[p] \in Terminating,
           child[Target(p)].is # "alive", Leave(p),
           UNCHANGED <<child, loopVars, cancelled, threadVars, faults>>
    PROVE  Inv'
<1>0. /\ TypeOK /\ LoopOK /\ LocksOK /\ ActiveIsHeld /\ LockOwned /\ ThreadAwaited
  BY TypeParts DEF Inv
<1>1. lifecycle' = "free" /\ active' = active
  BY DEF Leave
<1>2. CASE p = "loop"
  <2>1. lock' = "free" /\ Goto("loop", back)
    BY <1>2 DEF Leave
  <2>2. /\ PcOK'
        /\ pc'["loop"] = back /\ pc'["thread"] = pc["thread"]
    BY <1>0, <2>1, LoopGoes DEF LoopOK
  <2>3. TypeOK'
    <3>1. LocksOK'
      BY <1>0, <1>1, <2>1 DEF LocksOK
    <3> QED BY <1>0, <2>2, <3>1, Kept, TypePartsNext
  <2>4. ActiveIsHeld'
    BY <1>1, <2>2, HeldKept DEF loopVars
  <2>5. LockOwned'
    <3>1. pc["thread"] # "closing"
      BY <1>0, <1>2 DEF LockOwned
    <3>2. back \notin Terminating
      BY <1>0, <1>2 DEF ThreadAwaited, Terminating
    <3>3. pc'["thread"] \in {"close", "closing"} => child'[claim'].is = "dead"
      BY <1>0, <2>2 DEF LockOwned, loopVars
    <3> QED BY <2>1, <2>2, <3>1, <3>2, <3>3 DEF LockOwned
  <2>6. ThreadAwaited'
    BY <1>0, <1>2, <2>2 DEF ThreadAwaited, Settling, Terminating, loopVars
  <2> QED BY <2>3, <2>4, <2>5, <2>6 DEF Inv
<1>3. CASE p = "thread"
  <2>1. lock' = lock /\ Goto("thread", "close")
    BY <1>3 DEF Leave
  <2>2. /\ PcOK'
        /\ pc'["thread"] = "close" /\ pc'["loop"] = pc["loop"]
    BY <1>0, <2>1, ThreadGoes DEF ThreadPlaces
  <2>3. TypeOK'
    <3>1. LocksOK'
      BY <1>0, <1>1, <2>1 DEF LocksOK
    <3> QED BY <1>0, <2>2, <3>1, Kept, TypePartsNext
  <2>4. child[claim].is = "dead"
    BY <1>0, <1>3 DEF ActiveIsHeld, Holding, Target
  <2>5. ActiveIsHeld' /\ LockOwned' /\ ThreadAwaited'
    BY <1>1, <1>3, <2>1, <2>2, <2>4, ThreadUnlocked
       DEF loopVars, Holding, Terminating
  <2> QED BY <2>3, <2>5 DEF Inv
<1> QED BY <1>2, <1>3 DEF Threads

LEMMA SignalStep ==
    ASSUME Inv, NEW p \in Threads, pc[p] \in Terminating,
           NEW signal \in {"term", "kill"}, NEW place \in Terminating,
           child' = [child EXCEPT ![Target(p)].signal = signal],
           lifecycle' \in {lifecycle, p}, UNCHANGED <<lock, active>>,
           Goto(p, place),
           UNCHANGED <<loopVars, cancelled, threadVars, faults>>
    PROVE  Inv'
<1>0. /\ TypeOK /\ ChildrenOK /\ LocksOK /\ LockOwned /\ ThreadAwaited
  BY TypeParts DEF Inv
<1>1. active \in Builds /\ Target(p) = active
  BY TargetIsActive
<1> DEFINE c == [child[active] EXCEPT !.signal = signal]
<1>2. /\ c \in Child /\ c.is = child[active].is
      /\ child' = [child EXCEPT ![active] = c]
  BY <1>0, <1>1 DEF ChildrenOK, Child
<1> HIDE DEF c
<1>3. ChildrenOK' /\ \A b \in Builds : child'[b].is = child[b].is
  BY <1>0, <1>1, <1>2 DEF ChildrenOK
<1>4. LocksOK'
  BY <1>0 DEF LocksOK, Threads
<1>5. CASE p = "loop"
  <2>1. /\ PcOK'
        /\ pc'["loop"] = place /\ pc'["thread"] = pc["thread"]
    BY <1>0, <1>5, LoopGoes DEF LoopPlaces
  <2>2. TypeOK'
    BY <1>0, <1>3, <1>4, <2>1, Kept, TypePartsNext
  <2>3. ActiveIsHeld'
    BY <1>3, <2>1, HeldKept DEF loopVars
  <2>4. LockOwned'
    <3>1. pc'["thread"] \in {"close", "closing"} => child'[claim'].is = "dead"
      BY <1>0, <1>3, <2>1 DEF LockOwned, ThreadAwaited, loopVars
    <3> QED BY <1>0, <1>5, <2>1, <3>1 DEF LockOwned
  <2>5. ThreadAwaited'
    BY <1>0, <1>5, <2>1 DEF ThreadAwaited, Settling, Terminating, loopVars
  <2> QED BY <2>2, <2>3, <2>4, <2>5 DEF Inv
<1>6. CASE p = "thread"
  <2>1. /\ PcOK'
        /\ pc'["thread"] = place /\ pc'["loop"] = pc["loop"]
    BY <1>0, <1>6, ThreadGoes DEF ThreadPlaces
  <2>2. TypeOK'
    BY <1>0, <1>3, <1>4, <2>1, Kept, TypePartsNext
  <2>3. ActiveIsHeld' /\ LockOwned' /\ ThreadAwaited'
    BY <1>3, <1>6, <2>1, ThreadUnlocked DEF loopVars, Holding, Terminating
  <2> QED BY <2>2, <2>3 DEF Inv
<1> QED BY <1>5, <1>6 DEF Threads

LEMMA TerminateStep ==
    ASSUME Inv, NEW p \in Threads, Terminate(p) PROVE Inv'
<1>1. pc[p] \in Terminating
  BY DEF Terminate, EnterTerminate, GraceEnds, JoinKilled, Terminating
<1>2. CASE EnterTerminate(p)
  BY <1>1, <1>2, LeaveStep, SignalStep DEF EnterTerminate, Terminating
<1>3. CASE GraceEnds(p)
  BY <1>1, <1>3, LeaveStep, SignalStep DEF GraceEnds, Terminating, lockVars
<1>4. CASE JoinKilled(p)
  BY <1>1, <1>4, LeaveStep DEF JoinKilled
<1> QED BY <1>2, <1>3, <1>4 DEF Terminate

-------------------------------------------------------------------------------
LEMMA InvStep == Inv /\ [Next]_vars => Inv'
<1> SUFFICES ASSUME Inv, [Next]_vars PROVE Inv'
  OBVIOUS
<1>0. "loop" \in Threads /\ "thread" \in Threads
  BY DEF Threads
<1>1. CASE BeginCycle \/ TakeClaim \/ RequestStop
  BY <1>1, ExitStep, TakeClaimStep, RequestStopStep
<1>2. CASE Coordinate
  BY <1>0, <1>2, WatchStep, AwaitBuildStep, LockToCancelStep, DecideStep, SettleClaimStep,
     ExitStep, TerminateStep DEF Coordinate
<1>3. CASE Build
  BY <1>0, <1>3, BeginStep, StartChildStep, ReceiveStep, HandleStep,
     CheckAliveStep, LockToCloseStep, CloseChildStep, TerminateStep DEF Build
<1>4. CASE \E b \in Builds :
             ChildLogs(b) \/ ChildReports(b) \/ ChildEnds(b) \/ ChildKilled(b)
  BY <1>4, ChildStep
<1>5. CASE UNCHANGED vars
  <2>0. TypeOK /\ ActiveIsHeld /\ LockOwned /\ ThreadAwaited
    BY DEF Inv
  <2>1. UNCHANGED <<loopVars, pc, lockVars, cancelled, child, threadVars, faults>>
    BY <1>5 DEF vars
  <2>2. TypeOK'
    BY <2>0, <2>1, Kept, TypePartsNext
  <2>3. ActiveIsHeld'
    BY <2>1, HeldKept DEF loopVars, lockVars
  <2>4. LockOwned' /\ ThreadAwaited'
    BY <2>0, <2>1 DEF LockOwned, ThreadAwaited, loopVars, lockVars
  <2> QED BY <2>2, <2>3, <2>4 DEF Inv
<1> QED BY <1>1, <1>2, <1>3, <1>4, <1>5 DEF Next

LEMMA InvHolds == Spec => []Inv
<1>1. Init => Inv
  BY InvInit
<1>2. Inv /\ [Next]_vars => Inv'
  BY InvStep
<1> QED BY <1>1, <1>2, PTL DEF Spec

(* Every variable of the deployer process keeps its type. *)
THEOREM BuildProcessTypes == Spec => []TypeOK
<1>1. Inv => TypeOK
  BY DEF Inv
<1> QED BY <1>1, InvHolds, PTL

(* When a claim is about to be settled its child is gone, whatever ended the *)
(* build: RevisionImageBuildProcessRunner never leaves a second build behind. *)
THEOREM NoChildOutlives == Spec => []NoChildOutlivesBuild
<1>1. Inv => NoChildOutlivesBuild
  <2> SUFFICES ASSUME Inv, NEW b \in Builds, child[b].is \in {"alive", "dead"}
               PROVE  b = claim /\ pc["loop"] \notin Settling
    BY DEF NoChildOutlivesBuild, Settling
  <2>1. active = b /\ active # 0
    BY DEF Inv, ActiveIsHeld, Builds
  <2>2. pc["thread"] \in Holding /\ active = claim
    BY <2>1 DEF Inv, ActiveIsHeld
  <2>3. pc["thread"] # "idle"
    BY <2>2 DEF Holding, Terminating
  <2> QED BY <2>1, <2>2, <2>3 DEF Inv, ThreadAwaited
<1> QED BY <1>1, InvHolds, PTL

(* Neither the loop, cancelling, nor the thread signals a child that has    *)
(* been closed: _lock keeps the active child from going away.              *)
THEOREM ClosedChildren == Spec => []ClosedChildIsLeftAlone
<1>1. Inv => ClosedChildIsLeftAlone
  <2> SUFFICES ASSUME Inv, NEW p \in Threads, pc[p] \in Terminating
               PROVE  Target(p) # 0
                      /\ child[Target(p)].is \in {"alive", "dead"}
    BY DEF ClosedChildIsLeftAlone
  <2>1. Target(p) = active /\ active \in Builds
        /\ child[active].is \in {"alive", "dead"}
    BY TargetIsActive
  <2> QED BY <2>1 DEF Builds
<1> QED BY <1>1, InvHolds, PTL

-------------------------------------------------------------------------------
(* What is published. *)

(* A pipe holds the child's log messages and its verdict, if it has one. *)
PipeFits(c) == \A n \in 1..Len(c.pipe) : c.pipe[n] # "log" => c.pipe[n] = c.verdict
PipesFit == \A b \in Builds : PipeFits(child[b])

(* What the thread received, and what it returns as ready, is from the child *)
(* of this claim.                                                          *)
HeardFromChild ==
    /\ message # "none" => pc["thread"] = "check"
    /\ message \in Verdicts => message = child[claim].verdict
    /\ outcome = "ready" => claim \in Builds /\ child[claim].verdict = "ready"

(* Once the loop has decided to publish, nothing it decided on changes, also *)
(* when a stop interrupts it before it settles.                            *)
DecisionStands ==
    decision = "ready" =>
        /\ outcome = "ready" /\ reason = "none" /\ pc["thread"] = "idle"
        /\ \/ pc["loop"] \in {"settle", "idle", "cycle", "stopped"}
           \/ pc["loop"] \in {"cancel"} \cup Terminating /\ back = "settle"

Found == PipesFit /\ HeardFromChild /\ DecisionStands

(* No step changes the verdict of a child, or puts another into its pipe.  *)
LEMMA VerdictKept ==
    ASSUME Inv, PipesFit, [Next]_vars, NEW b \in Builds
    PROVE  /\ PipeFits(child[b])'
           /\ child[b].verdict # "none" => child'[b].verdict = child[b].verdict
<1>0. /\ child \in [Builds -> Child] /\ child[b] \in Child /\ child[b].pipe \in Seq(Messages)
      /\ PipeFits(child[b])
  BY TypeParts DEF Inv, ChildrenOK, Child, PipesFit
<1>1. CASE child'[b].pipe = child[b].pipe /\ child'[b].verdict = child[b].verdict
  BY <1>0, <1>1 DEF PipeFits
<1>2. ASSUME NEW c \in Builds, ChildLogs(c) \/ ChildReports(c) \/ ChildEnds(c) \/ ChildKilled(c)
      PROVE  /\ PipeFits(child[b])'
             /\ child[b].verdict # "none" => child'[b].verdict = child[b].verdict
  <2>1. CASE b # c \/ ChildEnds(c) \/ ChildKilled(c)
    <3>1. CASE b # c
      <4>1. child'[b] = child[b]
        BY <1>0, <1>2, <3>1 DEF ChildLogs, ChildReports, ChildEnds, ChildKilled
      <4> QED BY <1>1, <4>1
    <3>2. CASE ChildEnds(c) \/ ChildKilled(c)
      <4>1. child' = [child EXCEPT ![c].is = "dead"]
        BY <3>2 DEF ChildEnds, ChildKilled
      <4>2. child'[b].pipe = child[b].pipe /\ child'[b].verdict = child[b].verdict
        BY <1>0, <4>1 DEF Child
      <4> QED BY <1>1, <4>2
    <3> QED BY <2>1, <3>1, <3>2
  <2>2. ASSUME b = c, NEW m \in Messages, NEW v \in Verdicts \cup {"none"},
               child[b].verdict = "none", m = "log" \/ m = v,
               child'[b].pipe = Send(b, m), child'[b].verdict = v
        PROVE  PipeFits(child[b])'
    <3>1. \A n \in 1..Len(child[b].pipe) : child[b].pipe[n] = "log"
      BY <1>0, <2>2 DEF PipeFits, Messages, Verdicts
    <3>2. child'[b].pipe = Append(child[b].pipe, m)
      BY <1>0, <2>2 DEF Send
    <3>3. \A n \in 1..Len(child'[b].pipe) : child'[b].pipe[n] \in {"log", m}
      BY <1>0, <3>1, <3>2
    <3> QED BY <2>2, <3>3 DEF PipeFits
  <2>3. CASE b = c /\ ChildLogs(c)
    <3>1. child'[b].pipe = Send(b, "log") /\ child'[b].verdict = "none"
          /\ child[b].verdict = "none" /\ "log" \in Messages
      BY <1>0, <2>3 DEF ChildLogs, Messages, Child
    <3> QED BY <2>2, <2>3, <3>1
  <2>4. CASE b = c /\ ChildReports(c)
    <3>1. PICK v \in Verdicts : child' = [child EXCEPT ![c].verdict = v, ![c].pipe = Send(c, v)]
      BY <2>4 DEF ChildReports
    <3>2. child'[b].pipe = Send(b, v) /\ child'[b].verdict = v
          /\ child[b].verdict = "none" /\ v \in Messages
      BY <1>0, <2>4, <3>1 DEF ChildReports, Messages, Child
    <3> QED BY <2>2, <2>4, <3>2
  <2> QED BY <1>2, <2>1, <2>3, <2>4
<1>3. CASE Receive
  <2>1. CASE child'[b] = child[b]
    BY <1>1, <2>1
  <2>2. CASE child[b].pipe # <<>> /\ child' = [child EXCEPT ![b].pipe = Tail(@)]
    <3>1. child'[b].pipe = Tail(child[b].pipe) /\ child'[b].verdict = child[b].verdict
      BY <1>0, <2>2 DEF Child
    <3>2. \A n \in 1..Len(Tail(child[b].pipe)) :
            n + 1 \in 1..Len(child[b].pipe) /\ Tail(child[b].pipe)[n] = child[b].pipe[n + 1]
      BY <1>0, <2>2
    <3> QED BY <1>0, <3>1, <3>2 DEF PipeFits
  <2> QED BY <1>0, <1>3, <2>1, <2>2 DEF Receive
<1>4. CASE CloseChild
  <2>1. \/ child'[b] = child[b]
        \/ child'[b].pipe = <<>> /\ child'[b].verdict = child[b].verdict
    <3>1. child' = child \/ child' = [child EXCEPT ![claim] = Closed(claim)]
      BY <1>4 DEF CloseChild
    <3>2. CASE child' = [child EXCEPT ![claim] = Closed(claim)] /\ b = claim
      <4>1. child'[b] = Closed(b)
        BY <1>0, <3>2
      <4> QED BY <4>1 DEF Closed, NoChild
    <3> QED BY <1>0, <3>1, <3>2
  <2>2. CASE child'[b].pipe = <<>> /\ child'[b].verdict = child[b].verdict
    BY <2>2 DEF PipeFits
  <2>3. CASE child'[b] = child[b]
    BY <1>1, <2>3
  <2> QED BY <2>1, <2>2, <2>3
<1>5. CASE StartChild
  <2>1. \/ child' = child
        \/ \E is \in {"alive", "closed"} : child' = [child EXCEPT ![claim].is = is]
    BY <1>5 DEF StartChild
  <2>2. ASSUME NEW is \in {"alive", "closed"}, child' = [child EXCEPT ![claim].is = is]
        PROVE  child'[b].pipe = child[b].pipe /\ child'[b].verdict = child[b].verdict
    <3>1. child'[b] = child[b] \/ child'[b] = [child[b] EXCEPT !.is = is]
      BY <1>0, <2>2
    <3> QED BY <1>0, <3>1 DEF Child
  <2> QED BY <1>1, <2>1, <2>2
<1>6. ASSUME NEW p \in Threads, Terminate(p)
      PROVE  child'[b].pipe = child[b].pipe /\ child'[b].verdict = child[b].verdict
  BY <1>0, <1>6 DEF Terminate, EnterTerminate, GraceEnds, JoinKilled, Child
<1>7. CASE BeginCycle \/ EndCycle \/ TakeClaim \/ RequestStop \/ Watch \/ CheckStop
           \/ RenewClaim \/ AwaitBuild \/ LockToCancel \/ Decide
           \/ SettleClaim \/ Exit \/ Begin \/ Handle \/ CheckAlive \/ LockToClose
           \/ UNCHANGED vars
  <2>1. child' = child
    BY <1>7 DEF BeginCycle, EndCycle, TakeClaim, RequestStop, Watch, CheckStop, RenewClaim,
       AwaitBuild, LockToCancel, Decide, SettleClaim,
       Exit, Begin, Handle, CheckAlive, LockToClose, vars
  <2> QED BY <1>1, <2>1
<1> QED BY <1>1, <1>2, <1>3, <1>4, <1>5, <1>6, <1>7 DEF Next, Coordinate, Build, Threads

(* What the thread does to what it has heard: it forgets it, returns it, or  *)
(* takes the next message of the pipe.                                     *)
LEMMA HeardStep ==
    ASSUME Inv, Found, [Next]_vars
    PROVE  HeardFromChild'
<1>0. /\ TypeOK /\ pc \in [loop : LoopPlaces, thread : ThreadPlaces]
      /\ (pc["thread"] # "idle" => claim \in Builds)
      /\ HeardFromChild /\ PipesFit
  BY TypeParts DEF Inv, PcOK, ThreadAwaited, Found
<1>1. ASSUME claim' = claim, UNCHANGED threadVars,
             message # "none" => pc'["thread"] = pc["thread"]
      PROVE  HeardFromChild'
  <2>1. message \in Verdicts => message # "none" /\ message = child'[claim].verdict
    BY <1>0, VerdictKept DEF HeardFromChild, Verdicts
  <2>2. outcome = "ready" => claim \in Builds /\ child'[claim].verdict = "ready"
    BY <1>0, VerdictKept DEF HeardFromChild
  <2> QED BY <1>0, <1>1, <2>1, <2>2 DEF HeardFromChild, threadVars
<1>2. ASSUME claim' = claim, message' = "none", outcome' = "ready" => outcome = "ready"
      PROVE  HeardFromChild'
  BY <1>0, <1>2, VerdictKept DEF HeardFromChild, Verdicts
<1>3. CASE TakeClaim
  BY <1>0, <1>3 DEF Inv, ThreadAwaited, Settling, TakeClaim, HeardFromChild, Verdicts
<1>4. CASE Receive
  <2>1. CASE cancelled
    BY <1>0, <1>2, <1>4, <2>1 DEF Receive, Ends, HeardFromChild, loopVars
  <2>2. CASE ~cancelled /\ child[claim].pipe = <<>>
    BY <1>2, <1>4, <2>2 DEF Receive, loopVars
  <2>3. CASE ~cancelled /\ child[claim].pipe # <<>>
    <3>1. /\ message' = Head(child[claim].pipe) /\ pc'["thread"] = "check"
          /\ claim' = claim /\ outcome' = outcome /\ claim \in Builds
      BY <1>0, <1>4, <2>3 DEF Receive, Goto, loopVars
    <3>2. child[claim].pipe \in Seq(Messages) /\ PipeFits(child[claim])
      BY <1>0, <3>1, TypeParts DEF ChildrenOK, Child, PipesFit
    <3>3. message' \in Verdicts => message' = child[claim].verdict
      BY <2>3, <3>1, <3>2 DEF PipeFits, Verdicts
    <3>4. message' \in Verdicts => message' = child'[claim].verdict
      BY <1>0, <3>1, <3>3, VerdictKept DEF Verdicts
    <3>5. outcome = "ready" => child'[claim].verdict = "ready"
      BY <1>0, VerdictKept DEF HeardFromChild
    <3> QED BY <3>1, <3>4, <3>5 DEF HeardFromChild
  <2> QED BY <2>1, <2>2, <2>3
<1>5. CASE Handle
  <2>1. claim' = claim /\ message' = "none" /\ claim \in Builds
    BY <1>0, <1>5 DEF Handle, loopVars
  <2>2. outcome' \in {outcome, "cancelled", message}
    BY <1>5 DEF Handle, Ends
  <2>3. outcome' = "ready" => child[claim].verdict = "ready"
    BY <1>0, <2>2 DEF HeardFromChild, Verdicts
  <2>4. outcome' = "ready" => child'[claim].verdict = "ready"
    BY <1>0, <2>1, <2>3, VerdictKept
  <2> QED BY <2>1, <2>4 DEF HeardFromChild, Verdicts
<1>6. CASE Begin \/ StartChild \/ CheckAlive
  <2>1. claim' = claim /\ message' = message /\ pc["thread"] # "check"
    BY <1>6 DEF Begin, StartChild, CheckAlive, loopVars
  <2>2. outcome' = "ready" => outcome = "ready"
    BY <1>6 DEF Begin, StartChild, CheckAlive, Ends
  <2> QED BY <1>0, <1>2, <2>1, <2>2 DEF HeardFromChild
<1>7. CASE LockToClose \/ CloseChild \/ Terminate("thread")
  <2>1. claim' = claim /\ UNCHANGED threadVars /\ pc["thread"] # "check"
    BY <1>7 DEF LockToClose, CloseChild, Terminate, EnterTerminate, GraceEnds, JoinKilled,
       loopVars
  <2> QED BY <1>0, <1>1, <2>1 DEF HeardFromChild
<1>8. CASE AwaitBuild
  BY <1>0, <1>1, <1>8 DEF AwaitBuild, loopVars, HeardFromChild
<1>9. CASE BeginCycle \/ EndCycle \/ RequestStop \/ Watch \/ CheckStop \/ RenewClaim
           \/ LockToCancel \/ Decide \/ SettleClaim \/ Exit
           \/ Terminate("loop")
  <2>1. claim' = claim /\ UNCHANGED threadVars
    BY <1>9 DEF BeginCycle, EndCycle, RequestStop, Watch, CheckStop, RenewClaim, LockToCancel, Decide, SettleClaim, Exit, Terminate,
       EnterTerminate, GraceEnds, JoinKilled, loopVars
  <2>2. pc'["thread"] = pc["thread"]
    BY <1>0, <1>9 DEF BeginCycle, EndCycle, RequestStop, Watch, CheckStop, RenewClaim,
       StoreFails, LockToCancel, Decide, SettleClaim, Exit, Terminate,
       EnterTerminate, GraceEnds, JoinKilled, Leave, Goto, Cancel
  <2> QED BY <1>1, <2>1, <2>2
<1>10. ASSUME NEW b \in Builds, ChildLogs(b) \/ ChildReports(b) \/ ChildEnds(b) \/ ChildKilled(b)
       PROVE  HeardFromChild'
  BY <1>1, <1>10 DEF ChildLogs, ChildReports, ChildEnds, ChildKilled, loopVars
<1>11. CASE UNCHANGED vars
  BY <1>1, <1>11 DEF vars, loopVars
<1> QED BY <1>3, <1>4, <1>5, <1>6, <1>7, <1>8, <1>9, <1>10, <1>11 DEF Next, Coordinate, Build

(* The loop, once it has decided to publish, only settles, or cancels and   *)
(* comes back to settle; and the thread is idle.                           *)
LEMMA DecisionStep ==
    ASSUME Inv, Found, [Next]_vars
    PROVE  DecisionStands'
<1>0. /\ pc \in [loop : LoopPlaces, thread : ThreadPlaces]
      /\ DecisionStands
      /\ pc["loop"] \in Settling => pc["thread"] = "idle"
  BY TypeParts DEF Inv, PcOK, ThreadAwaited, Found
<1>1. ASSUME UNCHANGED <<decision, outcome, reason, back>>,
             decision = "ready" => pc'["loop"] = pc["loop"] /\ pc'["thread"] = pc["thread"]
      PROVE  DecisionStands'
  BY <1>0, <1>1 DEF DecisionStands
<1>2. CASE TakeClaim
  BY <1>2 DEF TakeClaim, DecisionStands
<1>3. CASE RequestStop
  <2>1. /\ UNCHANGED <<decision, outcome, reason>> /\ pc'["thread"] = pc["thread"]
        /\ \/ pc'["loop"] = pc["loop"] /\ back' = back
           \/ pc["loop"] \in Executing /\ back' = pc["loop"]
              /\ pc'["loop"] = "cancel"
    BY <1>0, <1>3 DEF RequestStop, Cancel, Goto, threadVars
  <2> QED BY <1>0, <2>1 DEF DecisionStands, Executing, Terminating
<1>4. CASE Watch \/ CheckStop \/ RenewClaim \/ AwaitBuild
  <2>1. pc["loop"] \in {"watch", "turn", "renew", "await"} /\ decision' = decision
    BY <1>4 DEF Watch, CheckStop, RenewClaim, AwaitBuild, loopVars
  <2> QED BY <1>0, <2>1 DEF DecisionStands, Terminating
<1>5. CASE LockToCancel
  <2>1. /\ UNCHANGED <<decision, outcome, reason, back>> /\ pc["loop"] = "cancel"
        /\ pc'["thread"] = pc["thread"] /\ pc'["loop"] \in {back, "enter"}
    BY <1>0, <1>5 DEF LockToCancel, Goto, loopVars, threadVars
  <2> QED BY <1>0, <2>1 DEF DecisionStands, Terminating
<1>6. CASE Terminate("loop")
  <2>1. /\ UNCHANGED <<decision, outcome, reason, back>> /\ pc["loop"] \in Terminating
        /\ pc'["thread"] = pc["thread"] /\ pc'["loop"] \in {back, "grace", "kill"}
    BY <1>0, <1>6 DEF Terminate, EnterTerminate, GraceEnds, JoinKilled, Leave, Goto, loopVars,
       threadVars, Terminating
  <2> QED BY <1>0, <2>1 DEF DecisionStands, Terminating
<1>7. CASE Decide
  <2>1. /\ UNCHANGED <<outcome, reason>> /\ pc["thread"] = "idle"
        /\ pc'["thread"] = "idle" /\ pc'["loop"] = "settle"
        /\ decision' = "ready" => outcome = "ready" /\ reason = "none"
    BY <1>0, <1>7 DEF Decide, Goto, Settling, threadVars
  <2> QED BY <2>1 DEF DecisionStands
<1>8. CASE SettleClaim \/ BeginCycle \/ EndCycle \/ Exit
  <2>1. /\ UNCHANGED <<decision, outcome, reason>> /\ pc'["thread"] = pc["thread"]
        /\ pc'["loop"] \in {"idle", "cycle", "stopped"}
    BY <1>0, <1>8 DEF SettleClaim, BeginCycle, EndCycle, Exit, Goto, loopVars, threadVars
  <2> QED BY <1>0, <2>1 DEF DecisionStands
<1>9. CASE Build
  <2>1. pc["thread"] # "idle"
    BY <1>9 DEF Build, Begin, StartChild, Receive, Handle, CheckAlive, LockToClose, CloseChild,
       Terminate, EnterTerminate, GraceEnds, JoinKilled
  <2>2. decision' = decision
    BY <1>9 DEF Build, Begin, StartChild, Receive, Handle, CheckAlive, LockToClose, CloseChild,
       Terminate, EnterTerminate, GraceEnds, JoinKilled, loopVars
  <2> QED BY <1>0, <2>1, <2>2 DEF DecisionStands
<1>10. ASSUME NEW b \in Builds, ChildLogs(b) \/ ChildReports(b) \/ ChildEnds(b) \/ ChildKilled(b)
       PROVE  DecisionStands'
  BY <1>1, <1>10 DEF ChildLogs, ChildReports, ChildEnds, ChildKilled, loopVars, threadVars
<1>11. CASE UNCHANGED vars
  BY <1>1, <1>11 DEF vars, loopVars, threadVars
<1> QED BY <1>2, <1>3, <1>4, <1>5, <1>6, <1>7, <1>8, <1>9, <1>10, <1>11 DEF Next, Coordinate

(* Between two claims. *)
Between == {"idle", "cycle", "stopped"}

(* A build is settled once: while it is executed nothing is settled for it. *)
SettledOnce ==
    \A b \in Builds :
        settled[b] # "none" => b < claim \/ (b = claim /\ pc["loop"] \in Between)

(* A build that was to be withdrawn is not published: the decision on it is  *)
(* still to come, or was another.                                          *)
Withheld(b) ==
    /\ settled[b] # "ready"
    /\ \/ b < claim
       \/ b = claim /\ pc["loop"] \in Between
       \/ b = claim /\ decision # "ready" /\ (reason # "none" \/ stopping)

(* What a step does that neither claims, decides nor settles. *)
LEMMA OtherSteps ==
    ASSUME Inv, [Next]_vars, ~TakeClaim, ~Decide, ~SettleClaim
    PROVE  /\ UNCHANGED <<claim, settled, decision>>
           /\ reason # "none" => reason' # "none"
           /\ stopping => stopping'
           /\ pc["loop"] \in Between => pc'["loop"] \in Between
<1>0. pc \in [loop : LoopPlaces, thread : ThreadPlaces]
  BY TypeParts DEF Inv, PcOK
<1>1. CASE RequestStop
  BY <1>0, <1>1 DEF RequestStop, Cancel, Between, Executing
<1>2. CASE Watch \/ CheckStop \/ RenewClaim
  <2>1. UNCHANGED <<claim, settled, decision, stopping>> /\ pc["loop"] \notin Between
    BY <1>2 DEF Watch, CheckStop, RenewClaim, Between
  <2>2. reason' \in {reason, "stopping", "doomed", "lost"}
    BY <1>2 DEF Watch, CheckStop, RenewClaim, StoreFails
  <2> QED BY <2>1, <2>2
<1>3. CASE AwaitBuild \/ LockToCancel \/ Terminate("loop")
  BY <1>3 DEF AwaitBuild, LockToCancel, Terminate, EnterTerminate, GraceEnds, JoinKilled,
     Between, loopVars
<1>4. CASE BeginCycle \/ EndCycle \/ Exit
  BY <1>0, <1>4 DEF BeginCycle, EndCycle, Exit, Goto, Between, loopVars
<1>5. CASE Build
  <2>1. UNCHANGED loopVars
    BY <1>5 DEF Build, Begin, StartChild, Receive, Handle, CheckAlive, LockToClose, CloseChild,
       Terminate, EnterTerminate, GraceEnds, JoinKilled
  <2>2. pc'["loop"] = pc["loop"]
    BY <1>0, <1>5 DEF Build, Begin, StartChild, Receive, Handle, CheckAlive, LockToClose,
       CloseChild, Terminate, EnterTerminate, GraceEnds, JoinKilled, Leave, Ends, Goto
  <2> QED BY <2>1, <2>2 DEF loopVars
<1>6. CASE \E b \in Builds : ChildLogs(b) \/ ChildReports(b) \/ ChildEnds(b) \/ ChildKilled(b)
  BY <1>6 DEF ChildLogs, ChildReports, ChildEnds, ChildKilled, loopVars
<1>7. CASE UNCHANGED vars
  BY <1>7 DEF vars, loopVars
<1> QED BY <1>1, <1>2, <1>3, <1>4, <1>5, <1>6, <1>7 DEF Next, Coordinate

(* What claims, decides or settles. *)
LEMMA SettlingSteps ==
    ASSUME Inv
    PROVE  /\ TakeClaim => claim' = claim + 1 /\ settled' = settled
           /\ Decide => /\ UNCHANGED <<claim, settled, reason, stopping>>
                        /\ pc["loop"] \notin Between
                        /\ decision' = "ready" => reason = "none" /\ ~stopping
           /\ SettleClaim => /\ UNCHANGED <<claim, reason, stopping, decision>>
                             /\ pc["loop"] \notin Between
                             /\ pc'["loop"] = "idle"
                             /\ \E how \in {decision, "left"} :
                                   settled' = [settled EXCEPT ![claim] = how]
<1>0. pc \in [loop : LoopPlaces, thread : ThreadPlaces]
  BY TypeParts DEF Inv, PcOK
<1>1. TakeClaim => claim' = claim + 1 /\ settled' = settled
  BY DEF TakeClaim
<1>2. Decide => /\ UNCHANGED <<claim, settled, reason, stopping>>
                /\ pc["loop"] \notin Between
                /\ decision' = "ready" => reason = "none" /\ ~stopping
  BY DEF Decide, Between
<1>3. ASSUME SettleClaim
      PROVE  /\ UNCHANGED <<claim, reason, stopping, decision>>
             /\ pc["loop"] \notin Between /\ pc'["loop"] = "idle"
             /\ \E how \in {decision, "left"} : settled' = [settled EXCEPT ![claim] = how]
  BY <1>0, <1>3 DEF SettleClaim, Between, Goto
<1> QED BY <1>1, <1>2, <1>3

LEMMA SettledStep ==
    ASSUME Inv, SettledOnce, [Next]_vars PROVE SettledOnce'
<1>0. claim \in 0..MaxBuilds /\ settled \in [Builds -> {"none", "ready", "failed", "released", "left"}]
  BY TypeParts DEF Inv, LoopOK
<1>1. CASE TakeClaim
  <2>1. claim' = claim + 1 /\ settled' = settled
    BY <1>1, SettlingSteps
  <2>2. \A b \in Builds : b \in Nat /\ (b < claim \/ b = claim => b < claim + 1)
    BY <1>0 DEF Builds
  <2> QED BY <2>1, <2>2 DEF SettledOnce
<1>2. CASE Decide
  BY <1>2, SettlingSteps DEF SettledOnce
<1>3. CASE SettleClaim
  <2>1. /\ claim' = claim /\ pc'["loop"] \in Between
        /\ \A b \in Builds : b # claim => settled'[b] = settled[b]
    BY <1>0, <1>3, SettlingSteps DEF Between
  <2> QED BY <2>1 DEF SettledOnce
<1>4. CASE ~TakeClaim /\ ~Decide /\ ~SettleClaim
  BY <1>4, OtherSteps DEF SettledOnce
<1> QED BY <1>1, <1>2, <1>3, <1>4

LEMMA WithheldStep ==
    ASSUME Inv, [Next]_vars, NEW b \in Builds, Withheld(b) PROVE Withheld(b)'
<1>0. claim \in 0..MaxBuilds /\ settled \in [Builds -> {"none", "ready", "failed", "released", "left"}]
  BY TypeParts DEF Inv, LoopOK
<1>1. CASE TakeClaim
  <2>1. claim' = claim + 1 /\ settled' = settled
    BY <1>1, SettlingSteps
  <2>2. b < claim \/ b = claim => b < claim + 1
    BY <1>0 DEF Builds
  <2> QED BY <2>1, <2>2 DEF Withheld
<1>2. CASE Decide
  BY <1>2, SettlingSteps DEF Withheld
<1>3. CASE SettleClaim
  <2>1. /\ claim' = claim /\ pc'["loop"] \in Between
        /\ b # claim => settled'[b] = settled[b]
        /\ b = claim => settled'[b] \in {decision, "left"}
    BY <1>0, <1>3, SettlingSteps DEF Between
  <2>2. b = claim => decision # "ready"
    BY <1>3, SettlingSteps, <1>0 DEF Withheld, Builds
  <2> QED BY <2>1, <2>2 DEF Withheld
<1>4. CASE ~TakeClaim /\ ~Decide /\ ~SettleClaim
  BY <1>4, OtherSteps DEF Withheld
<1> QED BY <1>1, <1>2, <1>3, <1>4

(* An image is published only if the child of this claim found it good, and  *)
(* never if, before the loop awaited its thread, the build was found doomed, *)
(* lost its store or its deployer was told to stop.                        *)
THEOREM OnlyTheFoundIsPublished == Spec => PublishedAsFound
<1>1. Init => Found /\ SettledOnce
  <2> SUFFICES ASSUME Init PROVE Found /\ SettledOnce
    OBVIOUS
  <2>1. PipesFit
    BY DEF Init, PipesFit, PipeFits, NoChild
  <2> QED BY <2>1 DEF Init, Found, HeardFromChild, DecisionStands, Verdicts, SettledOnce
<1>2. Inv /\ Found /\ SettledOnce /\ [Next]_vars => (Found /\ SettledOnce)'
  BY VerdictKept, HeardStep, DecisionStep, SettledStep DEF Found, PipesFit
<1>3. Inv /\ Found /\ [Next]_vars =>
        [\A b \in Builds : settled'[b] = "ready" /\ settled[b] # "ready" =>
           child[b].verdict = "ready"]_vars
  <2> SUFFICES ASSUME Inv, Found, [Next]_vars, NEW b \in Builds,
                      settled'[b] = "ready", settled[b] # "ready"
               PROVE  child[b].verdict = "ready"
    OBVIOUS
  <2>1. SettleClaim
    BY OtherSteps, SettlingSteps
  <2>2. b = claim /\ decision = "ready"
    BY <2>1, SettlingSteps, TypeParts DEF Inv, LoopOK
  <2> QED BY <2>2 DEF Found, DecisionStands, HeardFromChild
<1>4. Inv /\ SettledOnce /\ Found =>
        \A b \in Builds : Withdrawn(b) => Withheld(b)
  <2> SUFFICES ASSUME Inv, SettledOnce, Found, NEW b \in Builds, Withdrawn(b)
               PROVE  Withheld(b)
    OBVIOUS
  <2>1. claim = b /\ pc["thread"] # "idle" /\ (reason # "none" \/ stopping)
    BY DEF Withdrawn
  <2>2. decision # "ready"
    BY <2>1 DEF Found, DecisionStands
  <2>3. pc["loop"] \notin Between
    BY <2>1 DEF Inv, ThreadAwaited, Settling, Between
  <2>4. settled[b] = "none"
    <3>1. ~(b < claim)
      BY <2>1 DEF Builds
    <3> QED BY <2>3, <3>1 DEF SettledOnce
  <2> QED BY <2>1, <2>2, <2>4 DEF Withheld
<1>5. \A b \in Builds : Spec => [](Withdrawn(b) => [](settled[b] # "ready"))
  <2> SUFFICES ASSUME NEW b \in Builds
               PROVE  Spec => [](Withdrawn(b) => [](settled[b] # "ready"))
    OBVIOUS
  <2>1. Inv /\ SettledOnce /\ Found /\ Withdrawn(b) => Withheld(b)
    BY <1>4
  <2>2. Inv /\ Withheld(b) /\ [Next]_vars => Withheld(b)'
    BY WithheldStep
  <2>3. Withheld(b) => settled[b] # "ready"
    BY DEF Withheld
  <2> QED BY <1>1, <1>2, <2>1, <2>2, <2>3, InvHolds, PTL DEF Spec
<1>6. Spec => [][\A b \in Builds : settled'[b] = "ready" /\ settled[b] # "ready" =>
                   child[b].verdict = "ready"]_vars
  BY <1>1, <1>2, <1>3, InvHolds, PTL DEF Spec
<1> QED BY <1>5, <1>6 DEF PublishedAsFound
===============================================================================
