----------------------- MODULE EndpointInvocationsProofs -----------------------
(* Theorems about EndpointInvocations for every value of its constants. *)
EXTENDS EndpointInvocations, QueueLemmas

-------------------------------------------------------------------------------
(* Types. *)

LEMMA FaultOK ==
    ASSUME faults \in 0..MaxFaults, Fault
    PROVE  faults' \in 0..MaxFaults
BY ConstantsAssumption DEF ConstantsAssumption, Fault

RequestTypes ==
    /\ request \in [Invocations -> {"new", "routed", "waiting", "refused", "ended"}]
    /\ target \in [Invocations -> Builds]
    /\ subscribed \in SUBSET Invocations /\ heard \in SUBSET Invocations
    /\ queue \in [Builds -> Seq(Invocations)]

WorkerTypes ==
    /\ pc \in [Workers -> Places]
    /\ hand \in [Workers -> Invocations \cup {NoTask}]
    /\ answered \in SUBSET Invocations /\ dropped \in SUBSET Invocations

RegistryTypes ==
    /\ status \in [Workers -> {"none", "preparing", "listening", "running", "stale"}]
    /\ assigned \in SUBSET Workers
    /\ task \in [Workers -> Invocations \cup {NoTask}]
    /\ container \in [Workers -> {"ready", "draining", "removed"}]
    /\ look \in [Workers -> {"none", "idle", "busy"}]

OtherTypes ==
    /\ active \in Builds /\ deleting \in BOOLEAN /\ superseded \in SUBSET Builds
    /\ faults \in 0..MaxFaults

LEMMA TypeParts ==
    /\ TypeOK <=> RequestTypes /\ WorkerTypes /\ RegistryTypes /\ OtherTypes
    /\ TypeOK' <=> RequestTypes' /\ WorkerTypes' /\ RegistryTypes' /\ OtherTypes'
BY DEF TypeOK, RequestTypes, WorkerTypes, RegistryTypes, OtherTypes

LEMMA DiesOK ==
    ASSUME WorkerTypes, NEW w \in Workers, Dies(w)
    PROVE  WorkerTypes' /\ UNCHANGED heard
BY DEF WorkerTypes, Dies, Goto, Places

LEMMA AnswerOK ==
    ASSUME WorkerTypes, RequestTypes, NEW w \in Workers, Answer(w), UNCHANGED hand,
           hand[w] # NoTask, UNCHANGED <<requestVars, queue>>
    PROVE  WorkerTypes' /\ RequestTypes'
BY DEF WorkerTypes, RequestTypes, Answer, Goto, Places, requestVars

(* A worker holds a payload from its pop to its release. *)
Holding == {"claim", "requeue", "check", "run", "release"}
HandIsUsed == \A w \in Workers : hand[w] # NoTask <=> pc[w] \in Holding

Typed == TypeOK /\ HandIsUsed

LEMMA DiesFree ==
    ASSUME Typed, NEW w \in Workers, Dies(w)
    PROVE  HandIsUsed'
BY DEF Typed, TypeOK, HandIsUsed, Holding, Dies, Goto

(* The steps of a request, one after the other. *)
LEMMA RequestTyped ==
    ASSUME Typed, NEW i \in Invocations, Route(i) \/ Handle(i) \/ GiveUp(i)
    PROVE  Typed'
<1> USE DEF Typed, HandIsUsed, TypeOK, routeVars, requestVars, workerVars, registryVars,
            drainVars, answerVars
<1>1. CASE Route(i)
  <2>1. CASE request' = [request EXCEPT ![i] = "refused"] /\ UNCHANGED <<target, subscribed>>
    BY <1>1, <2>1 DEF Route
  <2>2. CASE /\ request' = [request EXCEPT ![i] = "routed"]
             /\ target' = [target EXCEPT ![i] = active]
             /\ subscribed' = subscribed \cup {i}
    BY <1>1, <2>2 DEF Route
  <2> QED BY <1>1, <2>1, <2>2 DEF Route
<1>2. CASE Push(i)
  BY <1>2 DEF Push, Builds
<1>3. CASE EndRequest(i)
  BY <1>3 DEF EndRequest
<1> QED BY <1>1, <1>2, <1>3 DEF Handle, Receive, GiveUp

LEMMA WorkTyped ==
    ASSUME Typed, NEW w \in Workers, Work(w)
    PROVE  Typed'
<1> USE DEF Typed, routeVars, requestVars, workerVars, registryVars, drainVars, answerVars
<1>1. BuildOf(w) \in Builds
  BY DEF BuildOf, Builds
<1>2. CASE Boot(w)
  BY <1>2 DEF Boot, Goto, TypeOK, HandIsUsed, Holding, Places
<1>3. CASE ReadAssignment(w)
  <2>1. CASE Dies(w)
    <3>1. WorkerTypes' /\ HandIsUsed' /\ UNCHANGED heard
      BY <2>1, DiesOK, DiesFree, TypeParts
    <3> QED BY <1>3, <3>1, TypeParts DEF ReadAssignment, RequestTypes, RegistryTypes, OtherTypes
  <2>2. CASE ~Dies(w)
    BY ZenonT(60), <1>3, <2>2 DEF ReadAssignment, Goto, TypeOK, HandIsUsed, Holding, Places
  <2> QED BY <2>1, <2>2
<1>4. CASE BeatListening(w)
  <2>1. CASE Dies(w) /\ UNCHANGED registryVars
    <3>1. WorkerTypes' /\ HandIsUsed' /\ UNCHANGED heard
      BY <2>1, DiesOK, DiesFree, TypeParts
    <3> QED BY <1>4, <2>1, <3>1, TypeParts
            DEF BeatListening, RequestTypes, RegistryTypes, OtherTypes
  <2>2. CASE SetRow(w, "listening", NoTask) /\ Goto(w, "pop") /\ UNCHANGED <<hand, answerVars>>
    <3>1. pc[w] \notin Holding /\ "pop" \notin Holding /\ "pop" \in Places
      BY <1>4 DEF BeatListening, Holding, Places
    <3>2. RegistryTypes'
      BY <2>2, <1>4, TypeParts DEF BeatListening, SetRow, RegistryTypes
    <3>3. WorkerTypes' /\ HandIsUsed'
      BY <2>2, <1>4, <3>1, TypeParts DEF BeatListening, Goto, WorkerTypes, HandIsUsed
    <3> QED BY <1>4, <2>2, <3>2, <3>3, TypeParts DEF BeatListening, RequestTypes, OtherTypes
  <2> QED BY <1>4, <2>1, <2>2 DEF BeatListening
<1>5. CASE Pop(w)
  <2>1. queue[BuildOf(w)] \in Seq(Invocations)
    BY <1>1 DEF TypeOK
  <2>2. CASE queue[BuildOf(w)] = <<>>
    BY ZenonT(60), <1>5, <2>2 DEF Pop, Goto, TypeOK, HandIsUsed, Holding, Places
  <2>3. CASE queue[BuildOf(w)] # <<>>
    <3>1. Head(queue[BuildOf(w)]) \in Invocations /\ Tail(queue[BuildOf(w)]) \in Seq(Invocations)
      BY <2>1, <2>3
    <3>2. Head(queue[BuildOf(w)]) # NoTask
      BY <3>1, ConstantsAssumption DEF ConstantsAssumption
    <3>3. queue' \in [Builds -> Seq(Invocations)]
      BY <1>5, <2>3, <3>1 DEF Pop, TypeOK
    <3>4. WorkerTypes' /\ HandIsUsed'
      BY <1>5, <2>3, <3>1, <3>2, TypeParts
         DEF Pop, Goto, WorkerTypes, HandIsUsed, Holding, Places
    <3> QED BY <1>5, <3>3, <3>4, TypeParts DEF Pop, RequestTypes, RegistryTypes, OtherTypes
  <2> QED BY <2>2, <2>3
<1>6. CASE Claim(w)
  <2>1. RegistryTypes'
    BY <1>6, TypeParts DEF Claim, SetRow, RegistryTypes, WorkerTypes
  <2>2. WorkerTypes' /\ HandIsUsed'
    BY <1>6, TypeParts DEF Claim, Goto, WorkerTypes, HandIsUsed, Holding, Places
  <2> QED BY <1>6, <2>1, <2>2, TypeParts DEF Claim, RequestTypes, OtherTypes
<1>7. CASE Requeue(w)
  <2>1. hand[w] \in Invocations
    BY <1>7 DEF Requeue, TypeOK, HandIsUsed, Holding
  <2>2. queue[BuildOf(w)] \in Seq(Invocations)
    BY <1>1 DEF TypeOK
  <2>3. <<hand[w]>> \o queue[BuildOf(w)] \in Seq(Invocations)
    BY <2>1, <2>2
  <2> QED BY <1>7, <2>3 DEF Requeue, Goto, TypeOK, HandIsUsed, Holding, Places
<1>8. CASE Check(w) \/ Run(w)
  <2>1. hand[w] \in Invocations
    BY <1>8 DEF Check, Run, TypeOK, HandIsUsed, Holding
  <2>2. WorkerTypes' /\ HandIsUsed' /\ heard' \in SUBSET Invocations
    <3>1. CASE Check(w)
      BY ZenonT(60), <3>1, <2>1, TypeParts
         DEF Check, Answer, Goto, WorkerTypes, RequestTypes, HandIsUsed, Holding, Places
    <3>2. CASE Run(w)
      BY <3>2, <2>1, TypeParts
         DEF Run, Answer, Goto, WorkerTypes, RequestTypes, HandIsUsed, Holding, Places
    <3> QED BY <1>8, <3>1, <3>2
  <2> QED BY <1>8, <2>2, TypeParts DEF Check, Run, RequestTypes, RegistryTypes, OtherTypes
<1>9. CASE Release(w)
  BY <1>9, FaultOK DEF Release, SetRow, Goto, TypeOK, HandIsUsed, Holding, Places
<1> QED BY <1>2, <1>3, <1>4, <1>5, <1>6, <1>7, <1>8, <1>9 DEF Work

LEMMA RestTyped ==
    ASSUME Typed,
           \/ \E w \in Workers : Crash(w) \/ Expire(w) \/ Reconcile(w)
           \/ Promote \/ DeleteEndpoint \/ \E b \in Builds : Supersede(b)
    PROVE  Typed'
<1> USE DEF Typed, routeVars, requestVars, workerVars, registryVars, drainVars, answerVars
<1>1. ASSUME NEW w \in Workers, Crash(w) \/ Remove(w)
      PROVE  Typed'
  BY <1>1, DiesOK, DiesFree, TypeParts, FaultOK
     DEF Crash, Remove, RequestTypes, RegistryTypes, OtherTypes
<1>2. ASSUME NEW w \in Workers, Expire(w) \/ Look(w) \/ Block(w) \/ KeepDraining(w)
      PROVE  Typed'
  <2>1. CASE Expire(w)
    BY <2>1, FaultOK DEF Expire, TypeOK, HandIsUsed
  <2>2. CASE Look(w)
    BY <2>2 DEF Look, TypeOK, HandIsUsed
  <2>3. CASE Block(w)
    BY <2>3 DEF Block, TypeOK, HandIsUsed
  <2>4. CASE KeepDraining(w)
    BY <2>4 DEF KeepDraining, TypeOK, HandIsUsed
  <2> QED BY <1>2, <2>1, <2>2, <2>3, <2>4
<1>3. CASE Promote
  BY <1>3 DEF Promote, TypeOK, HandIsUsed, Builds
<1>4. CASE DeleteEndpoint
  <2>1. /\ status' \in [Workers -> {"none", "preparing", "listening", "running", "stale"}]
        /\ assigned' \in SUBSET Workers /\ deleting' \in BOOLEAN
        /\ faults' \in 0..MaxFaults
    BY <1>4, FaultOK DEF DeleteEndpoint, TypeOK
  <2> QED BY <1>4, <2>1 DEF DeleteEndpoint, TypeOK, HandIsUsed
<1>5. ASSUME NEW b \in Builds, Supersede(b)
      PROVE  Typed'
  BY <1>5, FaultOK DEF Supersede, TypeOK, HandIsUsed
<1> QED BY <1>1, <1>2, <1>3, <1>4, <1>5 DEF Reconcile

LEMMA StutterTyped == Typed /\ UNCHANGED vars => Typed'
BY DEF Typed, TypeOK, HandIsUsed, vars, routeVars, requestVars, workerVars, registryVars,
       drainVars, answerVars

LEMMA InitTyped == Init => Typed
<1> SUFFICES ASSUME Init PROVE Typed
  OBVIOUS
<1>1. queue \in [Builds -> Seq(Invocations)]
  BY DEF Init
<1>2. deleting \in BOOLEAN
  BY DEF Init
<1>3. faults \in 0..MaxFaults
  BY ConstantsAssumption DEF Init, ConstantsAssumption
<1> QED BY <1>1, <1>2, <1>3 DEF Init, Typed, TypeOK, HandIsUsed, Holding, Places, Builds

LEMMA TypedStep == Typed /\ [Next]_vars => Typed'
BY RequestTyped, WorkTyped, RestTyped, StutterTyped DEF Next

(* Requests, queues, workers and registry keep their types: nothing is      *)
(* pushed, claimed or reported without an invocation in hand.               *)
THEOREM InvocationTypes == Spec => []TypeOK
<1>1. Typed => TypeOK
  BY DEF Typed
<1> QED BY <1>1, InitTyped, TypedStep, PTL DEF Spec

-------------------------------------------------------------------------------
(* The invariant. *)

(* w holds an invocation it has not answered. *)
Carries(w) == pc[w] \in Holding \ {"release"}
InSomeQueue(i) == \E b \in Builds : i \in Range(queue[b])
InSomeHand(i) == \E w \in Workers : Carries(w) /\ hand[w] = i

OnePlace ==
    /\ \A b \in Builds : IsInjective(queue[b])
    /\ \A b, c \in Builds, i \in Invocations :
         i \in Range(queue[b]) /\ i \in Range(queue[c]) => b = c
    /\ \A v, w \in Workers : Carries(v) /\ Carries(w) /\ hand[v] = hand[w] => v = w
    /\ \A i \in Invocations : ~(InSomeQueue(i) /\ InSomeHand(i))
    /\ \A i \in Invocations : Outstanding(i) <=> InSomeQueue(i) \/ InSomeHand(i)

Reported == \A w \in Workers : pc[w] = "release" => hand[w] \in answered
Accepted == \A i \in answered \cup dropped : request[i] \in {"waiting", "ended"}
Listened == \A i \in Invocations :
                request[i] \in {"routed", "waiting"} => i \in subscribed

Placed == Typed /\ OnePlace /\ Reported /\ Accepted
Heard == Listened /\ AnswerIsHeard

(* A container that is drained takes no new claims. *)
DrainBlocksClaims ==
    \A w \in Workers :
        /\ container[w] # "ready" => w \notin assigned
        /\ look[w] # "none" => container[w] = "draining"
        /\ look[w] = "idle" => status[w] # "running"

-------------------------------------------------------------------------------
(* OnePlace, for each way an invocation moves. *)

(* Nothing is popped, put back, answered or dropped. *)
LEMMA StaysPlaced ==
    ASSUME OnePlace, UNCHANGED queue,
           \A w \in Workers : Carries(w)' <=> Carries(w),
           \A w \in Workers : Carries(w) => hand'[w] = hand[w],
           \A i \in Invocations : Outstanding(i)' <=> Outstanding(i)
    PROVE  OnePlace'
<1>1. \A i \in Invocations : InSomeQueue(i)' <=> InSomeQueue(i)
  BY DEF InSomeQueue
<1>2. \A i \in Invocations : InSomeHand(i)' <=> InSomeHand(i)
  BY DEF InSomeHand
<1> QED BY <1>1, <1>2 DEF OnePlace

LEMMA PushedOnce ==
    ASSUME Placed, NEW i \in Invocations, Push(i)
    PROVE  OnePlace'
<1> DEFINE t == target[i]
<1>1. t \in Builds /\ queue[t] \in Seq(Invocations) /\ queue \in [Builds -> Seq(Invocations)]
  BY DEF Placed, Typed, TypeOK
<1>2. queue'[t] = Append(queue[t], i) /\ \A b \in Builds : b # t => queue'[b] = queue[b]
  BY <1>1 DEF Push
<1>3. UNCHANGED <<pc, hand>> /\ \A w \in Workers : Carries(w)' <=> Carries(w)
  BY DEF Push, workerVars, Carries
<1>4. ~Outstanding(i) /\ Outstanding(i)'
      /\ \A j \in Invocations \ {i} : Outstanding(j)' <=> Outstanding(j)
  BY DEF Push, Placed, Typed, TypeOK, Accepted, Outstanding, answerVars
<1>5. \A b \in Builds : i \notin Range(queue[b])
  BY <1>4 DEF Placed, OnePlace, InSomeQueue
<1>6. \A w \in Workers : Carries(w) => hand[w] # i
  BY <1>4 DEF Placed, OnePlace, InSomeHand
<1>7. /\ Range(queue'[t]) = Range(queue[t]) \cup {i}
      /\ IsInjective(queue'[t])
  BY <1>1, <1>2, <1>5, AppendElement DEF Placed, OnePlace
<1> HIDE DEF t
<1>8. \A j \in Invocations : InSomeQueue(j)' <=> InSomeQueue(j) \/ j = i
  BY <1>1, <1>2, <1>7 DEF InSomeQueue
<1>9. \A j \in Invocations : InSomeHand(j)' <=> InSomeHand(j)
  BY <1>3 DEF InSomeHand
<1>10. \A b \in Builds : IsInjective(queue'[b])
  BY <1>2, <1>7 DEF Placed, OnePlace
<1>11. \A b, c \in Builds, j \in Invocations :
         j \in Range(queue'[b]) /\ j \in Range(queue'[c]) => b = c
  <2>1. \A b \in Builds : i \in Range(queue'[b]) => b = t
    BY <1>2, <1>5
  <2>2. \A b \in Builds : Range(queue'[b]) \subseteq Range(queue[b]) \cup {i}
    BY <1>2, <1>7
  <2> QED BY <2>1, <2>2 DEF Placed, OnePlace
<1>12. ~InSomeHand(i)
  BY <1>6 DEF InSomeHand
<1> QED BY <1>3, <1>4, <1>8, <1>9, <1>10, <1>11, <1>12 DEF Placed, OnePlace

(* The head of a queue is taken into a hand. *)
LEMMA PoppedOnce ==
    ASSUME Placed, NEW w \in Workers, Pop(w), queue[BuildOf(w)] # <<>>
    PROVE  OnePlace'
<1> DEFINE t == BuildOf(w)
           x == Head(queue[t])
<1>1. t \in Builds /\ queue[t] \in Seq(Invocations) /\ queue \in [Builds -> Seq(Invocations)]
  BY DEF Placed, Typed, TypeOK, BuildOf, Builds
<1>2. queue'[t] = Tail(queue[t]) /\ \A b \in Builds : b # t => queue'[b] = queue[b]
  BY <1>1 DEF Pop
<1>3. x \in Invocations
  BY <1>1
<1>4. /\ x \in Range(queue[t])
      /\ IsInjective(queue'[t]) /\ Range(queue'[t]) = Range(queue[t]) \ {x}
  BY <1>1, <1>2, TailElements DEF Placed, OnePlace
<1>5. ~Carries(w) /\ Carries(w)' /\ hand'[w] = x
      /\ \A v \in Workers \ {w} : (Carries(v)' <=> Carries(v)) /\ hand'[v] = hand[v]
  BY DEF Pop, Goto, Carries, Holding, Placed, Typed, TypeOK
<1>6. \A j \in Invocations : Outstanding(j)' <=> Outstanding(j)
  BY DEF Pop, Outstanding, requestVars, answerVars
<1> HIDE DEF t, x
<1>7. InSomeQueue(x) /\ ~InSomeHand(x)
  BY <1>1, <1>3, <1>4 DEF InSomeQueue, Placed, OnePlace
<1>8. \A b \in Builds : x \in Range(queue[b]) => b = t
  BY <1>1, <1>3, <1>4 DEF Placed, OnePlace
<1>9. \A j \in Invocations : InSomeQueue(j)' <=> InSomeQueue(j) /\ j # x
  BY <1>1, <1>2, <1>4, <1>8 DEF InSomeQueue
<1>10. \A j \in Invocations : InSomeHand(j)' <=> InSomeHand(j) \/ j = x
  BY <1>5 DEF InSomeHand
<1>11. \A v \in Workers : Carries(v) => hand[v] # x
  BY <1>7 DEF InSomeHand
<1>12. \A u, v \in Workers : Carries(u)' /\ Carries(v)' /\ hand'[u] = hand'[v] => u = v
  BY <1>5, <1>11 DEF Placed, OnePlace
<1>13. \A b \in Builds : IsInjective(queue'[b]) /\ Range(queue'[b]) \subseteq Range(queue[b])
  BY <1>2, <1>4 DEF Placed, OnePlace
<1>14. \A b, c \in Builds, j \in Invocations :
         j \in Range(queue'[b]) /\ j \in Range(queue'[c]) => b = c
  BY <1>13 DEF Placed, OnePlace
<1> QED BY <1>6, <1>7, <1>9, <1>10, <1>12, <1>13, <1>14 DEF Placed, OnePlace

(* An invocation that could not be claimed goes back to the front. *)
LEMMA RequeuedOnce ==
    ASSUME Placed, NEW w \in Workers, Requeue(w)
    PROVE  OnePlace'
<1> DEFINE t == BuildOf(w)
           x == hand[w]
<1>1. t \in Builds /\ queue[t] \in Seq(Invocations) /\ queue \in [Builds -> Seq(Invocations)]
  BY DEF Placed, Typed, TypeOK, BuildOf, Builds
<1>2. queue'[t] = <<x>> \o queue[t] /\ \A b \in Builds : b # t => queue'[b] = queue[b]
  BY <1>1 DEF Requeue
<1>3. x \in Invocations
  BY DEF Requeue, Placed, Typed, TypeOK, HandIsUsed, Holding
<1>4. Carries(w) /\ ~Carries(w)'
      /\ \A v \in Workers \ {w} : (Carries(v)' <=> Carries(v)) /\ hand'[v] = hand[v]
  BY DEF Requeue, Goto, Carries, Holding, Placed, Typed, TypeOK
<1>5. \A j \in Invocations : Outstanding(j)' <=> Outstanding(j)
  BY DEF Requeue, Outstanding, requestVars, answerVars
<1>6. InSomeHand(x) /\ ~InSomeQueue(x)
  BY <1>3, <1>4 DEF InSomeHand, Placed, OnePlace
<1>7. \A b \in Builds : x \notin Range(queue[b])
  BY <1>6 DEF InSomeQueue
<1>8. IsInjective(queue'[t]) /\ Range(queue'[t]) = Range(queue[t]) \cup {x}
  BY <1>1, <1>2, <1>3, <1>7, FrontElement DEF Placed, OnePlace
<1> HIDE DEF t
<1>9. \A j \in Invocations : InSomeQueue(j)' <=> InSomeQueue(j) \/ j = x
  BY <1>1, <1>2, <1>8 DEF InSomeQueue
<1>10. \A v \in Workers \ {w} : Carries(v) => hand[v] # x
  BY <1>4 DEF Placed, OnePlace
<1>11. \A j \in Invocations : InSomeHand(j)' <=> InSomeHand(j) /\ j # x
  BY <1>4, <1>10 DEF InSomeHand
<1>12. \A u, v \in Workers : Carries(u)' /\ Carries(v)' /\ hand'[u] = hand'[v] => u = v
  BY <1>4 DEF Placed, OnePlace
<1>13. /\ \A b \in Builds : IsInjective(queue'[b])
       /\ \A b, c \in Builds, j \in Invocations :
            j \in Range(queue'[b]) /\ j \in Range(queue'[c]) => b = c
  BY <1>2, <1>7, <1>8 DEF Placed, OnePlace
<1> QED BY <1>5, <1>6, <1>9, <1>11, <1>12, <1>13 DEF Placed, OnePlace

(* A worker gives up what it carries, and it is answered or dropped. *)
LEMMA SettledOnce ==
    ASSUME Placed, NEW w \in Workers, Carries(w), ~Carries(w)', UNCHANGED <<queue, request>>,
           \A v \in Workers \ {w} : (Carries(v)' <=> Carries(v)) /\ hand'[v] = hand[v],
           (answered \cup dropped)' = answered \cup dropped \cup {hand[w]}
    PROVE  OnePlace'
<1> DEFINE x == hand[w]
<1>1. x \in Invocations
  BY DEF Placed, Typed, TypeOK, HandIsUsed, Carries
<1>2. InSomeHand(x) /\ ~InSomeQueue(x)
  BY <1>1 DEF InSomeHand, Placed, OnePlace
<1>3. \A j \in Invocations : Outstanding(j)' <=> Outstanding(j) /\ j # x
  BY DEF Outstanding
<1>4. \A v \in Workers \ {w} : Carries(v) => hand[v] # x
  BY DEF Placed, OnePlace
<1>5. \A j \in Invocations : InSomeHand(j)' <=> InSomeHand(j) /\ j # x
  BY <1>4 DEF InSomeHand
<1>6. \A j \in Invocations : InSomeQueue(j)' <=> InSomeQueue(j)
  BY DEF InSomeQueue
<1>7. \A u, v \in Workers : Carries(u)' /\ Carries(v)' /\ hand'[u] = hand'[v] => u = v
  BY DEF Placed, OnePlace
<1> HIDE DEF x
<1> QED BY <1>2, <1>3, <1>5, <1>6, <1>7 DEF Placed, OnePlace

-------------------------------------------------------------------------------
(* The steps of the specification. *)

(* Dying and answering settle what is carried; after the release there is    *)
(* nothing to settle.                                                       *)
LEMMA DiesPlaced ==
    ASSUME Placed, NEW w \in Workers, Dies(w), UNCHANGED <<queue, request>>
    PROVE  OnePlace' /\ Reported' /\ Accepted'
<1>1. ~Carries(w)' /\ \A v \in Workers \ {w} :
                         /\ Carries(v)' <=> Carries(v)
                         /\ pc'[v] = pc[v] /\ hand'[v] = hand[v]
  BY DEF Dies, Goto, Carries, Holding, Placed, Typed, TypeOK
<1>2. Reported'
  BY <1>1 DEF Dies, Goto, Reported, Placed, Typed, TypeOK
<1>3. CASE Carries(w)
  <2>1. hand[w] \in Invocations
    BY <1>3 DEF Carries, Placed, Typed, TypeOK, HandIsUsed
  <2>2. Outstanding(hand[w])
    BY <1>3, <2>1 DEF Placed, OnePlace, InSomeHand
  <2>3. (answered \cup dropped)' = answered \cup dropped \cup {hand[w]}
    BY <2>1, <2>2, ConstantsAssumption DEF Dies, Outstanding, ConstantsAssumption
  <2>4. Accepted'
    BY <2>2, <2>3 DEF Accepted, Placed, Outstanding
  <2> QED BY <1>1, <1>2, <1>3, <2>3, <2>4, SettledOnce
<1>4. CASE ~Carries(w)
  <2>1. hand[w] = NoTask \/ hand[w] \in answered
    BY <1>4 DEF Carries, Placed, Typed, TypeOK, HandIsUsed, Reported
  <2>2. UNCHANGED <<answered, dropped>>
    BY <2>1 DEF Dies
  <2>3. \A i \in Invocations : Outstanding(i)' <=> Outstanding(i)
    BY <2>2 DEF Outstanding
  <2>4. \A v \in Workers : (Carries(v)' <=> Carries(v)) /\ (Carries(v) => hand'[v] = hand[v])
    BY <1>1, <1>4
  <2>5. OnePlace'
    BY <2>3, <2>4, StaysPlaced DEF Placed
  <2> QED BY <1>2, <2>2, <2>5 DEF Accepted, Placed
<1> QED BY <1>3, <1>4

LEMMA AnswerPlaced ==
    ASSUME Placed, NEW w \in Workers, pc[w] \in {"check", "run"}, Answer(w),
           UNCHANGED <<queue, request, hand>>
    PROVE  OnePlace' /\ Reported' /\ Accepted'
<1>1. /\ Carries(w) /\ ~Carries(w)' /\ pc'[w] = "release"
      /\ \A v \in Workers \ {w} : (Carries(v)' <=> Carries(v)) /\ pc'[v] = pc[v]
  BY DEF Answer, Goto, Carries, Holding, Placed, Typed, TypeOK
<1>2. answered' = answered \cup {hand[w]} /\ UNCHANGED dropped
  BY DEF Answer
<1>3. hand[w] \in Invocations /\ Outstanding(hand[w])
  BY <1>1 DEF Carries, Placed, Typed, TypeOK, HandIsUsed, OnePlace, InSomeHand
<1>4. OnePlace'
  BY <1>1, <1>2, SettledOnce
<1>5. Reported'
  BY <1>1, <1>2 DEF Reported, Placed
<1>6. Accepted'
  BY <1>2, <1>3 DEF Accepted, Placed, Outstanding
<1> QED BY <1>4, <1>5, <1>6

(* A step of a worker that neither takes nor gives up an invocation. *)
LEMMA QuietPlaced ==
    ASSUME Placed, NEW w \in Workers, NEW place \in Places, Goto(w, place), place # "release",
           pc[w] \in Holding \ {"release"} <=> place \in Holding \ {"release"},
           UNCHANGED <<queue, request, answered, dropped>>,
           \A v \in Workers : hand'[v] = hand[v] \/ (v = w /\ ~Carries(w))
    PROVE  OnePlace' /\ Reported' /\ Accepted'
<1>1. \A v \in Workers : /\ Carries(v)' <=> Carries(v)
                         /\ pc'[v] = "release" => v # w /\ pc[v] = "release"
  BY DEF Goto, Carries, Placed, Typed, TypeOK
<1>2. \A i \in Invocations : Outstanding(i)' <=> Outstanding(i)
  BY DEF Outstanding
<1>3. OnePlace' /\ Accepted'
  BY <1>1, <1>2, StaysPlaced DEF Placed, Accepted
<1>4. Reported'
  BY <1>1 DEF Placed, Reported
<1> QED BY <1>3, <1>4

LEMMA WorkPlaced ==
    ASSUME Placed, NEW w \in Workers, Work(w)
    PROVE  OnePlace' /\ Reported' /\ Accepted'
<1> USE DEF Holding, Places, requestVars, answerVars
<1>1. pc[w] \in Places /\ \A v \in Workers : Carries(v) <=> pc[v] \in Holding \ {"release"}
  BY DEF Placed, Typed, TypeOK, Carries
<1>2. CASE Boot(w)
  BY <1>1, <1>2, QuietPlaced DEF Boot
<1>3. CASE ReadAssignment(w)
  <2>1. CASE Dies(w)
    BY <1>3, <2>1, DiesPlaced DEF ReadAssignment
  <2>2. CASE Goto(w, "listen") /\ UNCHANGED <<hand, answerVars>>
    BY <1>1, <1>3, <2>2, QuietPlaced DEF ReadAssignment
  <2> QED BY <1>3, <2>1, <2>2 DEF ReadAssignment
<1>4. CASE BeatListening(w)
  <2>1. CASE Dies(w)
    BY <1>4, <2>1, DiesPlaced DEF BeatListening
  <2>2. CASE Goto(w, "pop") /\ UNCHANGED <<hand, answerVars>>
    BY <1>1, <1>4, <2>2, QuietPlaced DEF BeatListening
  <2> QED BY <1>4, <2>1, <2>2 DEF BeatListening
<1>5. CASE Pop(w)
  <2>1. CASE queue[BuildOf(w)] = <<>>
    BY <1>1, <1>5, <2>1, QuietPlaced DEF Pop
  <2>2. CASE queue[BuildOf(w)] # <<>>
    <3>1. OnePlace'
      BY <1>5, <2>2, PoppedOnce
    <3>2. \A v \in Workers : pc'[v] = "release" =>
                              pc[v] = "release" /\ hand'[v] = hand[v]
      BY <1>5, <2>2 DEF Pop, Goto, Placed, Typed, TypeOK
    <3> QED BY <1>5, <3>1, <3>2 DEF Pop, Placed, Reported, Accepted
  <2> QED BY <2>1, <2>2
<1>6. CASE Claim(w)
  BY <1>1, <1>6, QuietPlaced DEF Claim
<1>7. CASE Requeue(w)
  <2>1. OnePlace'
    BY <1>7, RequeuedOnce
  <2>2. \A v \in Workers : pc'[v] = "release" =>
                            pc[v] = "release" /\ hand'[v] = hand[v]
    BY <1>7 DEF Requeue, Goto, Placed, Typed, TypeOK
  <2> QED BY <1>7, <2>1, <2>2 DEF Requeue, Placed, Reported, Accepted
<1>8. CASE Check(w) \/ Run(w)
  <2>1. CASE Answer(w)
    BY <1>8, <2>1, AnswerPlaced DEF Check, Run
  <2>2. CASE pc[w] = "check" /\ Goto(w, "run") /\ UNCHANGED answerVars
    BY <1>1, <1>8, <2>2, QuietPlaced DEF Check, Run
  <2> QED BY <1>8, <2>1, <2>2 DEF Check, Run
<1>9. CASE Release(w)
  <2>1. \A v \in Workers : hand'[v] = hand[v] \/ (v = w /\ ~Carries(w))
    BY <1>1, <1>9 DEF Release, Placed, Typed, TypeOK
  <2> QED BY <1>1, <1>9, <2>1, QuietPlaced DEF Release
<1> QED BY <1>2, <1>3, <1>4, <1>5, <1>6, <1>7, <1>8, <1>9 DEF Work

LEMMA PlacedStep == Placed /\ [Next]_vars => Placed'
<1> SUFFICES ASSUME Placed, [Next]_vars PROVE OnePlace' /\ Reported' /\ Accepted'
  BY TypedStep DEF Placed
<1> USE DEF requestVars, workerVars, answerVars
<1>1. ASSUME UNCHANGED <<queue, pc, hand, answered, dropped>>,
             \A i \in Invocations : request'[i] = request[i]
                  \/ (request[i] = "new" /\ request'[i] \in {"routed", "refused"})
                  \/ (request[i] = "waiting" /\ request'[i] = "ended")
      PROVE  OnePlace' /\ Reported' /\ Accepted'
  <2>1. \A i \in Invocations : Outstanding(i)' <=> Outstanding(i)
    BY <1>1 DEF Outstanding
  <2>2. \A w \in Workers : Carries(w)' <=> Carries(w)
    BY <1>1 DEF Carries
  <2>3. OnePlace' /\ Reported'
    BY <1>1, <2>1, <2>2, StaysPlaced DEF Placed, Reported
  <2>4. Accepted'
    BY <1>1 DEF Placed, Accepted, Typed, TypeOK
  <2> QED BY <2>3, <2>4
<1>2. ASSUME NEW i \in Invocations, Route(i) \/ Receive(i) \/ GiveUp(i)
      PROVE  OnePlace' /\ Reported' /\ Accepted'
  BY <1>1, <1>2 DEF Route, Receive, GiveUp, EndRequest, Placed, Typed, TypeOK
<1>3. ASSUME NEW i \in Invocations, Push(i)
      PROVE  OnePlace' /\ Reported' /\ Accepted'
  <2>1. \A j \in Invocations : request'[j] = request[j] \/ request'[j] = "waiting"
    BY <1>3 DEF Push, Placed, Typed, TypeOK
  <2> QED BY <1>3, <2>1, PushedOnce DEF Push, Placed, Reported, Accepted, Typed, TypeOK
<1>4. ASSUME NEW w \in Workers, Work(w)
      PROVE  OnePlace' /\ Reported' /\ Accepted'
  BY <1>4, WorkPlaced
<1>5. ASSUME NEW w \in Workers, Crash(w) \/ Remove(w)
      PROVE  OnePlace' /\ Reported' /\ Accepted'
  BY <1>5, DiesPlaced DEF Crash, Remove
<1>6. ASSUME NEW w \in Workers, Expire(w) \/ Look(w) \/ Block(w) \/ KeepDraining(w)
      PROVE  OnePlace' /\ Reported' /\ Accepted'
  BY <1>1, <1>6 DEF Expire, Look, Block, KeepDraining
<1>7. CASE Promote \/ DeleteEndpoint \/ (\E b \in Builds : Supersede(b)) \/ UNCHANGED vars
  BY <1>1, <1>7 DEF Promote, DeleteEndpoint, Supersede, vars
<1> QED BY <1>2, <1>3, <1>4, <1>5, <1>6, <1>7 DEF Next, Handle, Reconcile

LEMMA InitPlaced == Init => Placed
<1> SUFFICES ASSUME Init PROVE OnePlace /\ Reported /\ Accepted
  BY InitTyped DEF Placed
<1>1. \A b \in Builds : Range(queue[b]) = {} /\ IsInjective(queue[b])
  BY DEF Init, Range, IsInjective
<1>2. \A w \in Workers : ~Carries(w) /\ pc[w] # "release"
  BY DEF Init, Carries, Holding
<1>3. \A i \in Invocations : ~Outstanding(i) /\ ~InSomeQueue(i) /\ ~InSomeHand(i)
  BY <1>1, <1>2 DEF Init, Outstanding, InSomeQueue, InSomeHand
<1> QED BY <1>1, <1>2, <1>3 DEF Init, OnePlace, Reported, Accepted

(* OnePlace in the terms of the property. *)
LEMMA PlacedIsHandled == Placed => HandledOnce
<1> SUFFICES ASSUME Placed, NEW i \in Invocations
             PROVE  IF Outstanding(i) THEN \E place \in PlacesOf(i) : PlacesOf(i) = {place}
                    ELSE PlacesOf(i) = {}
  BY DEF HandledOnce
<1>1. \A w \in Workers : hand[w] = i /\ pc[w] # "release" <=> Carries(w) /\ hand[w] = i
  BY ConstantsAssumption DEF ConstantsAssumption, Placed, Typed, TypeOK, HandIsUsed, Carries
<1>2. \A p : p \in PlacesOf(i) <=>
               \/ \E b \in Builds : \E k \in DOMAIN queue[b] :
                    p = <<b, k>> /\ queue[b][k] = i
               \/ \E w \in Workers : p = <<w, 0>> /\ Carries(w) /\ hand[w] = i
  <2> DEFINE Slots(b) == {b} \X {k \in DOMAIN queue[b] : queue[b][k] = i}
             Hands == {v \in Workers : hand[v] = i /\ pc[v] # "release"} \X {0}
  <2>1. PlacesOf(i) = (UNION {Slots(b) : b \in Builds}) \cup Hands
    BY DEF PlacesOf
  <2>2. \A p, b : p \in Slots(b)
                 <=> \E k \in DOMAIN queue[b] : p = <<b, k>> /\ queue[b][k] = i
    OBVIOUS
  <2>3. \A p : p \in Hands <=> \E w \in Workers : p = <<w, 0>> /\ Carries(w) /\ hand[w] = i
    BY <1>1
  <2> HIDE DEF Slots, Hands
  <2>4. \A p : p \in PlacesOf(i) <=> (\E b \in Builds : p \in Slots(b)) \/ p \in Hands
    BY <2>1
  <2> QED BY <2>2, <2>3, <2>4
<1>3. CASE ~Outstanding(i)
  <2>1. ~InSomeQueue(i) /\ ~InSomeHand(i)
    BY <1>3 DEF Placed, OnePlace
  <2>2. \A p : p \notin PlacesOf(i)
    BY <1>2, <2>1 DEF InSomeQueue, InSomeHand, Range
  <2> QED BY <1>3, <2>2
<1>4. CASE Outstanding(i) /\ InSomeQueue(i)
  <2>1. PICK b \in Builds : i \in Range(queue[b])
    BY <1>4 DEF InSomeQueue
  <2>2. PICK k \in DOMAIN queue[b] : queue[b][k] = i
    BY <2>1 DEF Range
  <2>3. ~InSomeHand(i)
    BY <1>4 DEF Placed, OnePlace
  <2>4. \A c \in Builds : \A l \in DOMAIN queue[c] : queue[c][l] = i => c = b
    BY <2>1 DEF Placed, OnePlace, Range
  <2>5. \A l \in DOMAIN queue[b] : queue[b][l] = i => l = k
    BY <2>2 DEF Placed, OnePlace, IsInjective
  <2>6. \A p : p \in PlacesOf(i) <=> p = <<b, k>>
    BY <1>2, <2>2, <2>3, <2>4, <2>5 DEF InSomeHand
  <2>7. PlacesOf(i) = {<<b, k>>}
    BY <2>6
  <2> QED BY <1>4, <2>7
<1>5. CASE Outstanding(i) /\ ~InSomeQueue(i)
  <2>1. InSomeHand(i)
    BY <1>5 DEF Placed, OnePlace
  <2>2. PICK w \in Workers : Carries(w) /\ hand[w] = i
    BY <2>1 DEF InSomeHand
  <2>3. \A v \in Workers : Carries(v) /\ hand[v] = i => v = w
    BY <2>2 DEF Placed, OnePlace
  <2>4. \A p : p \in PlacesOf(i) <=> p = <<w, 0>>
    BY <1>2, <1>5, <2>2, <2>3 DEF InSomeQueue, Range
  <2>5. PlacesOf(i) = {<<w, 0>>}
    BY <2>4
  <2> QED BY <1>5, <2>5
<1> QED BY <1>3, <1>4, <1>5

(* Whatever is popped, refused, put back, answered or dropped, an accepted   *)
(* invocation that is not settled is in exactly one queue or hand, and a     *)
(* settled one in none.                                                     *)
THEOREM EachHandledOnce == Spec => []HandledOnce
BY InitPlaced, PlacedStep, PlacedIsHandled, PTL DEF Spec

-------------------------------------------------------------------------------
(* The answer is heard. *)

LEMMA HeardStep == Placed /\ Heard /\ [Next]_vars => Heard'
<1> SUFFICES ASSUME Placed, Listened, AnswerIsHeard, [Next]_vars PROVE Heard'
  BY DEF Heard
<1> USE DEF requestVars, answerVars
<1>1. ASSUME UNCHANGED <<request, subscribed, heard, answered>>
      PROVE  Heard'
  BY <1>1 DEF Heard, Listened, AnswerIsHeard
<1>2. ASSUME NEW i \in Invocations, Route(i)
      PROVE  Heard'
  BY <1>2 DEF Route, Heard, Listened, AnswerIsHeard, Placed, Typed, TypeOK
<1>3. ASSUME NEW i \in Invocations, Push(i)
      PROVE  Heard'
  <2>1. i \notin answered
    BY <1>3 DEF Push, Placed, Accepted
  <2> QED BY <1>3, <2>1 DEF Push, Heard, Listened, AnswerIsHeard, Placed, Typed, TypeOK
<1>4. ASSUME NEW i \in Invocations, EndRequest(i)
      PROVE  Heard'
  BY <1>4 DEF EndRequest, Heard, Listened, AnswerIsHeard, Placed, Typed, TypeOK
<1>5. ASSUME NEW w \in Workers, Answer(w), pc[w] \in {"check", "run"},
             UNCHANGED <<request, subscribed>>
      PROVE  Heard'
  <2>1. hand[w] \in Invocations
    BY <1>5 DEF Placed, Typed, TypeOK, HandIsUsed, Holding
  <2>2. answered' = answered \cup {hand[w]} /\ heard' = heard \cup ({hand[w]} \cap subscribed)
    BY <1>5 DEF Answer
  <2> QED BY <1>5, <2>1, <2>2 DEF Heard, Listened, AnswerIsHeard
<1>6. ASSUME NEW w \in Workers, Dies(w), UNCHANGED <<request, subscribed>>
      PROVE  Heard'
  BY <1>1, <1>6 DEF Dies
<1>7. ASSUME NEW w \in Workers, Work(w)
      PROVE  Heard'
  BY <1>1, <1>5, <1>6, <1>7
     DEF Work, Boot, ReadAssignment, BeatListening, Pop, Claim, Requeue, Check, Run, Release
<1>8. ASSUME NEW w \in Workers, Crash(w) \/ Expire(w) \/ Reconcile(w)
      PROVE  Heard'
  BY <1>1, <1>6, <1>8 DEF Crash, Expire, Reconcile, Look, Block, KeepDraining, Remove
<1>9. CASE Promote \/ DeleteEndpoint \/ (\E b \in Builds : Supersede(b)) \/ UNCHANGED vars
  BY <1>1, <1>9 DEF Promote, DeleteEndpoint, Supersede, vars
<1> QED BY <1>2, <1>3, <1>4, <1>7, <1>8, <1>9 DEF Next, Handle, Receive, GiveUp

(* No order of subscription, push, answer and end of a request leaves one    *)
(* waiting whose answer was published to nobody.                            *)
THEOREM AnswersAreHeard == Spec => []AnswerIsHeard
<1>1. Init => Heard
  BY DEF Init, Heard, Listened, AnswerIsHeard
<1>2. Heard => AnswerIsHeard
  BY DEF Heard
<1> QED BY <1>1, <1>2, HeardStep, InitPlaced, PlacedStep, PTL DEF Spec

-------------------------------------------------------------------------------
(* The drain. *)

LEMMA DrainStep == TypeOK /\ DrainBlocksClaims /\ [Next]_vars => DrainBlocksClaims'
<1> SUFFICES ASSUME TypeOK, DrainBlocksClaims, [Next]_vars PROVE DrainBlocksClaims'
  OBVIOUS
<1> USE DEF registryVars, drainVars
<1>1. ASSUME UNCHANGED <<drainVars, assigned>>,
             \A v \in Workers : status'[v] # "running" \/ status'[v] = status[v]
                                                       \/ v \in assigned
      PROVE  DrainBlocksClaims'
  BY <1>1 DEF DrainBlocksClaims, TypeOK
<1>2. ASSUME NEW i \in Invocations, Route(i) \/ Handle(i) \/ GiveUp(i)
      PROVE  DrainBlocksClaims'
  BY <1>1, <1>2 DEF Route, Handle, Push, Receive, GiveUp, EndRequest
<1>3. ASSUME NEW w \in Workers, Boot(w)
      PROVE  DrainBlocksClaims'
  BY <1>3 DEF Boot, DrainBlocksClaims, TypeOK
<1>4. ASSUME NEW w \in Workers, Work(w), ~Boot(w)
      PROVE  DrainBlocksClaims'
  <2>1. UNCHANGED <<drainVars, assigned>>
    BY <1>4 DEF Work, ReadAssignment, BeatListening, Pop, Claim, Requeue, Check, Run, Release,
                SetRow
  <2>2. \A v \in Workers : status'[v] # "running" \/ status'[v] = status[v] \/ v \in assigned
    BY <1>4 DEF Work, ReadAssignment, BeatListening, Pop, Claim, Claimable, Requeue, Check, Run,
                Release, SetRow, TypeOK
  <2> QED BY <1>1, <2>1, <2>2
<1>5. ASSUME NEW w \in Workers, Crash(w) \/ Expire(w)
      PROVE  DrainBlocksClaims'
  BY <1>1, <1>5 DEF Crash, Expire, TypeOK
<1>6. ASSUME NEW w \in Workers, Reconcile(w)
      PROVE  DrainBlocksClaims'
  BY <1>6 DEF Reconcile, Look, Block, KeepDraining, Remove, DrainBlocksClaims, TypeOK
<1>7. CASE DeleteEndpoint
  BY <1>7 DEF DeleteEndpoint, DrainBlocksClaims, TypeOK
<1>8. CASE Promote \/ (\E b \in Builds : Supersede(b)) \/ UNCHANGED vars
  BY <1>1, <1>8 DEF Promote, Supersede, vars
<1> QED BY <1>2, <1>3, <1>4, <1>5, <1>6, <1>7, <1>8 DEF Next

(* The order of the drain (block, look again in a later cycle, remove) and   *)
(* restarts of the worker never cut off an invocation that runs under a live *)
(* row, unless the drain has timed out.                                     *)
THEOREM DrainSparesWork == Spec => DrainSparesClaim
<1> DEFINE Spared ==
      \A w \in Workers :
         container[w] = "draining" /\ container'[w] = "removed"
         /\ pc[w] \in {"check", "run"} /\ status[w] = "running" =>
            look[w] = "busy" /\ faults' > faults
<1>1. Init => DrainBlocksClaims
  BY DEF Init, DrainBlocksClaims
<1>2. TypeOK /\ DrainBlocksClaims /\ [Next]_vars => [Spared]_vars
  <2> SUFFICES ASSUME TypeOK, DrainBlocksClaims, [Next]_vars, NEW w \in Workers,
                      container[w] = "draining", container'[w] = "removed",
                      status[w] = "running"
               PROVE  look[w] = "busy" /\ faults' > faults
    OBVIOUS
  <2>1. Remove(w)
    <3> USE DEF drainVars, TypeOK
    <3>1. ASSUME NEW i \in Invocations, Route(i) \/ Handle(i) \/ GiveUp(i)
          PROVE  FALSE
      BY <3>1 DEF Route, Handle, Push, Receive, GiveUp, EndRequest
    <3>2. ASSUME NEW v \in Workers, Work(v) \/ Crash(v) \/ Expire(v)
          PROVE  FALSE
      BY <3>2 DEF Work, Boot, ReadAssignment, BeatListening, Pop, Claim, Requeue, Check, Run,
                  Release, Crash, Expire
    <3>3. ASSUME NEW v \in Workers, Reconcile(v)
          PROVE  v = w /\ Remove(v)
      BY <3>3 DEF Reconcile, Look, Block, KeepDraining, Remove
    <3>4. CASE Promote \/ DeleteEndpoint \/ (\E b \in Builds : Supersede(b)) \/ UNCHANGED vars
      BY <3>4 DEF Promote, DeleteEndpoint, Supersede, vars
    <3> QED BY <3>1, <3>2, <3>3, <3>4 DEF Next
  <2>2. look[w] # "idle" /\ look[w] # "none"
    BY <2>1 DEF DrainBlocksClaims, Remove
  <2>3. look[w] = "busy" /\ Fault
    BY <2>1, <2>2 DEF Remove, TypeOK
  <2> QED BY <2>3 DEF Fault, TypeOK
<1>3. [][Spared]_vars => DrainSparesClaim
  BY PTL DEF DrainSparesClaim
<1> QED BY <1>1, <1>2, <1>3, InvocationTypes, DrainStep, PTL DEF Spec
===============================================================================
