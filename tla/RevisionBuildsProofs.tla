------------------------- MODULE RevisionBuildsProofs -------------------------
(* Theorems about RevisionBuilds for every value of its constants. *)
EXTENDS RevisionBuilds, FiniteSetTheorems, TLAPS

(* A process that works on a build holds the claim it works on. *)
ClaimHeld == \A i \in Instances : pc[i] \in Working => claim[i] \in Claims

TypeInv == TypeOK /\ ClaimHeld

-------------------------------------------------------------------------------
(* Each way a statement changes a row gives a row. *)

LEMMA InsertedRow ==
    ASSUME NEW x \in 1..MaxBase, NEW g \in 0..MaxGenerations
    PROVE  Inserted(x, g) \in Row /\ ClaimColumns(Inserted(x, g))
<1>1. x \in 0..MaxBase
  BY ConstantsAssumption DEF ConstantsAssumption
<1> QED BY <1>1 DEF Row, Inserted, NoRow, BuildStatuses, ClaimColumns

LEMMA ClaimedRow ==
    ASSUME NEW row \in Row, NEW i \in Instances
    PROVE  Claimed(row, i) \in Row /\ ClaimColumns(Claimed(row, i))
<1>1. row.attempt + 1 \in Nat
  BY DEF Row
<1>2. \A k \in Nat : [row EXCEPT !.status = "building", !.attempt = k,
                                 !.owner = i, !.leased = TRUE] \in Row
  BY DEF Row, BuildStatuses
<1>3. ClaimColumns(Claimed(row, i))
  BY ConstantsAssumption DEF ConstantsAssumption, Row, Claimed, ClaimColumns
<1> QED BY <1>1, <1>2, <1>3 DEF Claimed

LEMMA RequeuedRow ==
    ASSUME NEW row \in Row
    PROVE  Requeued(row) \in Row /\ ClaimColumns(Requeued(row))
BY DEF Requeued, Row, BuildStatuses, ClaimColumns

LEMMA FailedRow ==
    ASSUME NEW row \in Row
    PROVE  Failed(row) \in Row /\ ClaimColumns(Failed(row))
BY DEF Failed, Row, BuildStatuses, ClaimColumns

LEMMA PublishedRow ==
    ASSUME NEW row \in Row, NEW n \in Nat
    PROVE  Published(row, n) \in Row /\ ClaimColumns(Published(row, n))
BY DEF Published, Row, BuildStatuses, ClaimColumns

(* A row that changes its status and is not building keeps to the type. *)
LEMMA StatusRow ==
    ASSUME NEW row \in Row, ClaimColumns(row), row.status # "building",
           NEW s \in {"superseded", "pruned"}
    PROVE  /\ [row EXCEPT !.status = s] \in Row
           /\ ClaimColumns([row EXCEPT !.status = s])
BY ConstantsAssumption DEF ConstantsAssumption, Row, BuildStatuses, ClaimColumns

LEMMA LeasedRow ==
    ASSUME NEW row \in Row, ClaimColumns(row), row.status = "building",
           NEW l \in BOOLEAN
    PROVE  /\ [row EXCEPT !.leased = l] \in Row
           /\ ClaimColumns([row EXCEPT !.leased = l])
BY DEF Row, BuildStatuses, ClaimColumns

(* The part of TypeOK that Write changes. *)
TableOK ==
    /\ builds \in [Builds -> Row]
    /\ \A b \in Builds : ClaimColumns(builds[b])
    /\ before \subseteq Builds \X Builds

LEMMA WriteTable ==
    ASSUME NEW table, Write(table), table \in [Builds -> Row],
           \A b \in Builds : ClaimColumns(table[b])
    PROVE  TableOK'
BY DEF Write, TableOK

LEMMA SetTable ==
    ASSUME TableOK, NEW b \in Builds, NEW row \in Row, ClaimColumns(row),
           Set(b, row)
    PROVE  TableOK'
<1>1. [builds EXCEPT ![b] = row] \in [Builds -> Row]
  BY DEF TableOK
<1>2. \A c \in Builds : ClaimColumns([builds EXCEPT ![b] = row][c])
  BY DEF TableOK
<1> QED BY <1>1, <1>2, WriteTable DEF Set

-------------------------------------------------------------------------------
(* The type invariant. *)

LEMMA TypeInit == Init => TypeInv
<1> SUFFICES ASSUME Init PROVE TypeInv
  OBVIOUS
<1> USE ConstantsAssumption DEF ConstantsAssumption
<1>1. NoRow \in Row /\ ClaimColumns(NoRow)
  BY DEF NoRow, Row, BuildStatuses, ClaimColumns
<1>2. TypeOK
  BY <1>1 DEF Init, TypeOK, Places, Builds
<1>3. ClaimHeld
  BY DEF Init, ClaimHeld, Working
<1> QED BY <1>2, <1>3 DEF TypeInv

LEMMA ReconcileTableTypes ==
    ASSUME TypeInv, NEW x \in 1..MaxBase, NEW scope, ReconcileTable(scope, x)
    PROVE  TableOK'
<1> DEFINE T == [b \in Builds |->
                   IF Status(b) = "queued" /\ ~Eligible(b[1])
                   THEN Failed(builds[b])
                   ELSE IF b[1] \in scope /\ b[2] = 1
                   THEN Inserted(x, 0)
                   ELSE builds[b]]
<1>1. 0 \in 0..MaxGenerations
  BY ConstantsAssumption DEF ConstantsAssumption
<1>2. \A b \in Builds : T[b] \in Row /\ ClaimColumns(T[b])
  BY <1>1, FailedRow, InsertedRow DEF TypeInv, TypeOK
<1>3. T \in [Builds -> Row] /\ \A b \in Builds : ClaimColumns(T[b])
  BY <1>2
<1>4. Write(T)
  BY DEF ReconcileTable
<1> HIDE DEF T
<1> QED BY <1>3, <1>4, WriteTable

(* A reconcile is refused, or writes the table. *)
LEMMA ReconcileTypes ==
    ASSUME TypeInv, NEW s \in Reconcilers, NEW x \in 1..MaxBase, Reconcile(s, x)
    PROVE  TableOK' /\ missing' \in [Reconcilers -> SUBSET Revisions]
<1>1. CASE UNCHANGED <<builds, before>>
  BY <1>1 DEF TypeInv, TypeOK, TableOK, Reconcile
<1>2. CASE ReconcileTable(missing[s], x)
  BY <1>2, ReconcileTableTypes DEF TypeInv, TypeOK, Reconcile
<1> QED BY <1>1, <1>2 DEF Reconcile

LEMMA ReplaceTypes ==
    ASSUME TypeInv, NEW scope, NEW x \in 1..MaxBase,
           NEW parent, \A r \in scope : parent[r] \in 0..MaxGenerations,
           Replace(scope, x, parent)
    PROVE  TableOK'
<1> DEFINE T == [b \in Builds |->
                   IF b[1] \in scope /\ Active(b) THEN Failed(builds[b])
                   ELSE IF b[1] \in scope /\ NextGeneration(b)
                   THEN Inserted(x, parent[b[1]])
                   ELSE builds[b]]
<1>1. \A b \in Builds : T[b] \in Row /\ ClaimColumns(T[b])
  BY FailedRow, InsertedRow DEF TypeInv, TypeOK
<1>2. T \in [Builds -> Row] /\ \A b \in Builds : ClaimColumns(T[b])
  BY <1>1
<1>3. Write(T)
  BY DEF Replace
<1> HIDE DEF T
<1> QED BY <1>2, <1>3, WriteTable

LEMMA SettleTypes ==
    ASSUME TypeInv, NEW i \in Instances, NEW table, Settle(i, table),
           table \in [Builds -> Row],
           \A b \in Builds : ClaimColumns(table[b])
    PROVE  TypeInv'
<1>1. TableOK'
  BY WriteTable DEF Settle, TypeInv, TypeOK, TableOK
<1>2. TypeOK'
  BY <1>1 DEF Settle, TypeInv, TypeOK, TableOK, moduleVars, baseVars,
     requestVars, Goto, Places, Leading
<1>3. ClaimHeld'
  BY DEF Settle, TypeInv, TypeOK, ClaimHeld, Goto, Working
<1> QED BY <1>2, <1>3 DEF TypeInv

(* Actions that leave the table alone keep TypeOK if they keep the types of *)
(* what they change; the lemmas below take the others.                      *)
LEMMA RequestTypes ==
    ASSUME TypeInv,
           \/ \E r \in Revisions : NewRevision(r) \/ AbortRetry(r)
           \/ \E m \in Modules : \/ Validate(m) \/ Revoke(m)
                                 \/ BeginModuleBuild(m) \/ AbortModuleBuild(m)
           \/ \E b \in Builds : BeginRetry(b)
           \/ BeginRebuildAll \/ AbortRebuildAll \/ BackendSelect
           \/ Retag \/ SessionLost
    PROVE  TypeInv'
<1> USE ConstantsAssumption DEF ConstantsAssumption, TypeInv
<1>1. UNCHANGED <<builds, before, processVars>>
  BY DEF NewRevision, AbortRetry, Validate, Revoke, BeginModuleBuild,
     AbortModuleBuild, EndModuleBuild, BeginRetry, BeginRebuildAll,
     AbortRebuildAll, BackendSelect, Retag, SessionLost
<1>2. ClaimHeld'
  BY <1>1 DEF ClaimHeld, processVars
<1> DEFINE Table == /\ builds' \in [Builds -> Row]
                    /\ \A b \in Builds : ClaimColumns(builds'[b])
                    /\ before' \subseteq Builds \X Builds
<1>3. Table
  BY <1>1 DEF TypeOK
<1> HIDE DEF Table
<1>4. ASSUME NEW r \in Revisions, NewRevision(r) PROVE TypeOK'
  BY <1>4, <1>3 DEF TypeOK, NewRevision, baseVars, processVars, requestVars,
     Table
<1>5. ASSUME NEW r \in Revisions, AbortRetry(r) PROVE TypeOK'
  BY <1>5, <1>3 DEF TypeOK, AbortRetry, moduleVars, baseVars, processVars,
     Table
<1>6. ASSUME NEW m \in Modules, Validate(m) \/ Revoke(m) PROVE TypeOK'
  BY <1>6, <1>3 DEF TypeOK, Validate, Revoke, baseVars, processVars,
     requestVars, Table
<1>7. ASSUME NEW b \in Builds, BeginRetry(b) PROVE TypeOK'
  <2>1. [generation |-> b[2], base |-> base] \in RetryTx
    BY DEF TypeOK, RetryTx, Builds
  <2> QED BY <1>7, <1>3, <2>1 DEF TypeOK, BeginRetry, moduleVars, baseVars,
             processVars, Table, Builds
<1>8. ASSUME BeginRebuildAll PROVE TypeOK'
  <2>1. PICK latest \in [Revisions -> 0..MaxGenerations] :
          rebuild' = [base |-> base, scope |-> {r \in Revisions : Eligible(r)},
                      latest |-> latest]
    BY <1>8 DEF BeginRebuildAll
  <2>2. rebuild' \in RebuildTx
    BY <2>1 DEF TypeOK, RebuildTx
  <2> QED BY <1>8, <1>3, <2>2 DEF TypeOK, BeginRebuildAll, moduleVars,
             baseVars, processVars, Table
<1>9. ASSUME AbortRebuildAll PROVE TypeOK'
  BY <1>9, <1>3 DEF TypeOK, AbortRebuildAll, moduleVars, baseVars,
     processVars, Table
<1>10. ASSUME Retag PROVE TypeOK'
  BY <1>10, <1>3 DEF TypeOK, Retag, moduleVars, processVars, requestVars,
     Table
<1>11. ASSUME SessionLost PROVE TypeOK'
  BY <1>11, <1>3 DEF TypeOK, SessionLost, moduleVars, baseVars, processVars,
     requestVars, Table
<1>12. ASSUME NEW m \in Modules, BeginModuleBuild(m) PROVE TypeOK'
  <2>1. PICK n \in 0..MaxGenerations :
          enqueue' = [enqueue EXCEPT ![m] =
                       [revision |-> current[m], parent |-> n]]
    BY <1>12 DEF BeginModuleBuild
  <2>2. [revision |-> current[m], parent |-> n] \in ModuleTx
    BY <1>12 DEF BeginModuleBuild, TypeOK, ModuleTx
  <2>3. enqueue' \in [Modules -> ModuleTx \cup {None}]
    BY <2>1, <2>2 DEF TypeOK
  <2> QED BY <1>12, <1>3, <2>3 DEF TypeOK, BeginModuleBuild, moduleVars,
             baseVars, processVars, Table
<1>13. ASSUME NEW m \in Modules, AbortModuleBuild(m) PROVE TypeOK'
  BY <1>13, <1>3 DEF TypeOK, AbortModuleBuild, EndModuleBuild, moduleVars,
     baseVars, processVars, Table
<1>14. ASSUME BackendSelect PROVE TypeOK'
  <2>1. missing' \in [Reconcilers -> SUBSET Revisions]
    BY <1>14 DEF BackendSelect, SelectUnbuilt, TypeOK
  <2> QED BY <1>14, <1>3, <2>1 DEF TypeOK, BackendSelect, moduleVars,
             baseVars, processVars, Table
<1> QED BY <1>2, <1>4, <1>5, <1>6, <1>7, <1>8, <1>9, <1>10, <1>11, <1>12,
           <1>13, <1>14

(* A backend statement that writes the table and at most ends a request. *)
LEMMA TableOnly ==
    ASSUME TypeInv, TableOK',
           retry' \in [Revisions -> RetryTx \cup {None}],
           rebuild' \in RebuildTx \cup {None},
           enqueue' \in [Modules -> ModuleTx \cup {None}],
           missing' \in [Reconcilers -> SUBSET Revisions],
           UNCHANGED <<moduleVars, baseVars, lock, processVars, faults>>
    PROVE  TypeInv'
<1>1. TypeOK'
  BY DEF TypeInv, TypeOK, TableOK, moduleVars, baseVars, processVars
<1>2. ClaimHeld'
  BY DEF TypeInv, ClaimHeld, processVars
<1> QED BY <1>1, <1>2 DEF TypeInv

LEMMA BackendTypes == TypeInv /\ Backend => TypeInv'
<1> SUFFICES ASSUME TypeInv, Backend PROVE TypeInv'
  OBVIOUS
<1> USE ConstantsAssumption DEF ConstantsAssumption
<1>0. TableOK /\ base \in 1..MaxBase
      /\ retry \in [Revisions -> RetryTx \cup {None}]
      /\ rebuild \in RebuildTx \cup {None}
      /\ enqueue \in [Modules -> ModuleTx \cup {None}]
      /\ missing \in [Reconcilers -> SUBSET Revisions]
  BY DEF TypeInv, TypeOK, TableOK
<1>1. CASE BackendReconcile
  <2>1. TableOK' /\ missing' \in [Reconcilers -> SUBSET Revisions]
    BY <1>0, <1>1, ReconcileTypes DEF BackendReconcile, Reconcilers
  <2> QED BY <1>0, <1>1, <2>1, TableOnly DEF BackendReconcile
<1>2. ASSUME NEW m \in Modules, ApplyModuleBuild(m) PROVE TypeInv'
  <2> DEFINE r == enqueue[m].revision
  <2>1. enqueue[m] \in ModuleTx /\ r \in Revisions
        /\ enqueue[m].parent \in 0..MaxGenerations
    BY <1>0, <1>2 DEF ApplyModuleBuild, EndModuleBuild, ModuleTx
  <2>2. ASSUME InsertNext(m) PROVE TableOK'
    <3>1. PICK g \in Generations :
            Set(<<r, g>>, Inserted(base, enqueue[m].parent))
      BY <2>2 DEF InsertNext
    <3>2. <<r, g>> \in Builds
      BY <2>1 DEF Builds
    <3> QED BY <1>0, <2>1, <3>1, <3>2, InsertedRow, SetTable
  <2>3. TableOK'
    BY <1>0, <1>2, <2>2 DEF ApplyModuleBuild, TableOK
  <2> QED BY <1>0, <1>2, <2>3, TableOnly DEF ApplyModuleBuild, EndModuleBuild
<1>3. ASSUME NEW b \in Builds, PruneImage(b) PROVE TypeInv'
  <2>1. builds[b] \in Row /\ ClaimColumns(builds[b])
        /\ builds[b].status # "building"
    BY <1>0, <1>3 DEF TableOK, PruneImage, Status
  <2>2. Set(b, [builds[b] EXCEPT !.status = "pruned"])
    BY <1>3 DEF PruneImage
  <2>3. TableOK'
    BY <1>0, <2>1, <2>2, StatusRow, SetTable
  <2> QED BY <1>0, <1>3, <2>3, TableOnly DEF PruneImage, requestVars
<1>4. ASSUME NEW b \in Builds, LeaseExpires(b) PROVE TypeInv'
  <2>1. builds[b] \in Row /\ ClaimColumns(builds[b])
        /\ builds[b].status = "building"
    BY <1>0, <1>4 DEF TableOK, LeaseExpires, Status
  <2>2. Set(b, [builds[b] EXCEPT !.leased = FALSE])
    BY <1>4 DEF LeaseExpires
  <2>3. TableOK'
    BY <1>0, <2>1, <2>2, LeasedRow, SetTable
  <2> QED BY <1>0, <1>4, <2>3, TableOnly DEF LeaseExpires, requestVars
<1>5. ASSUME NEW r \in Revisions, ApplyRetry(r) PROVE TypeInv'
  <2>1. retry[r] \in RetryTx
    BY <1>0, <1>5 DEF ApplyRetry
  <2>2. CASE AlreadyRetried(r) /\ UNCHANGED <<builds, before>>
    <3>1. TableOK'
      BY <1>0, <2>2 DEF TableOK
    <3> QED BY <1>0, <1>5, <3>1, TableOnly DEF ApplyRetry
  <2>3. CASE Replace({r}, retry[r].base,
                     [x \in {r} |-> retry[x].generation])
    <3>1. retry[r].base \in 1..MaxBase
          /\ retry[r].generation \in 0..MaxGenerations
      BY <2>1 DEF RetryTx, Generations
    <3>2. TableOK'
      BY <2>3, <3>1, ReplaceTypes
    <3> QED BY <1>0, <1>5, <3>2, TableOnly DEF ApplyRetry
  <2> QED BY <1>5, <2>2, <2>3 DEF ApplyRetry
<1>6. CASE ApplyRebuildAll
  <2>1. rebuild \in RebuildTx
    BY <1>0, <1>6 DEF ApplyRebuildAll
  <2>2. rebuild.base \in 1..MaxBase
        /\ \A r \in rebuild.scope : rebuild.latest[r] \in 0..MaxGenerations
    BY <2>1 DEF RebuildTx
  <2>3. Replace(rebuild.scope, rebuild.base, rebuild.latest)
    BY <1>6 DEF ApplyRebuildAll
  <2>4. TableOK'
    BY <2>2, <2>3, ReplaceTypes
  <2> QED BY <1>0, <1>6, <2>4, TableOnly DEF ApplyRebuildAll
<1> QED BY <1>1, <1>2, <1>3, <1>4, <1>5, <1>6, RequestTypes DEF Backend

(* A step of a deployer process keeps the type invariant if it keeps the   *)
(* table's and its own: what it changes of its own is typed below.         *)
LEMMA ProcessOnly ==
    ASSUME TypeInv, TableOK',
           UNCHANGED <<moduleVars, tag, retry, rebuild, enqueue>>,
           missing' \in [Reconcilers -> SUBSET Revisions],
           base' \in 1..MaxBase, lock' \in Instances \cup {None},
           pc' \in [Instances -> Places],
           stopping' \in [Instances -> BOOLEAN],
           bootBase' \in [Instances -> 1..MaxBase],
           claim' \in [Instances -> Claims \cup {None}],
           outcome' \in [Instances ->
                           {"none", "running", "ready", "failed", "crashed"}],
           faults' \in 0..MaxFaults,
           ClaimHeld'
    PROVE  TypeInv'
BY DEF TypeInv, TypeOK, TableOK, moduleVars

LEMMA ProcessTypes ==
    ASSUME TypeInv, NEW i \in Instances, Process(i)
    PROVE  TypeInv'
<1> USE ConstantsAssumption DEF ConstantsAssumption
<1>0. TableOK /\ TypeOK /\ ClaimHeld
  BY DEF TypeInv, TypeOK, TableOK
<1>1. Released(i) \in Instances \cup {None}
  BY <1>0 DEF TypeOK, Released
<1>2. CASE Start(i)
  <2>1. TableOK' /\ ClaimHeld'
    BY <1>0, <1>2 DEF Start, TableOK, TypeOK, ClaimHeld, Goto, Working
  <2> QED BY <1>0, <1>2, <2>1, ProcessOnly
          DEF Start, requestVars, TypeOK, Goto, Places, moduleVars
<1>3. CASE TryAcquireLeadership(i)
  <2>1. TableOK' /\ ClaimHeld'
    BY <1>0, <1>3 DEF TryAcquireLeadership, TableOK, TypeOK, ClaimHeld, Goto,
       Working
  <2> QED BY <1>0, <1>3, <2>1, ProcessOnly
          DEF TryAcquireLeadership, requestVars, TypeOK, Goto, Places, Leading, baseVars
<1>4. CASE RecoverExpiredClaims(i)
  <2> DEFINE T == [b \in Builds |->
                     IF Status(b) = "building" /\ ~builds[b].leased
                     THEN Requeued(builds[b]) ELSE builds[b]]
  <2>1. \A b \in Builds : T[b] \in Row /\ ClaimColumns(T[b])
    BY <1>0, RequeuedRow DEF TableOK
  <2>2. Write(T) /\ T \in [Builds -> Row]
        /\ \A b \in Builds : ClaimColumns(T[b])
    BY <1>4, <2>1 DEF RecoverExpiredClaims
  <2> HIDE DEF T
  <2>3. TableOK'
    BY <2>2, WriteTable
  <2>4. ClaimHeld'
    BY <1>0, <1>4 DEF RecoverExpiredClaims, TypeOK, ClaimHeld, Goto, Working
  <2> QED BY <1>0, <1>4, <2>3, <2>4, ProcessOnly
          DEF RecoverExpiredClaims, requestVars, TypeOK, Goto, Places, Leading, baseVars
<1>5. CASE ReconcileEligibleRevisions(i)
  <2>1. TableOK' /\ missing' \in [Reconcilers -> SUBSET Revisions]
    BY <1>0, <1>5, ReconcileTypes
       DEF ReconcileEligibleRevisions, TypeOK, Reconcilers
  <2>2. ClaimHeld'
    BY <1>0, <1>5 DEF ReconcileEligibleRevisions, TypeOK, ClaimHeld, Goto,
       Working
  <2> QED BY <1>0, <1>5, <2>1, <2>2, ProcessOnly
          DEF ReconcileEligibleRevisions, TypeOK, Goto, Places, Leading,
              baseVars
<1>12. CASE ReconcileSelect(i)
  <2>1. TableOK' /\ ClaimHeld'
    BY <1>0, <1>12 DEF ReconcileSelect, TableOK, TypeOK, ClaimHeld, Goto,
       Working
  <2>2. missing' \in [Reconcilers -> SUBSET Revisions]
    BY <1>0, <1>12 DEF ReconcileSelect, SelectUnbuilt, TypeOK
  <2> QED BY <1>0, <1>12, <2>1, <2>2, ProcessOnly
          DEF ReconcileSelect, TypeOK, Goto, Places, Leading, baseVars
<1>6. CASE ClaimNext(i)
  <2>1. CASE Candidates = {} /\ Goto(i, "recover")
             /\ UNCHANGED <<builds, before, claim, outcome>>
    <3>1. TableOK' /\ ClaimHeld'
      BY <1>0, <2>1 DEF TableOK, TypeOK, ClaimHeld, Goto, Working
    <3> QED BY <1>0, <1>6, <2>1, <3>1, ProcessOnly
            DEF ClaimNext, requestVars, TypeOK, Goto, Places, Leading, baseVars
  <2>2. ASSUME NEW b \in Candidates, Set(b, Claimed(builds[b], i)),
               claim' = [claim EXCEPT ![i] =
                           [build |-> b, attempt |-> builds[b].attempt + 1]],
               outcome' = [outcome EXCEPT ![i] = "running"],
               Goto(i, "watch")
        PROVE  TypeInv'
    <3>1. b \in Builds
      BY DEF Candidates
    <3>2. builds[b] \in Row
      BY <1>0, <3>1 DEF TableOK
    <3>3. builds[b].attempt + 1 \in Nat
      BY <3>2 DEF Row
    <3>4. [build |-> b, attempt |-> builds[b].attempt + 1] \in Claims
      BY <3>1, <3>3 DEF Claims
    <3>5. TableOK'
      BY <1>0, <2>2, <3>1, <3>2, ClaimedRow, SetTable
    <3>6. claim' \in [Instances -> Claims \cup {None}]
      BY <1>0, <2>2, <3>4 DEF TypeOK
    <3>7. ClaimHeld'
      BY <1>0, <2>2, <3>4 DEF TypeOK, ClaimHeld, Goto
    <3> QED BY <1>0, <1>6, <2>2, <3>5, <3>6, <3>7, ProcessOnly
            DEF ClaimNext, requestVars, TypeOK, Goto, Places, Leading, Working, baseVars
  <2> QED BY <1>6, <2>1, <2>2 DEF ClaimNext
<1>7. CASE WatchBuild(i)
  <2>1. TableOK' /\ ClaimHeld'
    BY <1>0, <1>7 DEF WatchBuild, TableOK, TypeOK, ClaimHeld, Goto, Working
  <2> QED BY <1>0, <1>7, <2>1, ProcessOnly
          DEF WatchBuild, requestVars, TypeOK, Goto, Places, Leading, Working, baseVars
<1>8. CASE RenewClaim(i)
  <2>1. claim[i] \in Claims /\ claim[i].build \in Builds
    BY <1>0, <1>8 DEF RenewClaim, ClaimHeld, Working, Claims
  <2>2. ASSUME Owns(i) PROVE TableOK'
    <3>1. builds[claim[i].build] \in Row
          /\ ClaimColumns(builds[claim[i].build])
          /\ builds[claim[i].build].status = "building"
      BY <1>0, <2>1, <2>2 DEF TableOK, Owns, Status
    <3>2. Set(claim[i].build, [builds[claim[i].build] EXCEPT !.leased = TRUE])
      BY <1>8, <2>2 DEF RenewClaim
    <3> QED BY <1>0, <2>1, <3>1, <3>2, LeasedRow, SetTable
  <2>3. ASSUME ~Owns(i) PROVE TableOK'
    <3>1. UNCHANGED <<builds, before>>
      BY <1>8, <2>3 DEF RenewClaim
    <3> QED BY <1>0, <3>1 DEF TableOK
  <2>4. TableOK'
    BY <2>2, <2>3
  <2>5. ClaimHeld'
    BY <1>0, <1>8, <2>1 DEF RenewClaim, TypeOK, ClaimHeld, Goto, Working
  <2> QED BY <1>0, <1>8, <2>4, <2>5, ProcessOnly
          DEF RenewClaim, requestVars, TypeOK, Goto, Places, Leading, Working, baseVars
<1>9. CASE ReleaseClaim(i) \/ FailClaim(i) \/ CompleteClaim(i)
  <2>1. claim[i] \in Claims /\ claim[i].build \in Builds
        /\ claim[i].attempt \in Nat
    BY <1>0, <1>9 DEF ReleaseClaim, FailClaim, CompleteClaim, Settle,
       ClaimHeld, Working, Claims
  <2> DEFINE b == claim[i].build
  <2>2. builds[b] \in Row /\ ClaimColumns(builds[b])
    BY <1>0, <2>1 DEF TableOK
  <2> DEFINE Given(row) == [builds EXCEPT ![b] = row]
  <2>3. ASSUME NEW row \in Row, ClaimColumns(row), Settle(i, Given(row))
        PROVE  TypeInv'
    <3>1. Given(row) \in [Builds -> Row]
          /\ \A c \in Builds : ClaimColumns(Given(row)[c])
      BY <1>0, <2>1, <2>3 DEF TableOK
    <3> QED BY <2>3, <3>1, SettleTypes
  <2>4. CASE Settle(i, Given(Requeued(builds[b])))
    BY <2>2, <2>3, <2>4, RequeuedRow
  <2>5. CASE Settle(i, Given(Failed(builds[b])))
    BY <2>2, <2>3, <2>5, FailedRow
  <2>6. CASE Settle(i, Publish(i))
    <3>1. \A c \in Builds : Publish(i)[c] \in Row
                            /\ ClaimColumns(Publish(i)[c])
      BY <1>0, <2>1, <2>2, PublishedRow, StatusRow
         DEF Publish, TableOK, Status
    <3>2. Publish(i) \in [Builds -> Row]
      BY <3>1 DEF Publish
    <3> QED BY <2>6, <3>1, <3>2, SettleTypes
  <2> QED BY <1>9, <2>4, <2>5, <2>6
          DEF ReleaseClaim, FailClaim, CompleteClaim
<1>10. CASE Unwind(i)
  <2>1. TableOK' /\ ClaimHeld'
    BY <1>0, <1>10 DEF Unwind, TableOK, TypeOK, ClaimHeld, Goto, Working
  <2> QED BY <1>0, <1>1, <1>10, <2>1, ProcessOnly
          DEF Unwind, requestVars, TypeOK, Goto, Places, baseVars
<1>11. CASE Exit(i)
  <2>1. TableOK' /\ ClaimHeld'
    BY <1>0, <1>11 DEF Exit, TableOK, TypeOK, ClaimHeld, Goto, Working
  <2> QED BY <1>0, <1>1, <1>11, <2>1, ProcessOnly
          DEF Exit, requestVars, TypeOK, Goto, Places, baseVars
<1> QED BY <1>2, <1>3, <1>4, <1>5, <1>6, <1>7, <1>8, <1>9, <1>10, <1>11,
           <1>12 DEF Process

LEMMA EnvironmentTypes ==
    ASSUME TypeInv, NEW i \in Instances, Environment(i)
    PROVE  TypeInv'
<1> USE ConstantsAssumption DEF ConstantsAssumption
<1>0. TableOK /\ TypeOK /\ ClaimHeld
  BY DEF TypeInv, TypeOK, TableOK
<1>1. Released(i) \in Instances \cup {None}
  BY <1>0 DEF TypeOK, Released
<1>2. CASE BuilderEnds(i)
  <2>1. TableOK' /\ ClaimHeld'
    BY <1>0, <1>2 DEF BuilderEnds, TableOK, TypeOK, ClaimHeld
  <2> QED BY <1>0, <1>2, <2>1, ProcessOnly DEF BuilderEnds, requestVars, TypeOK, baseVars
<1>3. CASE CommandFails(i)
  <2>1. TableOK' /\ ClaimHeld'
    BY <1>0, <1>3 DEF CommandFails, TableOK, TypeOK, ClaimHeld, Goto, Working
  <2>2. faults' \in 0..MaxFaults
    BY <1>0, <1>3 DEF CommandFails, TypeOK
  <2> QED BY <1>0, <1>3, <2>1, <2>2, ProcessOnly
          DEF CommandFails, TypeOK, Goto, Places, baseVars
<1>4. CASE RequestStop(i)
  <2>1. TableOK' /\ ClaimHeld'
    BY <1>0, <1>4 DEF RequestStop, TableOK, TypeOK, ClaimHeld
  <2> QED BY <1>0, <1>4, <2>1, ProcessOnly DEF RequestStop, requestVars, TypeOK, baseVars
<1>5. CASE Crash(i)
  <2>1. TableOK' /\ ClaimHeld'
    BY <1>0, <1>5 DEF Crash, TableOK, TypeOK, ClaimHeld, Goto, Working
  <2>2. missing' \in [Reconcilers -> SUBSET Revisions]
    <3>1. missing' = [missing EXCEPT ![i] = {}]
      BY <1>5 DEF Crash
    <3>2. missing \in [Reconcilers -> SUBSET Revisions]
      BY <1>0 DEF TypeOK
    <3> QED BY <3>1, <3>2
  <2>4. faults' \in 0..MaxFaults
    BY <1>0, <1>5 DEF Crash, TypeOK
  <2>3. /\ pc' \in [Instances -> Places]
        /\ claim' \in [Instances -> Claims \cup {None}]
        /\ outcome' \in [Instances ->
                            {"none", "running", "ready", "failed", "crashed"}]
    BY <1>0, <1>5 DEF Crash, TypeOK, Goto, Places
  <2> QED BY <1>0, <1>1, <1>5, <2>1, <2>2, <2>3, <2>4, ProcessOnly
          DEF Crash, TypeOK, baseVars
<1> QED BY <1>2, <1>3, <1>4, <1>5 DEF Environment

LEMMA TypeStep == TypeInv /\ [Next]_vars => TypeInv'
<1> SUFFICES ASSUME TypeInv, [Next]_vars PROVE TypeInv'
  OBVIOUS
<1>1. CASE UNCHANGED vars
  <2>1. UNCHANGED <<builds, before, current, eligible, created, base, tag,
                    lock, pc, stopping, bootBase, claim, outcome>>
    BY <1>1 DEF vars, moduleVars, baseVars, processVars
  <2>2. UNCHANGED <<retry, rebuild, enqueue, missing, faults>>
    BY <1>1 DEF vars, requestVars
  <2>3. TypeOK'
    BY <2>1, <2>2 DEF TypeInv, TypeOK
  <2>4. ClaimHeld'
    BY <2>1 DEF TypeInv, ClaimHeld
  <2> QED BY <2>3, <2>4 DEF TypeInv
<1> QED BY <1>1, ProcessTypes, EnvironmentTypes, BackendTypes DEF Next

(* In every state every variable keeps its type and every row the claim    *)
(* columns its status calls for, whatever the constants are.               *)
THEOREM TypeCorrect == Spec => []TypeOK
<1>1. TypeInv => TypeOK
  BY DEF TypeInv
<1> QED BY <1>1, TypeInit, TypeStep, PTL DEF Spec

-------------------------------------------------------------------------------
(* What any step may do to a row: the safety properties follow from this   *)
(* alone, so each action is looked at once.                                *)

Kept(b) == builds'[b] = builds[b]

Dropped(b) == Active(b) /\ builds'[b] = Failed(builds[b])

Added(b) ==
    /\ NextGeneration(b)
    /\ \E x \in 1..MaxBase, g \in 0..MaxGenerations :
         builds'[b] = Inserted(x, g)
    /\ \A c \in Builds : c[1] = b[1] /\ c # b =>
         ~Active(c)' /\ (Kept(c) \/ Dropped(c))

Taken(b) ==
    /\ Status(b) = "queued"
    /\ \E i \in Instances : builds'[b] = Claimed(builds[b], i)
    /\ \A c \in Builds : Status(c) # "building"
    /\ \A c \in Builds \ {b} : Kept(c)

Returned(b) ==
    /\ Status(b) = "building" /\ builds'[b] = Requeued(builds[b])
    /\ \E i \in Instances :
         lock = i /\ (pc[i] = "recover" \/ (stopping[i] /\ claim'[i] = None))

Shown(b) ==
    /\ Status(b) = "building"
    /\ builds'[b] = Published(builds[b], builds[b].attempt)
    /\ \A c \in Builds \ {b} : c[1] = b[1] => Status(c)' # "ready"
    /\ Eligible(b[1])
    /\ \E i \in Instances : lock = i /\ builds[b].owner = i

Withdrawn(b) ==
    /\ Status(b) = "ready"
    /\ \/ /\ builds'[b] = [builds[b] EXCEPT !.status = "pruned"]
          /\ \A c \in Builds \ {b} : Kept(c)
          /\ Cardinality(RankedAbove(b)) >= (IF Retention < 2 THEN 2 ELSE Retention)
       \/ /\ builds'[b] = [builds[b] EXCEPT !.status = "superseded"]
          /\ \E c \in Builds : c[1] = b[1] /\ Shown(c)

LeaseSet(b) ==
    /\ Status(b) = "building"
    /\ \E l \in BOOLEAN : builds'[b] = [builds[b] EXCEPT !.leased = l]

RowStep(b) ==
    \/ Kept(b) \/ Added(b) \/ Taken(b) \/ Dropped(b) \/ Returned(b)
    \/ Shown(b) \/ Withdrawn(b) \/ LeaseSet(b)

TableStep == \A b \in Builds : RowStep(b)

LEMMA KeptTable == UNCHANGED builds => TableStep
BY DEF TableStep, RowStep, Kept

LEMMA SetRow ==
    ASSUME TableOK, NEW b \in Builds, NEW row, Set(b, row)
    PROVE  builds'[b] = row /\ \A c \in Builds \ {b} : Kept(c)
BY DEF TableOK, Set, Write, Kept

LEMMA ReconcileTableStep ==
    ASSUME TypeInv, NEW x \in 1..MaxBase, NEW scope, ReconcileTable(scope, x),
           \A r \in scope, g \in Generations : ~Exists(<<r, g>>)
    PROVE  TableStep
<1> SUFFICES ASSUME NEW b \in Builds PROVE RowStep(b)
  BY DEF TableStep
<1>1. builds' = [c \in Builds |->
                   IF Status(c) = "queued" /\ ~Eligible(c[1])
                   THEN Failed(builds[c])
                   ELSE IF c[1] \in scope /\ c[2] = 1
                   THEN Inserted(x, 0)
                   ELSE builds[c]]
  BY DEF ReconcileTable, Write
<1>2. CASE Status(b) = "queued" /\ ~Eligible(b[1])
  BY <1>1, <1>2 DEF RowStep, Dropped, Active
<1>3. CASE /\ ~(Status(b) = "queued" /\ ~Eligible(b[1]))
           /\ b[1] \in scope /\ b[2] = 1
  <2>1. builds'[b] = Inserted(x, 0)
    BY <1>1, <1>3
  <2>2. 0 \in 0..MaxGenerations
    BY ConstantsAssumption DEF ConstantsAssumption
  <2>3. \A c \in Builds : c[1] = b[1] => ~Exists(c)
    BY <1>3 DEF Builds
  <2>4. NextGeneration(b)
    BY <1>3, <2>3 DEF NextGeneration, Sibling, Builds, Generations
  <2>5. ASSUME NEW c \in Builds, c[1] = b[1], c # b PROVE ~Active(c)' /\ Kept(c)
    <3>1. c[2] \in Generations /\ c[2] # 1
      BY <1>3, <2>5 DEF Builds
    <3>2. builds'[c] = builds[c] /\ Status(c) = "absent"
      BY <1>1, <2>3, <2>5, <3>1 DEF Exists
    <3> QED BY <3>2 DEF Active, Status, Kept
  <2> QED BY <2>1, <2>2, <2>4, <2>5 DEF RowStep, Added
<1>4. CASE /\ ~(Status(b) = "queued" /\ ~Eligible(b[1]))
           /\ ~(b[1] \in scope /\ b[2] = 1)
  BY <1>1, <1>4 DEF RowStep, Kept
<1> QED BY <1>2, <1>3, <1>4

LEMMA ReconcileStep ==
    ASSUME TypeInv, NEW s \in Reconcilers, NEW x \in 1..MaxBase, Reconcile(s, x)
    PROVE  TableStep
<1>1. CASE UNCHANGED builds
  BY <1>1, KeptTable
<1>2. CASE ~InsertRefused(s) /\ ReconcileTable(missing[s], x)
  BY <1>2, ReconcileTableStep DEF InsertRefused
<1> QED BY <1>1, <1>2 DEF Reconcile

LEMMA ReplaceStep ==
    ASSUME TypeInv, NEW scope, NEW x \in 1..MaxBase,
           NEW parent, \A r \in scope : parent[r] \in 0..MaxGenerations,
           Replace(scope, x, parent)
    PROVE  TableStep
<1> SUFFICES ASSUME NEW b \in Builds PROVE RowStep(b)
  BY DEF TableStep
<1>1. builds' = [c \in Builds |->
                   IF c[1] \in scope /\ Active(c) THEN Failed(builds[c])
                   ELSE IF c[1] \in scope /\ NextGeneration(c)
                   THEN Inserted(x, parent[c[1]])
                   ELSE builds[c]]
  BY DEF Replace, Write
<1>2. CASE b[1] \in scope /\ Active(b)
  BY <1>1, <1>2 DEF RowStep, Dropped
<1>3. CASE b[1] \in scope /\ ~Active(b) /\ NextGeneration(b)
  <2>1. builds'[b] = Inserted(x, parent[b[1]])
    BY <1>1, <1>3
  <2>2. ASSUME NEW c \in Builds, c[1] = b[1], c # b
        PROVE  ~Active(c)' /\ (Kept(c) \/ Dropped(c))
    <3>1. CASE Active(c)
      <4>1. builds'[c] = Failed(builds[c])
        BY <1>1, <1>3, <2>2, <3>1
      <4>2. Failed(builds[c]).status = "failed"
        BY DEF TypeInv, TypeOK, Row, Failed
      <4> QED BY <3>1, <4>1, <4>2 DEF Active, Status, Dropped
    <3>2. CASE ~Active(c)
      <4>1. c[2] \in Generations /\ b[2] \in Generations /\ c[2] # b[2]
            /\ c = Sibling(b, c[2])
        BY <2>2 DEF Builds, Sibling
      <4>2. ~NextGeneration(c)
        <5>1. SUFFICES ASSUME NextGeneration(c) PROVE FALSE
          OBVIOUS
        <5>2. Sibling(c, b[2]) = b /\ Sibling(c, c[2]) = c
          BY <2>2 DEF Builds, Sibling
        <5>3. ~Exists(c) /\ ~Exists(b)
          BY <4>1, <5>1, <5>2, <1>3 DEF NextGeneration, Generations,
             Sibling, Builds
        <5>4. ~(b[2] < c[2]) /\ ~(c[2] < b[2])
          BY <4>1, <5>1, <5>2, <5>3, <1>3 DEF NextGeneration
        <5> QED BY <4>1, <5>4 DEF Generations
      <4>3. builds'[c] = builds[c]
        BY <1>1, <3>2, <4>2
      <4> QED BY <3>2, <4>3 DEF Active, Status, Kept
    <3> QED BY <3>1, <3>2
  <2> QED BY <1>3, <2>1, <2>2 DEF RowStep, Added
<1>4. CASE ~(b[1] \in scope /\ (Active(b) \/ NextGeneration(b)))
  BY <1>1, <1>4 DEF RowStep, Kept
<1> QED BY <1>2, <1>3, <1>4

(* The statement that ends a claim changes the claimed row, and the ready  *)
(* rows of its revision when it publishes.                                 *)
LEMMA SettleStep ==
    ASSUME TypeInv, NEW i \in Instances,
           ReleaseClaim(i) \/ FailClaim(i) \/ CompleteClaim(i)
    PROVE  TableStep
<1>1. claim[i].build \in Builds /\ TableOK
  BY DEF TypeInv, TypeOK, TableOK, ReleaseClaim, FailClaim, CompleteClaim,
     Settle, ClaimHeld, Working, Claims
<1>2. CASE ~Owns(i)
  BY <1>2, KeptTable DEF ReleaseClaim, FailClaim, CompleteClaim, Settle
<1>3. CASE Owns(i)
  <2> DEFINE b == claim[i].build
  <2>1. Status(b) = "building" /\ builds[b].owner = i
        /\ builds[b].attempt = claim[i].attempt
    BY <1>3 DEF Owns
  <2>2. ASSUME NEW row, Settle(i, [builds EXCEPT ![b] = row])
        PROVE  builds'[b] = row /\ \A c \in Builds \ {b} : Kept(c)
    <3>1. Set(b, row)
      BY <2>2, <1>3 DEF Settle, Set
    <3> QED BY <1>1, <3>1, SetRow
  <2>3. CASE ReleaseClaim(i)
    <3>1. Settle(i, [builds EXCEPT ![b] = Requeued(builds[b])])
      BY <2>3 DEF ReleaseClaim
    <3>2. stopping[i] /\ lock = i /\ claim'[i] = None
      BY <2>3, <3>1 DEF ReleaseClaim, Settle, TypeInv, TypeOK
    <3>3. Returned(b) /\ \A c \in Builds \ {b} : Kept(c)
      BY <2>1, <2>2, <3>1, <3>2 DEF Returned
    <3> QED BY <3>3 DEF TableStep, RowStep
  <2>4. CASE Settle(i, [builds EXCEPT ![b] = Failed(builds[b])])
    <3>1. Dropped(b) /\ \A c \in Builds \ {b} : Kept(c)
      BY <2>1, <2>2, <2>4 DEF Dropped, Active
    <3> QED BY <3>1 DEF TableStep, RowStep
  <2>5. CASE Settle(i, Publish(i)) /\ Eligible(b[1])
    <3>1. builds' = Publish(i) /\ lock = i
      BY <1>3, <2>5 DEF Settle, Write
    <3>2. builds'[b] = Published(builds[b], builds[b].attempt)
      BY <1>1, <2>1, <3>1 DEF Publish
    <3>3. ASSUME NEW c \in Builds \ {b}, c[1] = b[1], Status(c) = "ready"
          PROVE  /\ builds'[c] = [builds[c] EXCEPT !.status = "superseded"]
                 /\ Status(c)' = "superseded"
      <4>1. builds'[c] = [builds[c] EXCEPT !.status = "superseded"]
        BY <3>1, <3>3 DEF Publish
      <4>2. builds[c] \in Row
        BY <1>1 DEF TableOK
      <4> QED BY <4>1, <4>2 DEF Status, Row
    <3>4. ASSUME NEW c \in Builds \ {b},
                 ~(c[1] = b[1] /\ Status(c) = "ready")
          PROVE  Kept(c)
      BY <3>1, <3>4 DEF Publish, Kept
    <3>5. ASSUME NEW c \in Builds \ {b}, c[1] = b[1]
          PROVE  Status(c)' # "ready"
      BY <3>3, <3>4, <3>5 DEF Kept, Status
    <3>6. Shown(b)
      BY <2>1, <2>5, <3>1, <3>2, <3>5 DEF Shown
    <3>7. ASSUME NEW c \in Builds \ {b}, c[1] = b[1], Status(c) = "ready"
          PROVE  Withdrawn(c)
      BY <1>1, <3>3, <3>6, <3>7 DEF Withdrawn
    <3> QED BY <3>4, <3>6, <3>7 DEF TableStep, RowStep
  <2> QED BY <2>3, <2>4, <2>5 DEF ReleaseClaim, FailClaim, CompleteClaim
<1> QED BY <1>2, <1>3

LEMMA ProcessStep ==
    ASSUME TypeInv, NEW i \in Instances, Process(i)
    PROVE  TableStep
<1>0. TableOK
  BY DEF TypeInv, TypeOK, TableOK
<1>1. CASE Start(i) \/ TryAcquireLeadership(i) \/ ReconcileSelect(i)
           \/ WatchBuild(i) \/ Unwind(i) \/ Exit(i)
  BY <1>1, KeptTable DEF Start, TryAcquireLeadership, ReconcileSelect,
     WatchBuild, Unwind, Exit
<1>2. CASE RecoverExpiredClaims(i)
  <2>1. builds' = [b \in Builds |->
                     IF Status(b) = "building" /\ ~builds[b].leased
                     THEN Requeued(builds[b]) ELSE builds[b]]
    BY <1>2 DEF RecoverExpiredClaims, Write
  <2>2. lock = i /\ pc[i] = "recover"
    BY <1>2 DEF RecoverExpiredClaims
  <2> QED BY <2>1, <2>2 DEF TableStep, RowStep, Kept, Returned
<1>3. CASE ReconcileEligibleRevisions(i)
  BY <1>3, ReconcileStep
     DEF ReconcileEligibleRevisions, TypeInv, TypeOK, Reconcilers
<1>4. CASE ClaimNext(i)
  <2>1. ASSUME NEW b \in Candidates, Set(b, Claimed(builds[b], i))
        PROVE  TableStep
    <3>1. b \in Builds /\ Status(b) = "queued"
          /\ \A c \in Builds : Status(c) # "building"
      BY DEF Candidates
    <3>2. Taken(b) /\ \A c \in Builds \ {b} : Kept(c)
      BY <1>0, <2>1, <3>1, SetRow DEF Taken
    <3> QED BY <3>2 DEF TableStep, RowStep
  <2> QED BY <1>4, <2>1, KeptTable DEF ClaimNext
<1>5. CASE RenewClaim(i)
  <2>1. claim[i].build \in Builds
    BY <1>5 DEF TypeInv, RenewClaim, ClaimHeld, Working, Claims
  <2>2. ASSUME Owns(i) PROVE TableStep
    <3> DEFINE b == claim[i].build
    <3>1. Set(b, [builds[b] EXCEPT !.leased = TRUE])
      BY <1>5, <2>2 DEF RenewClaim
    <3>2. LeaseSet(b) /\ \A c \in Builds \ {b} : Kept(c)
      BY ZenonT(60), <1>0, <2>1, <2>2, <3>1, SetRow DEF LeaseSet, Owns
    <3> QED BY <3>2 DEF TableStep, RowStep
  <2> QED BY <1>5, <2>2, KeptTable DEF RenewClaim
<1> QED BY <1>1, <1>2, <1>3, <1>4, <1>5, SettleStep DEF Process

LEMMA BackendStep == TypeInv /\ Backend => TableStep
<1> SUFFICES ASSUME TypeInv, Backend PROVE TableStep
  OBVIOUS
<1>0. TableOK /\ base \in 1..MaxBase
  BY DEF TypeInv, TypeOK, TableOK
<1>1. CASE UNCHANGED builds
  BY <1>1, KeptTable
<1>2. CASE BackendReconcile
  BY <1>0, <1>2, ReconcileStep DEF BackendReconcile, Reconcilers
<1>3. ASSUME NEW m \in Modules, ApplyModuleBuild(m) PROVE TableStep
  <2> DEFINE r == enqueue[m].revision
  <2>1. enqueue[m] \in ModuleTx /\ r \in Revisions
        /\ enqueue[m].parent \in 0..MaxGenerations
    BY <1>3 DEF ApplyModuleBuild, EndModuleBuild, ModuleTx, TypeInv, TypeOK
  <2>2. ASSUME ~HasActive(r), InsertNext(m) PROVE TableStep
    <3>1. PICK g \in Generations :
            /\ NextGeneration(<<r, g>>)
            /\ Set(<<r, g>>, Inserted(base, enqueue[m].parent))
      BY <2>2 DEF InsertNext
    <3> DEFINE b == <<r, g>>
    <3>2. b \in Builds
      BY <2>1 DEF Builds
    <3>3. builds'[b] = Inserted(base, enqueue[m].parent)
          /\ \A c \in Builds \ {b} : Kept(c)
      BY <1>0, <3>1, <3>2, SetRow
    <3>4. ASSUME NEW c \in Builds, c[1] = b[1], c # b PROVE ~Active(c)' /\ Kept(c)
      <4>1. c[2] \in Generations /\ c = <<r, c[2]>>
        BY <3>4 DEF Builds
      <4>2. ~Active(c) /\ builds'[c] = builds[c]
        BY <2>2, <3>3, <3>4, <4>1 DEF Kept, HasActive
      <4> QED BY <4>2 DEF Active, Status, Kept
    <3>5. Added(b)
      BY <1>0, <2>1, <3>1, <3>2, <3>3, <3>4 DEF Added
    <3> QED BY <3>3, <3>5 DEF TableStep, RowStep
  <2> QED BY <1>1, <1>3, <2>2 DEF ApplyModuleBuild
<1>4. ASSUME NEW b \in Builds, PruneImage(b) PROVE TableStep
  <2>1. \A c \in Builds \ {b} : Kept(c)
    BY <1>0, <1>4, SetRow DEF PruneImage
  <2>2. Withdrawn(b)
    BY <1>0, <1>4, <2>1, SetRow DEF PruneImage, Withdrawn
  <2> QED BY <2>1, <2>2 DEF TableStep, RowStep
<1>5. ASSUME NEW b \in Builds, LeaseExpires(b) PROVE TableStep
  <2>1. LeaseSet(b) /\ \A c \in Builds \ {b} : Kept(c)
    BY <1>0, <1>5, SetRow DEF LeaseExpires, LeaseSet
  <2> QED BY <2>1 DEF TableStep, RowStep
<1>6. ASSUME NEW r \in Revisions, ApplyRetry(r) PROVE TableStep
  <2>1. ASSUME Replace({r}, retry[r].base,
                       [x \in {r} |-> retry[x].generation])
        PROVE  TableStep
    <3>1. retry[r] \in RetryTx
      BY <1>6 DEF ApplyRetry, TypeInv, TypeOK
    <3>2. retry[r].base \in 1..MaxBase
          /\ retry[r].generation \in 0..MaxGenerations
      BY <3>1, ConstantsAssumption
         DEF ConstantsAssumption, RetryTx, Generations
    <3> QED BY <2>1, <3>2, ReplaceStep
  <2> QED BY <1>1, <1>6, <2>1 DEF ApplyRetry
<1>7. CASE ApplyRebuildAll
  <2>1. rebuild \in RebuildTx
    BY <1>7 DEF ApplyRebuildAll, TypeInv, TypeOK
  <2>2. rebuild.base \in 1..MaxBase
        /\ \A r \in rebuild.scope : rebuild.latest[r] \in 0..MaxGenerations
    BY <2>1 DEF RebuildTx
  <2> QED BY <1>7, <2>2, ReplaceStep DEF ApplyRebuildAll
<1>8. CASE UNCHANGED <<builds, before>>
  BY <1>8, KeptTable
<1> QED BY <1>2, <1>3, <1>4, <1>5, <1>6, <1>7, <1>8
        DEF Backend, NewRevision, AbortRetry, Validate, Revoke,
            BeginModuleBuild, AbortModuleBuild, BackendSelect, BeginRetry,
            BeginRebuildAll, AbortRebuildAll, Retag, SessionLost

LEMMA RowSteps == TypeInv /\ [Next]_vars => TableStep
<1> SUFFICES ASSUME TypeInv, [Next]_vars PROVE TableStep
  OBVIOUS
<1>1. CASE UNCHANGED vars
  BY <1>1, KeptTable DEF vars
<1>2. ASSUME NEW i \in Instances, Environment(i) PROVE TableStep
  BY <1>2, KeptTable
     DEF Environment, BuilderEnds, CommandFails, RequestStop, Crash
<1> QED BY <1>1, <1>2, ProcessStep, BackendStep DEF Next

(* The status each kind of step leaves a row with. *)
LEMMA StatusAfter ==
    ASSUME TypeInv, NEW b \in Builds
    PROVE  /\ Kept(b) => Status(b)' = Status(b)
           /\ Added(b) => ~Exists(b) /\ Status(b)' = "queued"
           /\ Taken(b) => Status(b) = "queued" /\ Status(b)' = "building"
           /\ Dropped(b) => Active(b) /\ Status(b)' = "failed"
           /\ Returned(b) => Status(b) = "building" /\ Status(b)' = "queued"
           /\ Shown(b) => Status(b) = "building" /\ Status(b)' = "ready"
           /\ Withdrawn(b) => /\ Status(b) = "ready"
                              /\ Status(b)' \in {"pruned", "superseded"}
           /\ LeaseSet(b) =>
                Status(b) = "building" /\ Status(b)' = "building"
<1>1. builds[b] \in Row
  BY DEF TypeInv, TypeOK
<1>2. Added(b) => ~Exists(b)
  <2>1. b[2] \in Generations /\ Sibling(b, b[2]) = b /\ ~(b[2] < b[2])
    BY ConstantsAssumption
       DEF ConstantsAssumption, Builds, Generations, Sibling
  <2> QED BY <2>1 DEF Added, NextGeneration
<1>3. Added(b) => Status(b)' = "queued"
  BY DEF Added, Inserted, NoRow, Status
<1>4. Taken(b) => Status(b) = "queued" /\ Status(b)' = "building"
  BY <1>1 DEF Taken, Claimed, Status, Row
<1>5. /\ Kept(b) => Status(b)' = Status(b)
      /\ Dropped(b) => Active(b) /\ Status(b)' = "failed"
      /\ Returned(b) => Status(b) = "building" /\ Status(b)' = "queued"
      /\ Shown(b) => Status(b) = "building" /\ Status(b)' = "ready"
  BY <1>1 DEF Kept, Dropped, Failed, Returned, Requeued, Shown, Published,
     Status, Row
<1>6. /\ Withdrawn(b) => /\ Status(b) = "ready"
                         /\ Status(b)' \in {"pruned", "superseded"}
      /\ LeaseSet(b) => Status(b) = "building" /\ Status(b)' = "building"
  BY <1>1 DEF Withdrawn, LeaseSet, Status, Row
<1> QED BY <1>2, <1>3, <1>4, <1>5, <1>6

-------------------------------------------------------------------------------
(* Safety. *)

(* Two rows are never "building" together: claim_next takes a row only     *)
(* when no other is, and nothing else starts a build.                      *)
THEOREM BuildsAreSerial == Spec => []AtMostOneBuilding
<1>1. Init => AtMostOneBuilding
  BY DEF Init, AtMostOneBuilding, Status, NoRow
<1>2. TypeInv /\ AtMostOneBuilding /\ [Next]_vars => AtMostOneBuilding'
  <2> SUFFICES ASSUME TypeInv, AtMostOneBuilding, TableStep,
                      NEW b \in Builds, NEW c \in Builds,
                      Status(b)' = "building", Status(c)' = "building"
               PROVE  b = c
    BY RowSteps DEF AtMostOneBuilding
  <2>1. \A d \in Builds :
          Status(d)' = "building" => Status(d) = "building" \/ Taken(d)
    BY StatusAfter DEF TableStep, RowStep
  <2>2. CASE Taken(b) \/ Taken(c)
    BY <2>2 DEF Taken, Kept, Status
  <2>3. CASE ~Taken(b) /\ ~Taken(c)
    BY <2>1, <2>3 DEF AtMostOneBuilding
  <2> QED BY <2>2, <2>3
<1> QED BY <1>1, <1>2, TypeInit, TypeStep, PTL DEF Spec

(* An active row is the newest of its revision: a request that adds a      *)
(* generation replaces an active one in the same transaction, or is        *)
(* refused by an index if it had not seen it.                              *)
THEOREM ActiveRowIsNewest == Spec => []ActiveIsNewest
<1>1. Init => ActiveIsNewest
  BY DEF Init, ActiveIsNewest, Active, Status, NoRow
<1>2. TypeInv /\ ActiveIsNewest /\ [Next]_vars => ActiveIsNewest'
  <2> SUFFICES ASSUME TypeInv, ActiveIsNewest, TableStep,
                      NEW b \in Builds, NEW c \in Builds,
                      Active(b)', Exists(c)', b[1] = c[1]
               PROVE  c[2] <= b[2]
    BY RowSteps DEF ActiveIsNewest
  <2>0. b[2] \in Generations /\ c[2] \in Generations
        /\ b[2] \in Nat /\ c[2] \in Nat
        /\ c = Sibling(b, c[2]) /\ b = Sibling(c, b[2])
    BY ConstantsAssumption
       DEF ConstantsAssumption, Builds, Generations, Sibling
  <2>1. \A d \in Builds : Active(d)' => Active(d) \/ Added(d)
    BY StatusAfter DEF TableStep, RowStep, Active
  <2>2. \A d \in Builds : Exists(d)' => Exists(d) \/ Added(d)
    BY StatusAfter DEF TableStep, RowStep, Active, Exists
  <2>3. CASE b = c
    BY <2>0, <2>3
  <2>4. CASE b # c /\ Added(c)
    BY <2>4 DEF Added
  <2>5. CASE b # c /\ ~Added(c) /\ Added(b)
    <3>1. Exists(c) /\ NextGeneration(b)
      BY <2>2, <2>5 DEF Added
    <3>2. c[2] < b[2]
      BY <2>0, <3>1 DEF NextGeneration
    <3> QED BY <2>0, <3>2
  <2>6. CASE ~Added(c) /\ ~Added(b)
    BY <2>1, <2>2, <2>6 DEF ActiveIsNewest
  <2> QED BY <2>3, <2>4, <2>5, <2>6
<1> QED BY <1>1, <1>2, TypeInit, TypeStep, PTL DEF Spec

(* A revision has at most one ready image, however often it is rebuilt. *)
THEOREM OneReadyImage == Spec => []OneReadyPerRevision
<1>1. Init => OneReadyPerRevision
  BY DEF Init, OneReadyPerRevision, Status, NoRow
<1>2. TypeInv /\ OneReadyPerRevision /\ [Next]_vars => OneReadyPerRevision'
  <2> SUFFICES ASSUME TypeInv, OneReadyPerRevision, TableStep,
                      NEW b \in Builds, NEW c \in Builds,
                      Status(b)' = "ready", Status(c)' = "ready", b[1] = c[1]
               PROVE  b = c
    BY RowSteps DEF OneReadyPerRevision
  <2>1. \A d \in Builds :
          Status(d)' = "ready" => Status(d) = "ready" \/ Shown(d)
    BY StatusAfter DEF TableStep, RowStep
  <2>2. CASE Shown(b) \/ Shown(c)
    BY <2>2 DEF Shown
  <2>3. CASE ~Shown(b) /\ ~Shown(c)
    BY <2>1, <2>3 DEF OneReadyPerRevision
  <2> QED BY <2>2, <2>3
<1> QED BY <1>1, <1>2, TypeInit, TypeStep, PTL DEF Spec

(* A row that is being built has been claimed: this is what makes          *)
(* PublishedByLastClaim inductive.                                         *)
ClaimedOnce == \A b \in Builds : Status(b) = "building" => builds[b].attempt > 0

(* A published image was built by the last claim of its row: completions   *)
(* of earlier claims change nothing.                                       *)
THEOREM LastClaimPublishes == Spec => []PublishedByLastClaim
<1> DEFINE Inv == PublishedByLastClaim /\ ClaimedOnce
<1>1. Init => Inv
  BY DEF Init, PublishedByLastClaim, ClaimedOnce, Status, NoRow
<1>2. TypeInv /\ Inv /\ [Next]_vars => Inv'
  <2> SUFFICES ASSUME TypeInv, Inv, TableStep, NEW b \in Builds
               PROVE  /\ Status(b)' = "building" => builds'[b].attempt > 0
                      /\ Status(b)' \in {"ready", "superseded", "pruned"} =>
                           /\ builds'[b].attempt > 0
                           /\ builds'[b].image = builds'[b].attempt
    BY RowSteps DEF PublishedByLastClaim, ClaimedOnce
  <2>0. builds[b] \in Row /\ builds[b].attempt \in Nat
    BY DEF TypeInv, TypeOK, Row
  <2>1. CASE Kept(b)
    BY <2>1 DEF Kept, PublishedByLastClaim, ClaimedOnce, Status
  <2>2. CASE Added(b) \/ Dropped(b) \/ Returned(b)
    BY <2>2, StatusAfter
  <2>3. CASE Taken(b)
    <3>1. Status(b)' = "building"
      BY <2>3, StatusAfter
    <3>2. PICK i \in Instances : builds'[b] = Claimed(builds[b], i)
      BY <2>3 DEF Taken
    <3>3. Claimed(builds[b], i).attempt = builds[b].attempt + 1
      BY <2>0 DEF Claimed, Row
    <3> QED BY <2>0, <3>1, <3>2, <3>3
  <2>4. CASE Shown(b)
    <3>1. Status(b)' = "ready" /\ builds[b].attempt > 0
      BY <2>4, StatusAfter DEF ClaimedOnce
    <3>2. builds'[b].attempt = builds[b].attempt
          /\ builds'[b].image = builds[b].attempt
      BY <2>0, <2>4 DEF Shown, Published, Row
    <3> QED BY <3>1, <3>2
  <2>5. CASE Withdrawn(b)
    <3>1. Status(b) = "ready" /\ Status(b)' \in {"pruned", "superseded"}
      BY <2>5, StatusAfter
    <3>2. builds'[b].attempt = builds[b].attempt
          /\ builds'[b].image = builds[b].image
      BY <2>0, <2>5 DEF Withdrawn, Row
    <3> QED BY <3>1, <3>2 DEF PublishedByLastClaim
  <2>6. CASE LeaseSet(b)
    <3>1. Status(b) = "building" /\ Status(b)' = "building"
      BY <2>6, StatusAfter
    <3>2. builds'[b].attempt = builds[b].attempt
      BY <2>0, <2>6 DEF LeaseSet, Row
    <3> QED BY <3>1, <3>2 DEF ClaimedOnce
  <2> QED BY <2>1, <2>2, <2>3, <2>4, <2>5, <2>6 DEF TableStep, RowStep
<1>3. Inv => PublishedByLastClaim
  OBVIOUS
<1> HIDE DEF Inv
<1> QED BY <1>1, <1>2, <1>3, TypeInit, TypeStep, PTL DEF Spec

-------------------------------------------------------------------------------
(* Action properties. *)

(* No statement asks for an update the build trigger refuses. *)
THEOREM TriggerNeverRefuses == Spec => BuildContract
<1>1. TypeInv /\ [Next]_vars => [BuildContractStep]_vars
  <2> SUFFICES ASSUME TypeInv, TableStep, NEW b \in Builds, Exists(b)
               PROVE  /\ TriggerAllows(Status(b), Status(b)')
                      /\ builds'[b].base = builds[b].base
                      /\ builds'[b].retryOf = builds[b].retryOf
                      /\ Status(b) \in {"ready", "superseded", "pruned"} =>
                           builds'[b].image = builds[b].image
    BY RowSteps DEF BuildContractStep
  <2>0. builds[b] \in Row /\ Status(b) \in BuildStatuses
    BY DEF TypeInv, TypeOK, Row, Exists, Status
  <2>1. CASE Kept(b)
    BY <2>0, <2>1 DEF Kept, Status, TriggerAllows, BuildStatuses
  <2>2. CASE Added(b)
    BY <2>2, StatusAfter
  <2>3. CASE Taken(b)
    <3>1. TriggerAllows(Status(b), Status(b)')
      BY <2>3, StatusAfter DEF TriggerAllows
    <3>2. PICK i \in Instances : builds'[b] = Claimed(builds[b], i)
      BY <2>3 DEF Taken
    <3>3. Claimed(builds[b], i).base = builds[b].base
          /\ Claimed(builds[b], i).retryOf = builds[b].retryOf
      BY <2>0 DEF Claimed, Row
    <3> QED BY <2>3, <3>1, <3>2, <3>3, StatusAfter
  <2>4. CASE Dropped(b) \/ Returned(b) \/ Shown(b)
    <3>1. TriggerAllows(Status(b), Status(b)') /\ Active(b)
      BY <2>4, StatusAfter DEF TriggerAllows, Active
    <3>2. builds'[b].base = builds[b].base
          /\ builds'[b].retryOf = builds[b].retryOf
      BY <2>0, <2>4 DEF Dropped, Returned, Shown, Failed, Requeued,
         Published, Row
    <3> QED BY <3>1, <3>2 DEF Active
  <2>5. CASE Withdrawn(b) \/ LeaseSet(b)
    <3>1. TriggerAllows(Status(b), Status(b)')
      BY <2>5, StatusAfter DEF TriggerAllows
    <3>2. builds'[b].base = builds[b].base
          /\ builds'[b].retryOf = builds[b].retryOf
          /\ builds'[b].image = builds[b].image
      BY <2>0, <2>5 DEF Withdrawn, LeaseSet, Row
    <3> QED BY <3>1, <3>2
  <2> QED BY <2>1, <2>2, <2>3, <2>4, <2>5 DEF TableStep, RowStep
<1> QED BY <1>1, TypeInit, TypeStep, PTL DEF Spec, BuildContract

(* A ready image gives way to nothing but pruning and the publication of a *)
(* newer generation.                                                       *)
THEOREM ReadyImageStays == Spec => ReadyStaysUntilReplaced
<1>1. TypeInv /\ ActiveIsNewest /\ [Next]_vars
        => [ReadyStaysUntilReplacedStep]_vars
  <2> SUFFICES ASSUME TypeInv, ActiveIsNewest, TableStep, NEW b \in Builds,
                      Status(b) = "ready", Status(b)' \notin {"ready", "pruned"}
               PROVE  \E c \in Builds :
                        /\ c[1] = b[1] /\ c[2] > b[2]
                        /\ Status(c) = "building" /\ Status(c)' = "ready"
    BY RowSteps DEF ReadyStaysUntilReplacedStep
  <2>1. Withdrawn(b)
    BY StatusAfter DEF TableStep, RowStep, Active, Exists
  <2>2. PICK c \in Builds : c[1] = b[1] /\ Shown(c)
    <3>1. builds[b] \in Row
      BY DEF TypeInv, TypeOK
    <3>2. [builds[b] EXCEPT !.status = "pruned"].status = "pruned"
      BY <3>1 DEF Row
    <3> QED BY <2>1, <3>2 DEF Withdrawn, Status
  <2>3. Status(c) = "building" /\ Status(c)' = "ready"
    BY <2>2, StatusAfter
  <2>4. b[2] <= c[2]
    BY <2>2, <2>3 DEF ActiveIsNewest, Active, Exists
  <2>5. b[2] # c[2]
    BY <2>2, <2>3 DEF Builds
  <2>6. b[2] \in Nat /\ c[2] \in Nat
    BY ConstantsAssumption DEF ConstantsAssumption, Builds, Generations
  <2> QED BY <2>2, <2>3, <2>4, <2>5, <2>6
<1> QED BY <1>1, ActiveRowIsNewest, TypeInit, TypeStep, PTL
        DEF Spec, ReadyStaysUntilReplaced

(* An image becomes ready only while its revision is the eligible one, and *)
(* only by the process that owns the claim and the leadership.             *)
THEOREM PublicationIsEligible == Spec => OnlyEligiblePublished
<1>1. TypeInv /\ [Next]_vars => [PublicationStep]_vars
  <2> SUFFICES ASSUME TypeInv, TableStep, NEW b \in Builds,
                      Status(b) # "ready", Status(b)' = "ready"
               PROVE  /\ Eligible(b[1])
                      /\ \E i \in Instances : lock = i /\ builds[b].owner = i
    BY RowSteps DEF PublicationStep
  <2>1. Shown(b)
    BY StatusAfter DEF TableStep, RowStep
  <2> QED BY <2>1 DEF Shown
<1> QED BY <1>1, TypeInit, TypeStep, PTL DEF Spec, OnlyEligiblePublished

(* A process that has a claim works on it, or is giving it up: one that    *)
(* recovers the claims of others has none.                                 *)
ClaimInHand ==
    \A i \in Instances : claim[i] # None => pc[i] \in Working \cup {"unwind"}

LEMMA InHandStep == TypeInv /\ ClaimInHand /\ [Next]_vars => ClaimInHand'
<1> SUFFICES ASSUME TypeInv, ClaimInHand, [Next]_vars PROVE ClaimInHand'
  OBVIOUS
<1>0. /\ pc \in [Instances -> Places]
      /\ claim \in [Instances -> Claims \cup {None}]
  BY DEF TypeInv, TypeOK
<1>1. CASE UNCHANGED vars \/ Backend
  <2>1. UNCHANGED processVars
    BY <1>1 DEF vars, Backend, BackendSelect, BackendReconcile, BeginModuleBuild,
       ApplyModuleBuild, AbortModuleBuild, EndModuleBuild, Validate, Revoke,
       BeginRetry, PruneImage, LeaseExpires, NewRevision, ApplyRetry, AbortRetry,
       BeginRebuildAll, ApplyRebuildAll, AbortRebuildAll, Retag, SessionLost
  <2> QED BY <2>1 DEF processVars, ClaimInHand
<1>2. ASSUME NEW i \in Instances, Environment(i) PROVE ClaimInHand'
  BY <1>0, <1>2 DEF Environment, BuilderEnds, CommandFails, RequestStop, Crash, Goto,
     ClaimInHand
<1>3. ASSUME NEW i \in Instances, Process(i) PROVE ClaimInHand'
  <2>1. CASE Start(i) \/ TryAcquireLeadership(i) \/ RecoverExpiredClaims(i)
             \/ ReconcileSelect(i) \/ ReconcileEligibleRevisions(i)
             \/ Unwind(i) \/ Exit(i)
    BY <1>0, <2>1 DEF Start, TryAcquireLeadership, RecoverExpiredClaims,
       ReconcileSelect, ReconcileEligibleRevisions, Unwind, Exit, Goto, Working, ClaimInHand
  <2>2. CASE ClaimNext(i)
    <3>1. CASE pc' = [pc EXCEPT ![i] = "recover"] /\ UNCHANGED claim
      BY <1>0, <2>2, <3>1 DEF ClaimNext, Working, ClaimInHand
    <3>2. CASE /\ pc' = [pc EXCEPT ![i] = "watch"]
               /\ \A j \in Instances \ {i} : UNCHANGED claim[j]
      BY <1>0, <3>2 DEF Working, ClaimInHand
    <3>3. UNCHANGED claim \/ \A j \in Instances \ {i} : UNCHANGED claim[j]
      BY <1>0, <2>2 DEF ClaimNext
    <3> QED BY <1>0, <2>2, <3>1, <3>2 DEF ClaimNext, Goto
  <2>3. CASE WatchBuild(i) \/ RenewClaim(i)
    BY <1>0, <2>3 DEF WatchBuild, RenewClaim, Goto, Working, ClaimInHand
  <2>4. CASE ReleaseClaim(i) \/ FailClaim(i) \/ CompleteClaim(i)
    BY <1>0, <2>4 DEF ReleaseClaim, FailClaim, CompleteClaim, Settle, Goto, ClaimInHand
  <2> QED BY <1>3, <2>1, <2>2, <2>3, <2>4 DEF Process
<1> QED BY <1>1, <1>2, <1>3 DEF Next

(* Recovery never takes the build of a process that still leads: a claim   *)
(* of the leader goes back to the queue only when the leader releases it.  *)
THEOREM LeaderKeepsItsClaim == Spec => NoStolenClaim
<1>1. Init => ClaimInHand
  BY DEF Init, ClaimInHand
<1>2. TypeInv /\ ClaimInHand /\ [Next]_vars => [NoStolenClaimStep]_vars
  <2> SUFFICES ASSUME TypeInv, ClaimInHand, TableStep, NEW b \in Builds, NEW i \in Instances,
                      Status(b) = "building", Status(b)' = "queued", claim[i] # None, lock = i
               PROVE  stopping[i] /\ claim'[i] = None
    BY RowSteps DEF NoStolenClaimStep
  <2>1. Returned(b)
    BY StatusAfter DEF TableStep, RowStep, Exists
  <2>2. pc[i] = "recover" \/ (stopping[i] /\ claim'[i] = None)
    BY <2>1 DEF Returned
  <2>3. pc[i] # "recover"
    BY DEF ClaimInHand, Working
  <2> QED BY <2>2, <2>3
<1> QED BY <1>1, <1>2, InHandStep, TypeInit, TypeStep, PTL DEF Spec, NoStolenClaim

-------------------------------------------------------------------------------
(* Refinement: the table implements the history of every revision. *)

(* The generations of a revision are numbered without gaps. *)
Contiguous == \A r \in Revisions : \E n \in 0..MaxGenerations : IsLatest(r, n)

HistoryInv == TypeInv /\ ActiveIsNewest /\ OneReadyPerRevision /\ Contiguous

LEMMA RowsOf ==
    ASSUME NEW r \in Revisions, NEW g \in Generations
    PROVE  /\ <<r, g>> \in Builds /\ <<r, g>>[1] = r /\ <<r, g>>[2] = g /\ g \in Nat /\ g # 0
           /\ g \in 0..MaxGenerations
           /\ \A h \in Generations : Sibling(<<r, g>>, h) = <<r, h>>
           /\ \A b \in Builds : b[1] = r => b[2] \in Generations /\ b = <<r, b[2]>>
BY ConstantsAssumption DEF ConstantsAssumption, Builds, Generations, Sibling

LEMMA LatestIsOne ==
    ASSUME NEW r \in Revisions, NEW n \in 0..MaxGenerations, NEW m \in 0..MaxGenerations,
           IsLatest(r, n), IsLatest(r, m)
    PROVE  n = m
<1>1. MaxGenerations \in Nat
  BY ConstantsAssumption DEF ConstantsAssumption
<1>2. \A x, y \in 0..MaxGenerations : IsLatest(r, x) /\ IsLatest(r, y) => ~(x < y)
  <2> SUFFICES ASSUME NEW x \in 0..MaxGenerations, NEW y \in 0..MaxGenerations,
                      IsLatest(r, x), IsLatest(r, y), x < y
               PROVE  FALSE
    OBVIOUS
  <2>1. y \in Generations /\ ~(y <= x) /\ y <= y
    BY <1>1 DEF Generations
  <2>2. (Exists(<<r, y>>) <=> y <= x) /\ (Exists(<<r, y>>) <=> y <= y)
    BY <2>1 DEF IsLatest
  <2> QED BY <2>1, <2>2
<1>3. ~(n < m) /\ ~(m < n)
  BY <1>2
<1> QED BY <1>1, <1>3

LatestUnique == \A r \in Revisions : \A n, m \in 0..MaxGenerations :
                    IsLatest(r, n) /\ IsLatest(r, m) => n = m
LEMMA LatestIsOneNow == LatestUnique
BY LatestIsOne DEF LatestUnique
LEMMA LatestIsOneNext == LatestUnique'
BY LatestIsOneNow, PTL

(* What the entry of a revision says of its rows. *)
EntryFits(r) ==
    /\ HistoryEntry(r) = [newest |-> HistoryEntry(r).newest, open |-> HistoryEntry(r).open,
                          shown |-> HistoryEntry(r).shown]
    /\ HistoryEntry(r) \in History!Entry
    /\ HistoryEntry(r).newest \in 0..MaxGenerations /\ IsLatest(r, HistoryEntry(r).newest)
    /\ HistoryEntry(r).open <=> \E g \in Generations : Active(<<r, g>>)
    /\ \A g \in Generations : Status(<<r, g>>) = "ready" => HistoryEntry(r).shown = g
    /\ (\A g \in Generations : Status(<<r, g>>) # "ready") => HistoryEntry(r).shown = 0
EntriesFit == \A r \in Revisions : EntryFits(r)

LEMMA EntriesFitRows == HistoryInv => EntriesFit
<1> SUFFICES ASSUME HistoryInv, NEW r \in Revisions PROVE EntryFits(r)
  BY DEF EntriesFit
<1> DEFINE n == CHOOSE n \in 0..MaxGenerations : IsLatest(r, n)
           o == \E g \in Generations : Active(<<r, g>>)
           s == IF \E g \in Generations : Status(<<r, g>>) = "ready"
                THEN CHOOSE g \in Generations : Status(<<r, g>>) = "ready"
                ELSE 0
<1>1. n \in 0..MaxGenerations /\ IsLatest(r, n)
  BY DEF HistoryInv, Contiguous
<1>2. o \in BOOLEAN
  OBVIOUS
<1>3. ASSUME NEW g \in Generations, Status(<<r, g>>) = "ready" PROVE s = g /\ s \in Generations
  <2>1. s \in Generations /\ Status(<<r, s>>) = "ready"
    BY <1>3
  <2> HIDE DEF s
  <2>2. <<r, s>> = <<r, g>>
    BY <1>3, <2>1, RowsOf DEF HistoryInv, OneReadyPerRevision
  <2> QED BY <2>1, <2>2
<1>4. (\A g \in Generations : Status(<<r, g>>) # "ready") => s = 0
  OBVIOUS
<1>5. o <=> \E g \in Generations : Active(<<r, g>>)
  OBVIOUS
<1>6. HistoryEntry(r) = [newest |-> n, open |-> o, shown |-> s]
  BY DEF HistoryEntry
<1> HIDE DEF n, o, s
<1>7. n \in Nat /\ s \in Nat
  BY <1>1, <1>3, <1>4, RowsOf, ConstantsAssumption DEF ConstantsAssumption
<1>8. HistoryEntry(r).newest = n /\ HistoryEntry(r).open = o /\ HistoryEntry(r).shown = s
  BY <1>6
<1>9. HistoryEntry(r) \in History!Entry
  BY <1>2, <1>6, <1>7 DEF History!Entry
<1> QED BY <1>1, <1>3, <1>4, <1>5, <1>6, <1>8, <1>9 DEF EntryFits

LEMMA EntriesFitNext == HistoryInv' => EntriesFit'
BY EntriesFitRows, PTL

(* A step gives a revision its next generation or leaves those it has. *)
LEMMA LatestStep ==
    ASSUME TypeInv, TableStep, NEW r \in Revisions, NEW n \in 0..MaxGenerations, IsLatest(r, n)
    PROVE  \/ /\ n + 1 \in Generations /\ Added(<<r, n + 1>>) /\ IsLatest(r, n + 1)'
              /\ \A g \in Generations \ {n + 1} : Kept(<<r, g>>) \/ Dropped(<<r, g>>)
           \/ (\A g \in Generations : ~Added(<<r, g>>)) /\ IsLatest(r, n)'
<1>1. \A g \in Generations : <<r, g>> \in Builds /\ RowStep(<<r, g>>)
  BY RowsOf DEF TableStep
<1>2. \A g \in Generations :
        ~Added(<<r, g>>) => (Exists(<<r, g>>)' <=> Exists(<<r, g>>))
  BY <1>1, StatusAfter DEF RowStep, Exists, Active
<1>3. CASE \A g \in Generations : ~Added(<<r, g>>)
  BY <1>2, <1>3 DEF IsLatest
<1>4. ASSUME NEW g \in Generations, Added(<<r, g>>)
      PROVE  /\ g = n + 1 /\ IsLatest(r, g)'
             /\ \A h \in Generations \ {g} : Kept(<<r, h>>) \/ Dropped(<<r, h>>)
  <2>1. \A h \in Generations : Exists(<<r, h>>) <=> h < g
    BY <1>4, RowsOf DEF Added, NextGeneration
  <2>2. /\ g - 1 \in 0..MaxGenerations /\ g \in Nat
        /\ \A h \in Generations : h < g <=> h <= g - 1
    BY ConstantsAssumption DEF ConstantsAssumption, Generations
  <2>3. g = n + 1
    <3>1. IsLatest(r, g - 1)
      BY <2>1, <2>2 DEF IsLatest
    <3>2. n = g - 1
      BY <2>2, <3>1, LatestIsOne
    <3> QED BY <2>2, <3>2
  <2>4. \A h \in Generations \ {g} : Kept(<<r, h>>) \/ Dropped(<<r, h>>)
    BY <1>4, RowsOf DEF Added
  <2>5. \A h \in Generations \ {g} : ~Added(<<r, h>>)
    BY <1>1, <2>4, StatusAfter DEF Exists, Active, Kept, Status
  <2>6. Exists(<<r, g>>)'
    BY <1>1, <1>4, StatusAfter DEF Exists
  <2>7. \A h \in Generations : Exists(<<r, h>>)' <=> h <= g
    BY <1>2, <2>1, <2>5, <2>6, RowsOf
  <2> QED BY <2>3, <2>4, <2>7 DEF IsLatest
<1> QED BY <1>3, <1>4

(* The entry of a revision changes as the history allows, or not at all. *)
LEMMA EntryStep ==
    ASSUME HistoryInv, HistoryInv', TableStep, NEW r \in Revisions
    PROVE  \/ HistoryEntry(r)' = HistoryEntry(r)
           \/ History!Change(HistoryEntry(r), HistoryEntry(r)')
<1> DEFINE old == HistoryEntry(r)
           new == HistoryEntry(r)'
           row(g) == <<r, g>>
<1>1. /\ old \in [newest : Nat, open : BOOLEAN, shown : Nat]
      /\ old.newest \in 0..MaxGenerations /\ IsLatest(r, old.newest)
      /\ old.open <=> \E g \in Generations : Active(row(g))
      /\ \A g \in Generations : Status(row(g)) = "ready" => old.shown = g
      /\ (\A g \in Generations : Status(row(g)) # "ready") => old.shown = 0
  BY EntriesFitRows DEF EntriesFit, EntryFits, History!Entry
<1>2. /\ new \in [newest : Nat, open : BOOLEAN, shown : Nat]
      /\ new.newest \in 0..MaxGenerations
      /\ \A n \in 0..MaxGenerations : n = new.newest => IsLatest(r, n)'
      /\ new.open <=> \E g \in Generations : Active(row(g))'
      /\ \A g \in Generations : Status(row(g))' = "ready" => new.shown = g
      /\ (\A g \in Generations : Status(row(g))' # "ready") => new.shown = 0
  BY EntriesFitNext DEF EntriesFit, EntryFits, History!Entry
<1>3. \A g \in Generations : row(g) \in Builds /\ RowStep(row(g))
  BY RowsOf DEF TableStep
<1>r. \A g \in Generations :
        row(g) = <<r, g>> /\ row(g)[1] = r /\ row(g)[2] = g /\ g \in Nat /\ g # 0
  BY RowsOf
<1>n. PICK n \in 0..MaxGenerations : n = old.newest
  BY <1>1
<1> HIDE DEF old, new, row
<1> SUFFICES new = old \/ History!Change(old, new)
  BY DEF old, new
<1>4. (\A g \in Generations : Status(row(g))' = "ready" <=> Status(row(g)) = "ready")
        => new.shown = old.shown
  BY <1>1, <1>2
<1>5. \A g, h \in Generations : Active(row(g)) /\ Active(row(h)) => g = h
  <2> SUFFICES ASSUME NEW g \in Generations, NEW h \in Generations,
                      Active(row(g)), Active(row(h))
               PROVE  g = h
    OBVIOUS
  <2>1. Exists(row(g)) /\ Exists(row(h))
    BY DEF Active, Exists
  <2>2. g <= h /\ h <= g
    BY <1>3, <1>r, <2>1 DEF HistoryInv, ActiveIsNewest
  <2> QED BY <1>r, <2>2
<1>6. CASE \E g \in Generations : Added(row(g))
  <2> DEFINE g == n + 1
  <2>1. /\ g \in Generations /\ Added(row(g)) /\ IsLatest(r, g)'
        /\ \A h \in Generations \ {g} : Kept(row(h)) \/ Dropped(row(h))
    <3>1. IsLatest(r, n) /\ TypeInv
      BY <1>1, <1>n DEF HistoryInv
    <3>2. ~ \A h \in Generations : ~Added(<<r, h>>)
      BY <1>6, <1>r
    <3> QED BY ZenonT(60), <1>r, <3>1, <3>2, LatestStep
  <2> HIDE DEF g
  <2>2. new.newest = g
    <3>1. PICK m \in 0..MaxGenerations : m = new.newest
      BY <1>2
    <3>2. IsLatest(r, m)'
      BY <1>2, <3>1
    <3>3. PICK h \in 0..MaxGenerations : h = g
      BY <2>1, RowsOf
    <3>4. IsLatest(r, h)'
      BY <2>1, <3>3
    <3>5. h = m
      BY <3>2, <3>4, LatestIsOneNext DEF LatestUnique
    <3> QED BY <3>1, <3>3, <3>5
  <2>3. new.open
    BY <1>2, <1>3, <2>1, StatusAfter DEF Active, HistoryInv
  <2>4. new.shown = old.shown
    <3>1. \A h \in Generations : Status(row(h))' = "ready" <=> Status(row(h)) = "ready"
      BY <1>3, <2>1, StatusAfter DEF HistoryInv, Active, Exists
    <3> QED BY <1>4, <3>1
  <2>5. new = [old EXCEPT !.newest = old.newest + 1, !.open = TRUE]
    BY <1>1, <1>2, <1>n, <2>2, <2>3, <2>4 DEF g
  <2> QED BY <2>5 DEF History!Change, History!Request
<1>7. CASE \A g \in Generations : ~Added(row(g))
  <2>1. new.newest = old.newest
    <3>1. IsLatest(r, n) /\ TypeInv
      BY <1>1, <1>n DEF HistoryInv
    <3>2. IsLatest(r, n)'
      BY <1>7, <1>r, <3>1, LatestStep
    <3>3. PICK m \in 0..MaxGenerations : m = new.newest
      BY <1>2
    <3>4. IsLatest(r, m)'
      BY <1>2, <3>3
    <3>5. n = m
      BY <3>2, <3>4, LatestIsOneNext DEF LatestUnique
    <3> QED BY <1>n, <3>3, <3>5
  <2>2. \A g \in Generations : Active(row(g))' => Active(row(g))
    BY <1>3, <1>7, StatusAfter DEF RowStep, Active, HistoryInv
  <2>3. ASSUME NEW g \in Generations, Active(row(g)), ~Active(row(g))'
        PROVE  old.open /\ ~new.open
    BY <1>1, <1>2, <1>5, <2>2, <2>3
  <2>4. CASE \E g \in Generations : Shown(row(g))
    <3>1. PICK g \in Generations : Shown(row(g))
      BY <2>4
    <3>2. Active(row(g)) /\ ~Active(row(g))' /\ Status(row(g))' = "ready"
      BY <1>3, <3>1, StatusAfter DEF Active, HistoryInv
    <3>3. g = old.newest
      <4>1. Exists(row(g)) /\ g <= old.newest
        BY <1>1, <1>r, <3>2 DEF Active, Exists, IsLatest
      <4>2. old.newest \in Generations
        BY <1>1, <1>r, <4>1 DEF Generations
      <4>3. Exists(row(old.newest))
        BY <1>1, <1>r, <4>2 DEF IsLatest
      <4>4. old.newest <= g
        BY <1>3, <1>r, <3>2, <4>2, <4>3 DEF HistoryInv, ActiveIsNewest
      <4> QED BY <1>1, <1>r, <4>1, <4>4
    <3>4. new.shown = g
      BY <1>2, <3>2
    <3>5. new = [old EXCEPT !.open = FALSE, !.shown = old.newest] /\ old.open
      BY <1>1, <1>2, <2>1, <2>3, <3>2, <3>3, <3>4
    <3> QED BY <3>5 DEF History!Change, History!Publish
  <2>5. ASSUME \A g \in Generations : ~Shown(row(g)), NEW g \in Generations, Dropped(row(g))
        PROVE  new = old \/ History!Change(old, new)
    <3>1. Active(row(g)) /\ ~Active(row(g))' /\ ~Kept(row(g))
      BY <1>3, <2>5, StatusAfter DEF Active, HistoryInv
    <3>2. \A h \in Generations : ~Withdrawn(row(h))
      <4> SUFFICES ASSUME NEW h \in Generations, Withdrawn(row(h)) PROVE FALSE
        OBVIOUS
      <4>1. row(g) # row(h)
        BY <1>3, <3>1, StatusAfter DEF Active, HistoryInv
      <4>2. PICK c \in Builds : c[1] = row(h)[1] /\ Shown(c)
        BY <1>3, <3>1, <4>1 DEF Withdrawn
      <4>3. c[2] \in Generations /\ c = row(c[2])
        BY <4>2, RowsOf DEF row
      <4> QED BY <2>5, <4>2, <4>3
    <3>3. \A h \in Generations : Status(row(h))' = "ready" <=> Status(row(h)) = "ready"
      BY <1>3, <1>7, <2>5, <3>2, StatusAfter DEF RowStep, Active, HistoryInv
    <3>4. new = [old EXCEPT !.open = FALSE] /\ old.open
      BY <1>1, <1>2, <1>4, <2>1, <2>3, <3>1, <3>3
    <3> QED BY <3>4 DEF History!Change, History!Abandon
  <2>6. ASSUME \A g \in Generations : ~Shown(row(g)), NEW g \in Generations, Withdrawn(row(g))
        PROVE  new = old \/ History!Change(old, new)
    <3>1. \A b \in Builds \ {row(g)} : Kept(b)
      <4>1. ~ \E c \in Builds : c[1] = row(g)[1] /\ Shown(c)
        BY <2>6, RowsOf DEF row
      <4> QED BY <2>6, <4>1 DEF Withdrawn
    <3>2. Status(row(g)) = "ready" /\ Status(row(g))' # "ready"
          /\ ~Active(row(g)) /\ ~Active(row(g))'
      BY <1>3, <2>6, StatusAfter DEF Active, HistoryInv
    <3>3. \A h \in Generations \ {g} : Kept(row(h))
      BY <1>3, <3>1 DEF row
    <3>4. new.open = old.open
      <4>1. \A h \in Generations : Active(row(h))' <=> Active(row(h))
        BY <3>2, <3>3 DEF Kept, Active, Status
      <4> QED BY <1>1, <1>2, <4>1
    <3>5. old.shown = g /\ g # 0 /\ new.shown = 0
      <4>1. old.shown = g /\ g # 0
        BY <1>1, <1>r, <3>2
      <4>2. ASSUME NEW h \in Generations, Status(row(h))' = "ready" PROVE FALSE
        <5>1. Status(row(h)) = "ready"
          BY <3>2, <3>3, <4>2 DEF Kept, Status
        <5>2. h = g
          BY <1>1, <4>1, <5>1
        <5> QED BY <3>2, <4>2, <5>2
      <4> QED BY <1>2, <4>1, <4>2
    <3>6. new = [old EXCEPT !.shown = 0] /\ old.shown # 0
      BY <1>1, <1>2, <2>1, <3>4, <3>5
    <3> QED BY <3>6 DEF History!Change, History!Prune
  <2>7. CASE \A g \in Generations :
               ~Shown(row(g)) /\ ~Dropped(row(g)) /\ ~Withdrawn(row(g))
    <3>1. \A g \in Generations :
            /\ Status(row(g))' = "ready" <=> Status(row(g)) = "ready"
            /\ Active(row(g))' <=> Active(row(g))
      BY <1>3, <1>7, <2>7, StatusAfter DEF RowStep, Active, HistoryInv
    <3>2. new.open = old.open /\ new.shown = old.shown
      BY <1>1, <1>2, <1>4, <3>1
    <3> QED BY <1>1, <1>2, <2>1, <3>2
  <2> QED BY <2>4, <2>5, <2>6, <2>7
<1> QED BY <1>6, <1>7

LEMMA ContiguousInit == Init => Contiguous
<1> SUFFICES ASSUME Init, NEW r \in Revisions PROVE IsLatest(r, 0) /\ 0 \in 0..MaxGenerations
  BY DEF Contiguous
<1>1. \A g \in Generations : ~Exists(<<r, g>>) /\ ~(g <= 0)
  BY RowsOf DEF Init, Exists, Status, NoRow
<1> QED BY <1>1, ConstantsAssumption DEF IsLatest, ConstantsAssumption

LEMMA ContiguousStep == TypeInv /\ Contiguous /\ [Next]_vars => Contiguous'
<1> SUFFICES ASSUME TypeInv, Contiguous, TableStep, NEW r \in Revisions
             PROVE  \E n \in 0..MaxGenerations : IsLatest(r, n)'
  BY RowSteps DEF Contiguous
<1>1. PICK n \in 0..MaxGenerations : IsLatest(r, n)
  BY DEF Contiguous
<1>2. CASE IsLatest(r, n)'
  BY <1>2
<1>3. CASE n + 1 \in Generations /\ IsLatest(r, n + 1)'
  <2>1. n + 1 \in 0..MaxGenerations
    BY <1>3, RowsOf
  <2> QED BY <1>3, <2>1
<1> QED BY <1>1, <1>2, <1>3, LatestStep

LEMMA HistoryInit == Init => History!Init
<1> SUFFICES ASSUME Init, NEW r \in Revisions
             PROVE  HistoryEntry(r) = [newest |-> 0, open |-> FALSE, shown |-> 0]
  BY DEF History!Init
<1>1. IsLatest(r, 0) /\ 0 \in 0..MaxGenerations
  <2>1. \A g \in Generations : ~Exists(<<r, g>>) /\ ~(g <= 0)
    BY RowsOf DEF Init, Exists, Status, NoRow
  <2> QED BY <2>1, ConstantsAssumption DEF IsLatest, ConstantsAssumption
<1>2. (CHOOSE n \in 0..MaxGenerations : IsLatest(r, n)) = 0
  BY <1>1, LatestIsOne
<1>3. \A g \in Generations : ~Active(<<r, g>>) /\ Status(<<r, g>>) # "ready"
  BY RowsOf DEF Init, Active, Status, NoRow
<1> QED BY <1>2, <1>3 DEF HistoryEntry

LEMMA HistoryStep ==
    ASSUME HistoryInv, HistoryInv', [Next]_vars
    PROVE  [History!Next]_[r \in Revisions |-> HistoryEntry(r)]
<1> DEFINE old == [r \in Revisions |-> HistoryEntry(r)]
           new == [r \in Revisions |-> HistoryEntry(r)']
<1>1. TableStep
  BY RowSteps DEF HistoryInv
<1>2. \A r \in Revisions : HistoryEntry(r)' \in History!Entry
  BY EntriesFitNext DEF EntriesFit, EntryFits
<1>3. \A r \in Revisions : new[r] = old[r] \/ History!Change(old[r], new[r])
  BY <1>1, EntryStep
<1>4. new \in [Revisions -> History!Entry]
  BY <1>2
<1> QED BY <1>3, <1>4 DEF History!Next

(* The table implements the history that whoever deploys a revision sees:  *)
(* generations are requested one after the other, only the newest is open, *)
(* and the image shown changes only by its publication or by pruning.      *)
THEOREM TableImplementsHistory == Spec => ImplementsHistory
<1>1. HistoryInv /\ [Next]_vars /\ HistoryInv'
        => [History!Next]_[r \in Revisions |-> HistoryEntry(r)]
  BY HistoryStep
<1>2. Spec => []HistoryInv
  <2>1. Spec => []TypeInv
    BY TypeInit, TypeStep, PTL DEF Spec
  <2>2. Spec => []Contiguous
    BY <2>1, ContiguousInit, ContiguousStep, PTL DEF Spec
  <2>3. TypeInv /\ ActiveIsNewest /\ OneReadyPerRevision /\ Contiguous => HistoryInv
    BY DEF HistoryInv
  <2> QED BY <2>1, <2>2, <2>3, ActiveRowIsNewest, OneReadyImage, PTL
<1> QED BY <1>1, <1>2, HistoryInit, PTL DEF Spec, ImplementsHistory, History!Spec

-------------------------------------------------------------------------------
(* Retention. *)

(* No row entered its queue, or became ready, before itself. *)
Ordered == \A b \in Builds : <<b, b>> \notin before

LEMMA WriteOrdered ==
    ASSUME Ordered, \/ UNCHANGED before
                    \/ \E table : Write(table)
    PROVE  Ordered'
BY DEF Ordered, Write

LEMMA OrderedStep == Ordered /\ [Next]_vars => Ordered'
<1> SUFFICES ASSUME Ordered, [Next]_vars PROVE Ordered'
  OBVIOUS
<1>1. ASSUME NEW i \in Instances, Process(i) PROVE Ordered'
  <2>1. CASE Start(i) \/ TryAcquireLeadership(i) \/ ReconcileSelect(i)
             \/ WatchBuild(i) \/ Unwind(i) \/ Exit(i)
    BY <2>1, WriteOrdered
       DEF Start, TryAcquireLeadership, ReconcileSelect, WatchBuild, Unwind, Exit
  <2>2. CASE RecoverExpiredClaims(i) \/ ReconcileEligibleRevisions(i)
    BY <2>2, WriteOrdered
       DEF RecoverExpiredClaims, ReconcileEligibleRevisions, Reconcile, ReconcileTable
  <2>3. CASE ClaimNext(i) \/ RenewClaim(i)
    BY <2>3, WriteOrdered DEF ClaimNext, RenewClaim, Set
  <2>4. ASSUME NEW table, Settle(i, table) PROVE Ordered'
    BY <2>4, WriteOrdered DEF Settle
  <2>5. CASE ReleaseClaim(i) \/ FailClaim(i) \/ CompleteClaim(i)
    BY <2>4, <2>5 DEF ReleaseClaim, FailClaim, CompleteClaim
  <2> QED BY <1>1, <2>1, <2>2, <2>3, <2>5 DEF Process
<1>2. ASSUME NEW i \in Instances, Environment(i) PROVE Ordered'
  BY <1>2, WriteOrdered DEF Environment, BuilderEnds, CommandFails, RequestStop, Crash
<1>3. CASE Backend
  <2>1. CASE \/ \E b \in Builds : BeginRetry(b)
             \/ \E r \in Revisions : NewRevision(r) \/ AbortRetry(r)
             \/ \E m \in Modules : \/ Validate(m) \/ Revoke(m)
                                   \/ BeginModuleBuild(m) \/ AbortModuleBuild(m)
             \/ BeginRebuildAll \/ AbortRebuildAll \/ BackendSelect
             \/ Retag \/ SessionLost
    BY <2>1, WriteOrdered DEF NewRevision, AbortRetry, Validate, Revoke,
       BeginModuleBuild, AbortModuleBuild, BackendSelect, BeginRetry,
       BeginRebuildAll, AbortRebuildAll, Retag, SessionLost
  <2>2. CASE BackendReconcile \/ \E m \in Modules : ApplyModuleBuild(m)
    BY <2>2, WriteOrdered DEF BackendReconcile, Reconcile, ReconcileTable,
       ApplyModuleBuild, InsertNext, Set
  <2>3. CASE \E b \in Builds : PruneImage(b) \/ LeaseExpires(b)
    BY <2>3, WriteOrdered DEF PruneImage, LeaseExpires, Set
  <2>4. CASE (\E r \in Revisions : ApplyRetry(r)) \/ ApplyRebuildAll
    BY <2>4, WriteOrdered DEF ApplyRetry, ApplyRebuildAll, Replace
  <2> QED BY <1>3, <2>1, <2>2, <2>3, <2>4 DEF Backend
<1>4. CASE UNCHANGED vars
  BY <1>4, WriteOrdered DEF vars
<1> QED BY <1>1, <1>2, <1>3, <1>4 DEF Next

(* Pruning an image leaves its module the retained number of ready images,  *)
(* when the revisions are finitely many: the images that rank above it are  *)
(* as many, it is not one of them, and they stay ready.                    *)
THEOREM PruningKeepsTheRetained ==
    ASSUME IsFiniteSet(Revisions)
    PROVE  Spec => RetentionKept
<1>1. IsFiniteSet(Builds)
  <2>1. IsFiniteSet(Generations)
    BY FS_Interval, ConstantsAssumption DEF ConstantsAssumption, Generations
  <2> QED BY <2>1, FS_Product, Zenon DEF Builds
<1>2. TypeInv /\ Ordered /\ [Next]_vars => [RetentionKeptStep]_vars
  <2> SUFFICES ASSUME TypeInv, Ordered, TableStep, NEW b \in Builds,
                      Status(b) = "ready", Status(b)' = "pruned"
               PROVE  Cardinality(ReadyOf(ModuleOf[b[1]])') >= Retention
    BY RowSteps DEF RetentionKeptStep
  <2> DEFINE above == RankedAbove(b)
             ready == ReadyOf(ModuleOf[b[1]])'
  <2>1. Withdrawn(b)
    BY StatusAfter DEF TableStep, RowStep, Active, Exists
  <2>2. /\ \A c \in Builds \ {b} : Kept(c)
        /\ Cardinality(above) >= (IF Retention < 2 THEN 2 ELSE Retention)
    <3>1. builds[b] \in Row
      BY DEF TypeInv, TypeOK
    <3>2. [builds[b] EXCEPT !.status = "superseded"].status = "superseded"
      BY <3>1 DEF Row
    <3> QED BY <2>1, <3>2 DEF Withdrawn, Status
  <2>3. b \notin above
    <3>1. b[2] \in Nat
      BY ConstantsAssumption DEF ConstantsAssumption, Builds, Generations
    <3> QED BY <3>1 DEF RankedAbove, Ordered
  <2>4. above \subseteq ready
    BY <2>2, <2>3 DEF RankedAbove, ReadyOf, Kept, Status
  <2>5. IsFiniteSet(ready)
    BY <1>1, FS_Subset DEF ReadyOf
  <2>6. /\ IsFiniteSet(above) /\ Cardinality(above) <= Cardinality(ready)
        /\ Cardinality(above) \in Nat /\ Cardinality(ready) \in Nat
    BY <2>4, <2>5, FS_Subset, FS_CardinalityType
  <2> QED BY <2>2, <2>6, ConstantsAssumption DEF ConstantsAssumption
<1>3. Init => Ordered
  BY DEF Init, Ordered
<1> QED BY <1>2, <1>3, OrderedStep, TypeInit, TypeStep, PTL DEF Spec, RetentionKept
===============================================================================
