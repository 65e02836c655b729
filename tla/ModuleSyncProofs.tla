--------------------------- MODULE ModuleSyncProofs ---------------------------
(* Theorems about ModuleSync for every value of its constants. *)
EXTENDS ModuleSync, TLAPS

(* What an import has kept beyond its freeze has passed validation. *)
ImportPassed ==
    importer.pc \in {"row", "revision", "verdict"} => Passes(importer.source)

Validated == TypeOK /\ ImportPassed /\ RecordedWasValidated

(* Nobody knows of the module while it is imported. *)
ImportAlone == importer.pc # "done" => \A r \in Requests : At(r, "idle")

(* Only a sync moves the checkout, and a sync that has named the commit is  *)
(* at that commit, then holds its source.                                  *)
MoversAreSyncs ==
    \A r \in Requests :
        req[r].pc \in {"upstream", "compare", "reread", "refetch", "merge", "name",
                      "finalize", "rollback"} => r \in Syncs
NamedIsFrozen ==
    \A r \in Syncs : /\ req[r].pc = "freeze" => req[r].sha = tree
                     /\ req[r].pc = "finalize" => req[r].source = req[r].sha

Labelled == ImportAlone /\ MoversAreSyncs /\ NamedIsFrozen /\ SyncedRevisionIsItsCommit

RequestState ==
    [pc : Places, sha : Trees, upstream : Trees, seen : Trees, source : Trees]
RequestsOK == req \in [Requests -> RequestState]

-------------------------------------------------------------------------------
LEMMA TypeParts == TypeOK => RequestsOK
BY DEF TypeOK, RequestsOK, RequestState

LEMMA GoToOK ==
    ASSUME RequestsOK, NEW r \in Requests, NEW place \in Places, GoTo(r, place)
    PROVE  RequestsOK'
BY DEF RequestsOK, RequestState, GoTo

LEMMA EndOK ==
    ASSUME RequestsOK, NEW r \in Requests, End(r)
    PROVE  RequestsOK'
<1>1. Idle \in RequestState
  BY DEF Idle, RequestState, Places, Trees
<1> QED BY <1>1 DEF RequestsOK, End

LEMMA FaultOK ==
    ASSUME faults \in 0..MaxFaults, Fault
    PROVE  faults' \in 0..MaxFaults
BY ConstantsAssumption DEF ConstantsAssumption, Fault

LEMMA RevisionOK ==
    ASSUME NEW commit \in Trees, NEW event \in {"import", "sync", "validation"},
           NEW source \in Trees
    PROVE  Revision(commit, event, source) \in Revisions
BY DEF Revision, Revisions

-------------------------------------------------------------------------------
(* The variables keep their types: commits stay within the branch, and     *)
(* failures within their bound.                                            *)
LEMMA TypeStep == TypeOK /\ [Next]_vars => TypeOK'
<1> SUFFICES ASSUME TypeOK, [Next]_vars PROVE TypeOK'
  OBVIOUS
<1>0. RequestsOK
  BY TypeParts
<1>1. CASE UNCHANGED vars
  BY <1>1 DEF TypeOK, vars, upstreamVars, recordVars, faultVars
<1>2. CASE Push
  BY <1>2, ConstantsAssumption
     DEF TypeOK, Push, ConstantsAssumption, recordVars, faultVars, Commits
<1>3. CASE DeleteModule
  BY <1>3, FaultOK DEF TypeOK, DeleteModule, upstreamVars
<1>4. CASE Import
  <2>1. CASE ImportClone
    BY <2>1 DEF TypeOK, ImportClone, upstreamVars, recordVars, faultVars, Trees
  <2>2. CASE ImportFreeze
    BY <2>2 DEF TypeOK, ImportFreeze, upstreamVars, recordVars, faultVars, Trees
  <2>3. CASE ImportRow
    BY <2>3 DEF TypeOK, ImportRow, upstreamVars, faultVars
  <2>4. CASE ImportRevision
    BY <2>4, RevisionOK DEF TypeOK, ImportRevision, upstreamVars, faultVars
  <2>5. CASE ImportVerdict
    BY <2>5 DEF TypeOK, ImportVerdict, upstreamVars, faultVars, Trees
  <2>6. CASE ImportImage
    BY <2>6 DEF TypeOK, ImportImage, upstreamVars, recordVars, faultVars
  <2> QED BY <1>4, <2>1, <2>2, <2>3, <2>4, <2>5, <2>6 DEF Import
<1>5. CASE ImportFails
  BY <1>5, FaultOK DEF TypeOK, ImportFails, upstreamVars, recordVars, Trees
<1>6. CASE Crash
  <2>1. req' \in [Requests -> RequestState]
    BY <1>6 DEF Crash, RequestState, Idle, Places, Trees
  <2> QED BY <1>6, <2>1, FaultOK
          DEF TypeOK, Crash, RequestState, upstreamVars, recordVars, Trees
<1>7. ASSUME NEW r \in Requests, Start(r) \/ Resolve(r) \/ Step(r) \/ Failure(r)
      PROVE  TypeOK'
  <2>1. CASE Start(r)
    <3> DEFINE c == [req[r] EXCEPT !.pc = "fetch",
                                   !.seen = IF r \in Syncs THEN @ ELSE recorded]
    <3>1. c \in RequestState
      BY <1>0 DEF TypeOK, RequestsOK, RequestState, Places
    <3>2. req' = [req EXCEPT ![r] = c]
      BY <2>1 DEF Start
    <3> HIDE DEF c
    <3>3. RequestsOK'
      BY <1>0, <3>1, <3>2 DEF RequestsOK
    <3> QED BY <2>1, <3>3 DEF TypeOK, Start, RequestsOK, RequestState,
                              upstreamVars, recordVars, faultVars
  <2>2. CASE Resolve(r)
    BY <1>0, <2>2 DEF TypeOK, Resolve, RequestsOK, RequestState, Places,
                      upstreamVars, recordVars, faultVars
  <2>3. CASE Fetch(r)
    <3>1. RequestsOK'
      BY <1>0, <2>3, GoToOK DEF Fetch, Places
    <3> QED BY <2>3, <3>1 DEF TypeOK, Fetch, RequestsOK, RequestState, Trees,
                              recordVars, faultVars
  <2>4. CASE ReadHead(r)
    <3>1. ASSUME NEW place \in Places,
                 req' = [req EXCEPT ![r].pc = place, ![r].sha = tree]
          PROVE  RequestsOK'
      BY <1>0, <3>1 DEF TypeOK, RequestsOK, RequestState
    <3>2. RequestsOK'
      BY <2>4, <3>1 DEF ReadHead, Places
    <3> QED BY <2>4, <3>2 DEF TypeOK, ReadHead, RequestsOK, RequestState,
                              upstreamVars, recordVars, faultVars
  <2>5. CASE Compare(r)
    <3>1. RequestsOK'
      <4>1. CASE End(r)
        BY <1>0, <4>1, EndOK
      <4>2. CASE req' = [req EXCEPT ![r] = [Idle EXCEPT !.pc = "reread"]]
        BY <1>0, <4>2 DEF RequestsOK, RequestState, Idle, Places, Trees
      <4> QED BY <2>5, <4>1, <4>2 DEF Compare
    <3> QED BY <2>5, <3>1 DEF TypeOK, Compare, RequestsOK, RequestState,
                              upstreamVars, recordVars, faultVars
  <2>17. CASE Persist(r)
    <3>1. RequestsOK'
      BY <1>0, <2>17, EndOK DEF Persist
    <3>2. recorded' \in Trees
      BY <1>0, <2>17 DEF Persist, RequestsOK, RequestState
    <3> QED BY <2>17, <3>1, <3>2 DEF TypeOK, Persist, RequestsOK, RequestState,
                                     upstreamVars, faultVars
  <2>18. CASE ReadUpstream(r)
    <3> DEFINE c == [req[r] EXCEPT !.pc = "compare", !.upstream = fetched]
    <3>1. c \in RequestState
      BY <1>0 DEF TypeOK, RequestsOK, RequestState, Places
    <3>2. req' = [req EXCEPT ![r] = c]
      BY <2>18 DEF ReadUpstream
    <3> HIDE DEF c
    <3>3. RequestsOK'
      BY <1>0, <3>1, <3>2 DEF RequestsOK
    <3> QED BY <2>18, <3>3 DEF TypeOK, ReadUpstream, RequestsOK, RequestState,
                               upstreamVars, recordVars, faultVars
  <2>19. CASE Reread(r)
    <3>1. RequestsOK'
      <4>1. CASE End(r)
        BY <1>0, <4>1, EndOK
      <4>2. CASE req' = [req EXCEPT ![r].pc = "refetch", ![r].seen = recorded]
        <5> DEFINE c == [req[r] EXCEPT !.pc = "refetch", !.seen = recorded]
        <5>1. c \in RequestState
          BY <1>0 DEF TypeOK, RequestsOK, RequestState, Places
        <5>2. req' = [req EXCEPT ![r] = c]
          BY <4>2
        <5> HIDE DEF c
        <5> QED BY <1>0, <5>1, <5>2 DEF RequestsOK
      <4> QED BY <2>19, <4>1, <4>2 DEF Reread
    <3> QED BY <2>19, <3>1 DEF TypeOK, Reread, RequestsOK, RequestState,
                               upstreamVars, recordVars, faultVars
  <2>6. CASE Merge(r)
    <3>1. RequestsOK'
      BY <1>0, <2>6, GoToOK DEF Merge, Places
    <3> QED BY <2>6, <3>1 DEF TypeOK, Merge, RequestsOK, RequestState,
                              upstreamVars, recordVars, faultVars
  <2>7. CASE Name(r)
    BY <1>0, <2>7 DEF TypeOK, Name, RequestsOK, RequestState, Places,
                      upstreamVars, recordVars, faultVars
  <2>8. CASE Freeze(r)
    <3>1. ASSUME NEW place \in Places,
                 req' = [req EXCEPT ![r].pc = place, ![r].source = tree]
          PROVE  RequestsOK'
      BY <1>0, <3>1 DEF TypeOK, RequestsOK, RequestState
    <3>2. RequestsOK'
      BY <2>8, <3>1 DEF Freeze, Places
    <3> QED BY <2>8, <3>2 DEF TypeOK, Freeze, RequestsOK, RequestState,
                              upstreamVars, recordVars, faultVars
  <2>9. CASE Finalize(r)
    <3>1. RequestsOK'
      BY <1>0, <2>9, EndOK DEF Finalize
    <3>2. req[r].sha \in Trees /\ req[r].source \in Trees
      BY <1>0 DEF RequestsOK, RequestState
    <3>3. current' \in Revisions
      BY <2>9, <3>2, RevisionOK DEF Finalize
    <3> QED BY <2>9, <3>1, <3>2, <3>3
            DEF TypeOK, Finalize, RequestsOK, RequestState, upstreamVars, faultVars
  <2>10. CASE Rollback(r)
    <3>1. RequestsOK'
      BY <1>0, <2>10, EndOK DEF Rollback
    <3>2. tree' \in Trees /\ stranded' \in SUBSET Trees
      BY <1>0, <2>10 DEF TypeOK, Rollback, RequestsOK, RequestState
    <3> QED BY <2>10, <3>1, <3>2 DEF TypeOK, Rollback, RequestsOK, RequestState,
                                     upstreamVars, recordVars
  <2>11. CASE RecordRevision(r)
    <3>1. RequestsOK'
      BY <1>0, <2>11, GoToOK DEF RecordRevision, Places
    <3>2. req[r].sha \in Trees /\ req[r].source \in Trees
      BY <1>0 DEF RequestsOK, RequestState
    <3>3. current' \in Revisions
      BY <2>11, <3>2, RevisionOK DEF RecordRevision, TypeOK
    <3> QED BY <2>11, <3>1, <3>3 DEF TypeOK, RecordRevision, RequestsOK,
                                     RequestState, upstreamVars, faultVars
  <2>12. CASE SetVerdict(r)
    <3>1. RequestsOK'
      BY <1>0, <2>12, EndOK DEF SetVerdict
    <3>2. verdict' \in Trees
      BY <1>0, <2>12 DEF SetVerdict, RequestsOK, RequestState, Trees
    <3> QED BY <2>12, <3>1, <3>2 DEF TypeOK, SetVerdict, RequestsOK,
                                     RequestState, upstreamVars, faultVars
  <2>13. CASE RefreshFails(r)
    <3>1. RequestsOK'
      BY <1>0, <2>13, EndOK DEF RefreshFails
    <3>2. recorded' \in Trees
      BY <1>0, <2>13 DEF RefreshFails, TypeOK, RequestsOK, RequestState
    <3> QED BY <2>13, <3>1, <3>2, FaultOK DEF TypeOK, RefreshFails, RequestsOK,
                                              RequestState, upstreamVars
  <2>14. CASE SyncFails(r)
    <3>1. RequestsOK'
      BY <1>0, <2>14, GoToOK, EndOK DEF SyncFails, Places
    <3> QED BY <2>14, <3>1, FaultOK DEF TypeOK, SyncFails, RequestsOK,
                                        RequestState, upstreamVars, recordVars
  <2>15. CASE RollbackFails(r)
    <3>1. RequestsOK'
      BY <1>0, <2>15, EndOK DEF RollbackFails
    <3> QED BY <2>15, <3>1, FaultOK DEF TypeOK, RollbackFails, RequestsOK,
                                        RequestState, upstreamVars, recordVars
  <2>16. CASE SnapshotFails(r)
    <3>1. RequestsOK'
      BY <1>0, <2>16, EndOK DEF SnapshotFails
    <3> QED BY <2>16, <3>1, FaultOK DEF TypeOK, SnapshotFails, RequestsOK,
                                        RequestState, upstreamVars, recordVars
  <2> QED BY <1>7, <2>1, <2>2, <2>3, <2>4, <2>5, <2>6, <2>7, <2>8, <2>9, <2>10,
             <2>11, <2>12, <2>13, <2>14, <2>15, <2>16, <2>17, <2>18, <2>19
          DEF Step, Failure
<1> QED BY <1>1, <1>2, <1>3, <1>4, <1>5, <1>6, <1>7 DEF Next

LEMMA TypeInit == Init => TypeOK
<1> SUFFICES ASSUME Init PROVE TypeOK
  OBVIOUS
<1>1. NoCommit \in Trees /\ remote \in Commits /\ faults \in 0..MaxFaults
  BY ConstantsAssumption DEF Init, ConstantsAssumption, Commits, Trees
<1>2. Idle \in RequestState /\ NoRevision \in Revisions
  BY <1>1 DEF Idle, RequestState, Places, NoRevision, Revision, Revisions
<1> QED BY <1>1, <1>2 DEF Init, TypeOK, RequestState

(* The branch, the checkout, the records and every request keep their       *)
(* types, and failures stay within their bound.                            *)
THEOREM ModuleSyncTypes == Spec => []TypeOK
<1> QED BY TypeInit, TypeStep, PTL DEF Spec

-------------------------------------------------------------------------------
(* A source is recorded by an import, a sync or a validation, each with the *)
(* snapshot it has validated.                                              *)
LEMMA ValidatedStep == Validated /\ [Next]_vars => Validated'
<1> SUFFICES ASSUME Validated, [Next]_vars PROVE Validated'
  OBVIOUS
<1>0. TypeOK'
  BY TypeStep DEF Validated
<1>1. ASSUME UNCHANGED <<importer, current, verdict>> PROVE Validated'
  BY <1>0, <1>1 DEF Validated, ImportPassed, RecordedWasValidated, Passes
<1>2. CASE UNCHANGED vars \/ Push \/ DeleteModule
  BY <1>1, <1>2 DEF vars, Push, DeleteModule, recordVars
<1>3. CASE Import
  <2>1. CASE ImportClone \/ ImportFreeze
    BY <1>0, <2>1 DEF Validated, ImportClone, ImportFreeze, ImportPassed, TypeOK,
                      RecordedWasValidated, Passes, recordVars
  <2>2. CASE ImportRow
    BY <1>0, <2>2 DEF Validated, ImportRow, ImportPassed, TypeOK,
                      RecordedWasValidated, Passes
  <2>3. CASE ImportRevision
    BY <1>0, <2>3 DEF Validated, ImportRevision, ImportPassed, TypeOK,
                      RecordedWasValidated, Passes, Revision
  <2>4. CASE ImportVerdict \/ ImportImage
    BY <1>0, <2>4 DEF Validated, ImportVerdict, ImportImage, ImportPassed, TypeOK,
                      RecordedWasValidated, Passes, recordVars
  <2> QED BY <1>3, <2>1, <2>2, <2>3, <2>4 DEF Import
<1>4. CASE ImportFails \/ Crash
  BY <1>0, <1>4 DEF Validated, ImportFails, Crash, ImportPassed,
                    RecordedWasValidated, Passes, recordVars
<1>5. ASSUME NEW r \in Requests, Start(r) \/ Resolve(r) \/ Step(r) \/ Failure(r)
      PROVE  Validated'
  <2>1. CASE Finalize(r)
    BY <1>0, <2>1 DEF Validated, Finalize, ImportPassed, RecordedWasValidated,
                      Passes, Revision
  <2>2. CASE RecordRevision(r)
    BY <1>0, <2>2 DEF Validated, RecordRevision, ImportPassed,
                      RecordedWasValidated, Passes, Revision
  <2>3. CASE SetVerdict(r)
    BY <1>0, <2>3 DEF Validated, SetVerdict, ImportPassed, RecordedWasValidated,
                      Passes
  <2>4. CASE ~(Finalize(r) \/ RecordRevision(r) \/ SetVerdict(r))
    <3>1. UNCHANGED <<importer, current, verdict>>
      BY <1>5, <2>4 DEF Start, Resolve, Step, Failure, Fetch, ReadHead, Persist,
                        ReadUpstream, Compare, Reread, Merge, Name, Freeze, Rollback, RefreshFails, SyncFails,
                        RollbackFails, SnapshotFails, recordVars
    <3> QED BY <1>1, <3>1
  <2> QED BY <2>1, <2>2, <2>3, <2>4
<1> QED BY <1>2, <1>3, <1>4, <1>5 DEF Next

(* Nothing but a validated snapshot is ever the source of the current       *)
(* revision or of a passed verdict: freezing before validating leaves no    *)
(* moment at which the checkout could change what is recorded.             *)
THEOREM OnlyValidatedIsRecorded == Spec => []RecordedWasValidated
<1>1. Init => Validated
  BY TypeInit DEF Init, Validated, ImportPassed, RecordedWasValidated,
                  NoRevision, Revision
<1>2. Validated => RecordedWasValidated
  BY DEF Validated
<1> QED BY <1>1, <1>2, ValidatedStep, PTL DEF Spec

-------------------------------------------------------------------------------
(* One sync at a time: the assumption of the last theorem. *)
OneSync == \A r, s \in Syncs : r = s

(* The requests that are left alone stay where they are. *)
LEMMA LabelledRequests ==
    ASSUME Labelled, RequestsOK, NEW r \in Requests,
           \A s \in Requests \ {r} : req'[s] = req[s],
           importer.pc = "done", UNCHANGED importer,
           req'[r].pc \in {"upstream", "compare", "reread", "refetch", "merge", "name",
                          "finalize", "rollback"} => r \in Syncs,
           r \in Syncs => /\ req'[r].pc = "freeze" => req'[r].sha = tree'
                          /\ req'[r].pc = "finalize" => req'[r].source = req'[r].sha,
           UNCHANGED tree \/ Syncs = {r},
           SyncedRevisionIsItsCommit'
    PROVE  Labelled'
<1>1. ImportAlone'
  BY DEF ImportAlone
<1>2. MoversAreSyncs'
  BY DEF Labelled, MoversAreSyncs
<1>3. ASSUME NEW s \in Syncs
      PROVE  /\ req'[s].pc = "freeze" => req'[s].sha = tree'
             /\ req'[s].pc = "finalize" => req'[s].source = req'[s].sha
  <2>1. CASE s = r
    BY <2>1, <1>3
  <2>2. CASE s # r
    <3>1. UNCHANGED tree /\ req'[s] = req[s]
      BY <2>2, <1>3 DEF Requests
    <3> QED BY <3>1, <1>3 DEF Labelled, NamedIsFrozen
  <2> QED BY <2>1, <2>2
<1> QED BY <1>1, <1>2, <1>3 DEF Labelled, NamedIsFrozen

LEMMA LabelledStep ==
    ASSUME OneSync, TypeOK, Labelled, [Next]_vars
    PROVE  Labelled'
<1>0. RequestsOK
  BY TypeParts
<1>1. ASSUME UNCHANGED <<tree, importer, current, req>> PROVE Labelled'
  BY <1>1 DEF Labelled, ImportAlone, MoversAreSyncs, NamedIsFrozen,
              SyncedRevisionIsItsCommit, At
<1>2. CASE UNCHANGED vars \/ Push \/ DeleteModule
  BY <1>1, <1>2 DEF vars, Push, DeleteModule, recordVars
<1>3. CASE Import \/ ImportFails
  <2>1. importer.pc # "done" /\ UNCHANGED req
    BY <1>3 DEF Import, ImportClone, ImportFreeze, ImportRow, ImportRevision,
                ImportVerdict, ImportImage, ImportFails
  <2>2. \A r \in Requests : At(r, "idle") /\ At(r, "idle")'
    BY <2>1 DEF Labelled, ImportAlone, At
  <2>3. SyncedRevisionIsItsCommit'
    BY <1>3 DEF Import, ImportClone, ImportFreeze, ImportRow, ImportRevision,
                ImportVerdict, ImportImage, ImportFails, Labelled, SyncedRevisionIsItsCommit,
                recordVars, Revision
  <2> QED BY <2>1, <2>2, <2>3
          DEF Labelled, ImportAlone, MoversAreSyncs, NamedIsFrozen, Requests, At
<1>4. CASE Crash
  <2>1. \A r \in Requests : req'[r].pc = "idle"
    BY <1>4 DEF Crash, Idle
  <2>2. SyncedRevisionIsItsCommit'
    BY <1>4 DEF Crash, Labelled, SyncedRevisionIsItsCommit, recordVars
  <2> QED BY <2>1, <2>2
          DEF Labelled, ImportAlone, MoversAreSyncs, NamedIsFrozen, Requests, At
<1>5. ASSUME NEW r \in Requests, Start(r) \/ Resolve(r) \/ Step(r) \/ Failure(r)
      PROVE  Labelled'
  <2>1. UNCHANGED importer
    BY <1>5 DEF Start, Resolve, Step, Failure, Fetch, ReadHead, Persist,
                ReadUpstream, Compare, Reread, Merge, Name, Freeze, Finalize, Rollback, RecordRevision, SetVerdict,
                RefreshFails, SyncFails, RollbackFails, SnapshotFails
  <2>2. importer.pc = "done"
    BY <1>5 DEF Labelled, ImportAlone, Start, Resolve, Step, Failure, Fetch,
                ReadHead, Persist, ReadUpstream, Compare, Reread, Merge, Name,
                Freeze, Finalize, Rollback, RecordRevision, SetVerdict, RefreshFails, SyncFails,
                RollbackFails, SnapshotFails, At, Known
  <2>3. \A s \in Requests \ {r} : req'[s] = req[s]
    BY <1>0, <1>5 DEF RequestsOK, Start, Resolve, Step, Failure, Fetch, ReadHead,
                Persist, ReadUpstream, Compare, Reread, Merge, Name, Freeze, Finalize, Rollback, RecordRevision,
                SetVerdict, RefreshFails, SyncFails, RollbackFails, SnapshotFails,
                GoTo, End
  <2> DEFINE Moved == /\ req'[r].pc \in {"upstream", "compare", "reread", "refetch",
                                         "merge", "name", "finalize", "rollback"}
                           => r \in Syncs
                      /\ r \in Syncs =>
                           /\ req'[r].pc = "freeze" => req'[r].sha = tree'
                           /\ req'[r].pc = "finalize" =>
                                req'[r].source = req'[r].sha
  <2>4. ASSUME Moved, UNCHANGED tree \/ Syncs = {r}, SyncedRevisionIsItsCommit'
        PROVE  Labelled'
    BY <1>0, <2>1, <2>2, <2>3, <2>4, LabelledRequests
  <2>5. ASSUME UNCHANGED current PROVE SyncedRevisionIsItsCommit'
    BY <2>5 DEF Labelled, SyncedRevisionIsItsCommit
  <2> HIDE DEF Moved
  <2>6. CASE Start(r) \/ Resolve(r)
    <3>1. Moved
      <4>1. CASE Start(r)
        BY <1>0, <4>1 DEF Moved, RequestsOK, RequestState, Start
      <4>2. CASE Resolve(r)
        <5>1. r \notin Syncs
          BY <4>2, ConstantsAssumption DEF Resolve, ConstantsAssumption
        <5> QED BY <1>0, <4>2, <5>1 DEF Moved, RequestsOK, RequestState, Resolve
      <4> QED BY <2>6, <4>1, <4>2
    <3>2. UNCHANGED <<tree, current>>
      BY <2>6 DEF Start, Resolve, recordVars
    <3> QED BY <2>4, <2>5, <3>1, <3>2
  <2>7. CASE \/ Fetch(r) \/ ReadHead(r) \/ Persist(r) \/ ReadUpstream(r)
             \/ Compare(r) \/ Reread(r)
    <3>1. Moved
      <4>1. CASE Fetch(r)
        BY <1>0, <4>1 DEF Moved, RequestsOK, RequestState, Fetch, GoTo, At,
                          Labelled, MoversAreSyncs
      <4>2. CASE ReadHead(r)
        BY <1>0, <4>2 DEF Moved, RequestsOK, RequestState, ReadHead
      <4>3. CASE Persist(r)
        BY <1>0, <4>3 DEF Moved, RequestsOK, Persist, End, Idle
      <4>4. CASE ReadUpstream(r) \/ Compare(r) \/ Reread(r)
        <5>1. r \in Syncs
          BY <4>4 DEF ReadUpstream, Compare, Reread, At, Labelled, MoversAreSyncs
        <5>2. req'[r].pc \in {"compare", "reread", "refetch", "idle"}
          BY <1>0, <4>4 DEF ReadUpstream, Compare, Reread, RequestsOK, RequestState,
                            End, Idle
        <5> QED BY <5>1, <5>2 DEF Moved
      <4> QED BY <2>7, <4>1, <4>2, <4>3, <4>4
    <3>2. UNCHANGED <<tree, current>>
      BY <2>7 DEF Fetch, ReadHead, Persist, ReadUpstream, Compare, Reread, recordVars
    <3> QED BY <2>4, <2>5, <3>1, <3>2
  <2>8. CASE Merge(r) \/ Rollback(r)
    <3>1. r \in Syncs
      BY <2>8 DEF Merge, Rollback, At, Labelled, MoversAreSyncs
    <3>2. Syncs = {r}
      BY <3>1 DEF OneSync
    <3>3. Moved
      <4>1. req'[r].pc \in {"name", "idle"}
        BY <1>0, <2>8 DEF RequestsOK, RequestState, Merge, Rollback, GoTo, End, Idle
      <4> QED BY <3>1, <4>1 DEF Moved
    <3>4. UNCHANGED current
      BY <2>8 DEF Merge, Rollback, recordVars
    <3> QED BY <2>4, <2>5, <3>2, <3>3, <3>4
  <2>9. CASE Name(r) \/ Freeze(r)
    <3>1. Moved
      BY <1>0, <2>9 DEF Moved, RequestsOK, RequestState, Name, Freeze, At,
                        Labelled, MoversAreSyncs, NamedIsFrozen
    <3>2. UNCHANGED <<tree, current>>
      BY <2>9 DEF Name, Freeze, recordVars
    <3> QED BY <2>4, <2>5, <3>1, <3>2
  <2>10. CASE Finalize(r)
    <3>1. r \in Syncs
      BY <2>10 DEF Finalize, At, Labelled, MoversAreSyncs
    <3>2. req[r].source = req[r].sha
      BY <2>10, <3>1 DEF Finalize, At, Labelled, NamedIsFrozen
    <3>3. SyncedRevisionIsItsCommit'
      BY <2>10, <3>2 DEF Finalize, SyncedRevisionIsItsCommit, Revision
    <3>4. Moved
      BY <1>0, <2>10 DEF Moved, RequestsOK, RequestState, Finalize, End, Idle
    <3>5. UNCHANGED tree
      BY <2>10 DEF Finalize
    <3> QED BY <2>4, <3>3, <3>4, <3>5
  <2>11. CASE RecordRevision(r)
    <3>1. SyncedRevisionIsItsCommit'
      BY <2>11 DEF RecordRevision, SyncedRevisionIsItsCommit, Revision, Labelled
    <3>2. Moved
      BY <1>0, <2>11 DEF Moved, RequestsOK, RequestState, RecordRevision, GoTo
    <3>3. UNCHANGED tree
      BY <2>11 DEF RecordRevision
    <3> QED BY <2>4, <3>1, <3>2, <3>3
  <2>12. CASE SetVerdict(r) \/ Failure(r)
    <3>1. Moved
      BY <1>0, <2>12 DEF Moved, RequestsOK, RequestState, SetVerdict, Failure,
                         RefreshFails, SyncFails, RollbackFails, SnapshotFails,
                         GoTo, End, Idle
    <3>2. UNCHANGED <<tree, current>>
      BY <2>12 DEF SetVerdict, Failure, RefreshFails, SyncFails, RollbackFails,
                   SnapshotFails, recordVars
    <3> QED BY <2>4, <2>5, <3>1, <3>2
  <2> QED BY <1>5, <2>6, <2>7, <2>8, <2>9, <2>10, <2>11, <2>12 DEF Step
<1> QED BY <1>2, <1>3, <1>4, <1>5 DEF Next

(* As long as a module is synchronized by one request at a time, the        *)
(* revision a sync records holds the source of the commit it names: only    *)
(* that request moves HEAD between naming the commit and freezing it.       *)
THEOREM OneSyncLabelsItsSource ==
    ASSUME OneSync PROVE Spec => []SyncedRevisionIsItsCommit
<1>1. Init => Labelled
  BY DEF Init, Labelled, ImportAlone, MoversAreSyncs, NamedIsFrozen, At, Idle,
         SyncedRevisionIsItsCommit, NoRevision, Revision, Requests
<1>2. TypeOK /\ Labelled /\ [Next]_vars => Labelled'
  BY LabelledStep
<1>3. Labelled => SyncedRevisionIsItsCommit
  BY DEF Labelled
<1> QED BY <1>1, <1>2, <1>3, TypeInit, TypeStep, PTL DEF Spec
===============================================================================
