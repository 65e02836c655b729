------------------------------ MODULE ModuleSync ------------------------------
(***************************************************************************)
(* One module imported from GitHub: the branch upstream, the checkout all  *)
(* requests share without a lock, its row in module_imports, the current   *)
(* revision and the verdict in runtime_bundles.  Around the import run     *)
(* synchronizations, validations and status checks, every git command      *)
(* whose result is used and every committed statement a step of its own.   *)
(* Edits of the metadata, which write to the checkout, are left out.       *)
(*                                                                         *)
(* Commits are numbered along the branch, which is only appended to.  A    *)
(* revision stands for its commit, its event and its frozen source; two    *)
(* rows that agree on these are one revision, as in _create_bundle_revision.*)
(***************************************************************************)
EXTENDS Naturals, FiniteSets

CONSTANTS
    Syncs,         \* requests that may be open at once: synchronizations,
    Validations,   \* validations,
    Checks,        \* and status checks; one in both is the one or the other
    BadCommits,    \* commits whose bundle does not validate
    MaxCommit,     \* bound: commits upstream
    MaxFaults      \* bound: failed steps, crashes of the backend, deletions

Requests == Syncs \cup Validations \cup Checks
Commits == 1..MaxCommit
NoCommit == 0

ASSUME ConstantsAssumption ==
    /\ MaxCommit \in Nat \ {0} /\ MaxFaults \in Nat
    /\ BadCommits \subseteq Commits
    /\ Syncs \cap (Validations \cup Checks) = {}

VARIABLES
    remote,     \* newest commit of the branch upstream
    tree,       \* HEAD of the checkout, NoCommit if there is none
    fetched,    \* FETCH_HEAD of the checkout
    importer,   \* the import: its next step and what it has frozen
    module,     \* the row of the module: absent, present, deleted
    recorded,   \* its current_commit_sha
    current,    \* the revision current_revision_id names
    verdict,    \* source of the revision that passed, NoCommit if it failed
    req,        \* requests
    stranded,   \* commits at which the checkout was left without a revision
    faults

upstreamVars == <<remote, fetched>>
recordVars == <<module, recorded, current, verdict>>
faultVars == <<stranded, faults>>
vars == <<upstreamVars, tree, importer, recordVars, req, faultVars>>

Trees == Commits \cup {NoCommit}
Passes(source) == source \in Commits \ BadCommits

Revision(commit, event, source) ==
    [commit |-> commit, event |-> event, source |-> source]
NoRevision == Revision(NoCommit, "none", NoCommit)
Revisions ==
    [commit : Trees, event : {"none", "import", "sync", "validation"}, source : Trees]

Idle == [pc |-> "idle", sha |-> NoCommit, upstream |-> NoCommit, seen |-> NoCommit,
         source |-> NoCommit]
Places == {"idle", "fetch", "head", "persist", "upstream", "compare", "reread",
           "refetch", "merge", "name", "freeze", "finalize", "rollback", "record",
           "verdict"}

TypeOK ==
    /\ remote \in Commits /\ fetched \in Trees
    /\ tree \in Trees
    /\ importer \in [pc : {"clone", "freeze", "row", "revision", "verdict", "image",
                           "done"},
                     source : Trees]
    /\ module \in {"absent", "present", "deleted"}
    /\ recorded \in Trees
    /\ current \in Revisions /\ verdict \in Trees
    /\ req \in [Requests -> [pc : Places, sha : Trees, upstream : Trees,
                             seen : Trees, source : Trees]]
    /\ stranded \in SUBSET Trees /\ faults \in 0..MaxFaults

Init ==
    /\ remote = 1 /\ fetched = NoCommit /\ tree = NoCommit
    /\ importer = [pc |-> "clone", source |-> NoCommit]
    /\ module = "absent" /\ recorded = NoCommit
    /\ current = NoRevision /\ verdict = NoCommit
    /\ req = [r \in Requests |-> Idle]
    /\ stranded = {} /\ faults = 0

At(r, place) == req[r].pc = place
GoTo(r, place) == req' = [req EXCEPT ![r].pc = place]
End(r) == req' = [req EXCEPT ![r] = Idle]
Fault == faults < MaxFaults /\ faults' = faults + 1

-----------------------------------------------------------------------------
(* The branch and the operator, who is told of the module by the answer to *)
(* the import.                                                             *)
Known == module = "present" /\ importer.pc = "done"

Push ==
    /\ remote < MaxCommit /\ remote' = remote + 1
    /\ UNCHANGED <<fetched, tree, importer, recordVars, req, faultVars>>

DeleteModule ==
    /\ Known /\ Fault /\ module' = "deleted"
    /\ UNCHANGED <<upstreamVars, tree, importer, recorded, current, verdict, req,
                   stranded>>

-----------------------------------------------------------------------------
(* The import. *)

ImportClone ==
    /\ importer.pc = "clone"
    /\ tree' = remote
    /\ importer' = [importer EXCEPT !.pc = "freeze"]
    /\ UNCHANGED <<upstreamVars, recordVars, req, faultVars>>

(* The snapshot is validated, never the checkout.  A bundle that fails     *)
(* leaves nothing: the checkout is removed before any row exists.          *)
ImportFreeze ==
    /\ importer.pc = "freeze"
    /\ \/ Passes(tree) /\ importer' = [pc |-> "row", source |-> tree]
                       /\ UNCHANGED tree
       \/ ~Passes(tree) /\ importer' = [pc |-> "done", source |-> NoCommit]
                        /\ tree' = NoCommit
    /\ UNCHANGED <<upstreamVars, recordVars, req, faultVars>>

ImportRow ==
    /\ importer.pc = "row"
    /\ module' = "present"
    /\ recorded' = importer.source
    /\ importer' = [importer EXCEPT !.pc = "revision"]
    /\ UNCHANGED <<upstreamVars, tree, current, verdict, req, faultVars>>

ImportRevision ==
    /\ importer.pc = "revision"
    /\ current' = Revision(importer.source, "import", importer.source)
    /\ importer' = [importer EXCEPT !.pc = "verdict"]
    /\ UNCHANGED <<upstreamVars, tree, module, recorded, verdict, req, faultVars>>

ImportVerdict ==
    /\ importer.pc = "verdict"
    /\ verdict' = importer.source
    /\ importer' = [pc |-> "image", source |-> NoCommit]
    /\ UNCHANGED <<upstreamVars, tree, module, recorded, current, req, faultVars>>

(* The answer needs the state of the image; reading it may fail, too. *)
ImportImage ==
    /\ importer.pc = "image"
    /\ importer' = [importer EXCEPT !.pc = "done"]
    /\ UNCHANGED <<upstreamVars, tree, recordVars, req, faultVars>>

(* Whatever fails removes the checkout; the rows written so far stay. *)
ImportFails ==
    /\ importer.pc # "done" /\ Fault
    /\ tree' = NoCommit /\ importer' = [pc |-> "done", source |-> NoCommit]
    /\ UNCHANGED <<upstreamVars, recordVars, req, stranded>>

-----------------------------------------------------------------------------
(* refresh_module_sync_status, as a request of its own and at the start of *)
(* a sync, where it is not persisted.  The status it writes, and the       *)
(* commit upstream, are only reported and are left out.                    *)

Classify(local, upstream, base) ==
    CASE local = upstream -> "synced"
      [] local # upstream /\ base = local -> "behind"
      [] local # upstream /\ base = upstream -> "ahead"
      [] OTHER -> "diverged"

Start(r) ==
    /\ r \in Syncs \cup Checks /\ At(r, "idle") /\ Known
    /\ tree # NoCommit
    /\ req' = [req EXCEPT ![r].pc = "fetch",
                          ![r].seen = IF r \in Syncs THEN @ ELSE recorded]
    /\ UNCHANGED <<upstreamVars, tree, importer, recordVars, faultVars>>

(* sync_module fetches once more before it merges. *)
Fetch(r) ==
    /\ fetched' = remote
    /\ \/ At(r, "fetch") /\ GoTo(r, "head")
       \/ At(r, "refetch") /\ GoTo(r, "merge")
    /\ UNCHANGED <<remote, tree, importer, recordVars, faultVars>>

(* What a status check reads besides HEAD makes the status it reports. *)
ReadHead(r) ==
    /\ At(r, "head")
    /\ req' = [req EXCEPT ![r].pc = IF r \in Syncs THEN "upstream" ELSE "persist",
                          ![r].sha = tree]
    /\ UNCHANGED <<upstreamVars, tree, importer, recordVars, faultVars>>

(* A status check writes the commit it has read, wherever HEAD is by now. *)
Persist(r) ==
    /\ At(r, "persist")
    /\ recorded' = req[r].sha /\ End(r)
    /\ UNCHANGED <<upstreamVars, tree, importer, module, current, verdict, faultVars>>

ReadUpstream(r) ==
    /\ At(r, "upstream")
    /\ req' = [req EXCEPT ![r].pc = "compare", ![r].upstream = fetched]
    /\ UNCHANGED <<upstreamVars, tree, importer, recordVars, faultVars>>

(* git merge-base looks at HEAD and FETCH_HEAD again: if another request   *)
(* has moved one, it is not the base of the two commits that are compared. *)
Compare(r) ==
    LET base == IF tree < fetched THEN tree ELSE fetched
    IN  /\ At(r, "compare")
        /\ IF Classify(req[r].sha, req[r].upstream, base) = "behind"
           THEN req' = [req EXCEPT ![r] = [Idle EXCEPT !.pc = "reread"]]
           ELSE End(r)
        /\ UNCHANGED <<upstreamVars, tree, importer, recordVars, faultVars>>

(* A sync reads the row again, for the commit it would return to. *)
Reread(r) ==
    /\ At(r, "reread")
    /\ IF module = "present"
       THEN req' = [req EXCEPT ![r].pc = "refetch", ![r].seen = recorded]
       ELSE End(r)
    /\ UNCHANGED <<upstreamVars, tree, importer, recordVars, faultVars>>

(* A command fails: the row gets back the commit read at the start. *)
RefreshFails(r) ==
    /\ req[r].pc \in {"fetch", "head", "persist", "upstream", "compare"} /\ Fault
    /\ recorded' = IF r \in Syncs THEN recorded ELSE req[r].seen
    /\ End(r)
    /\ UNCHANGED <<upstreamVars, tree, importer, module, current, verdict, stranded>>

-----------------------------------------------------------------------------
(* sync_module, once it found the checkout behind. *)

Merge(r) ==
    /\ At(r, "merge")
    /\ tree' = IF fetched > tree THEN fetched ELSE tree
    /\ GoTo(r, "name")
    /\ UNCHANGED <<upstreamVars, importer, recordVars, faultVars>>

(* FETCH_HEAD belongs to whoever fetched last; the commit is that of HEAD. *)
Name(r) ==
    /\ At(r, "name")
    /\ req' = [req EXCEPT ![r].pc = "freeze", ![r].sha = tree]
    /\ UNCHANGED <<upstreamVars, tree, importer, recordVars, faultVars>>

(* Mutant: what is frozen is FETCH_HEAD. *)
FreezeFetched(r) ==
    /\ At(r, "freeze") /\ tree # NoCommit
    /\ req' = [req EXCEPT ![r].pc = IF r \in Syncs THEN "finalize" ELSE "record",
                          ![r].source = IF r \in Syncs THEN fetched ELSE tree]
    /\ UNCHANGED <<upstreamVars, tree, importer, recordVars, faultVars>>

Freeze(r) ==
    /\ At(r, "freeze") /\ tree # NoCommit
    /\ req' = [req EXCEPT ![r].pc = IF r \in Syncs THEN "finalize" ELSE "record",
                          ![r].source = tree]
    /\ UNCHANGED <<upstreamVars, tree, importer, recordVars, faultVars>>

(* One transaction; it does not look at deleted_at. *)
Finalize(r) ==
    /\ At(r, "finalize") /\ Passes(req[r].source)
    /\ recorded' = req[r].sha
    /\ current' = Revision(req[r].sha, "sync", req[r].source)
    /\ verdict' = req[r].source
    /\ End(r)
    /\ UNCHANGED <<upstreamVars, tree, importer, module, faultVars>>

(* Before the merge a failure ends the sync, after it the checkout goes    *)
(* back first.                                                             *)
SyncFails(r) ==
    /\ r \in Syncs
    /\ \/ At(r, "finalize") /\ ~Passes(req[r].source) /\ UNCHANGED faults
       \/ Fault
    /\ \/ req[r].pc \in {"reread", "refetch", "merge"} /\ End(r)
       \/ req[r].pc \in {"name", "freeze", "finalize"} /\ GoTo(r, "rollback")
    /\ UNCHANGED <<upstreamVars, tree, importer, recordVars, stranded>>

(* Mutant: the checkout stays at the commit that failed. *)
GiveUp(r) ==
    /\ At(r, "rollback") /\ End(r)
    /\ UNCHANGED <<upstreamVars, tree, importer, recordVars, faultVars>>

(* It goes back to the commit the row named, which is one without a        *)
(* revision if a status check has read HEAD in the middle of a sync.       *)
Rollback(r) ==
    /\ At(r, "rollback") /\ tree' = req[r].seen /\ End(r)
    /\ stranded' = stranded \cup ({req[r].seen} \ {current.source})
    /\ UNCHANGED <<upstreamVars, importer, recordVars, faults>>

RollbackFails(r) ==
    /\ At(r, "rollback") /\ Fault /\ End(r)
    /\ stranded' = stranded \cup {tree}
    /\ UNCHANGED <<upstreamVars, tree, importer, recordVars>>

-----------------------------------------------------------------------------
(* POST /validate: the commit comes from the row, the source from the      *)
(* checkout, and the revision and the verdict are two transactions.        *)

Resolve(r) ==
    /\ r \in Validations /\ At(r, "idle") /\ Known
    /\ req' = [req EXCEPT ![r].pc = "freeze", ![r].sha = recorded]
    /\ UNCHANGED <<upstreamVars, tree, importer, recordVars, faultVars>>

SnapshotFails(r) ==
    /\ r \in Validations /\ At(r, "freeze")
    /\ \/ tree = NoCommit /\ UNCHANGED faults
       \/ tree # NoCommit /\ Fault
    /\ End(r)
    /\ UNCHANGED <<upstreamVars, tree, importer, recordVars, stranded>>

FrozenRevision(r) == Revision(req[r].sha, "validation", req[r].source)

(* Mutant: what is recorded is the checkout, not the snapshot. *)
RecordCheckout(r) ==
    /\ At(r, "record")
    /\ current' = IF Passes(req[r].source)
                  THEN Revision(req[r].sha, "validation", tree) ELSE current
    /\ GoTo(r, "verdict")
    /\ UNCHANGED <<upstreamVars, tree, importer, module, recorded, verdict, faultVars>>

RecordRevision(r) ==
    /\ At(r, "record")
    /\ current' = IF Passes(req[r].source)
                  THEN Revision(req[r].sha, "validation", req[r].source) ELSE current
    /\ GoTo(r, "verdict")
    /\ UNCHANGED <<upstreamVars, tree, importer, module, recorded, verdict, faultVars>>

SetVerdict(r) ==
    /\ At(r, "verdict")
    /\ verdict' = IF Passes(req[r].source) THEN req[r].source ELSE NoCommit
    /\ End(r)
    /\ UNCHANGED <<upstreamVars, tree, importer, module, recorded, current, faultVars>>

-----------------------------------------------------------------------------
(* The backend dies and comes back: every request is gone, files and rows  *)
(* stay as they are.                                                       *)
Advanced(r) == r \in Syncs /\ req[r].pc \in {"name", "freeze", "finalize", "rollback"}

Crash ==
    /\ Fault
    /\ \E r \in Requests : ~At(r, "idle") \/ importer.pc # "done"
    /\ stranded' = IF importer.pc # "done" \/ \E r \in Requests : Advanced(r)
                   THEN stranded \cup {tree} ELSE stranded
    /\ req' = [r \in Requests |-> Idle]
    /\ importer' = [pc |-> "done", source |-> NoCommit]
    /\ UNCHANGED <<upstreamVars, tree, recordVars>>

Import ==
    \/ ImportClone \/ ImportFreeze \/ ImportRow \/ ImportRevision \/ ImportVerdict
    \/ ImportImage

Step(r) ==
    \/ Fetch(r) \/ ReadHead(r) \/ Persist(r) \/ ReadUpstream(r) \/ Compare(r)
    \/ Reread(r)
    \/ Merge(r) \/ Name(r) \/ Freeze(r) \/ Finalize(r) \/ Rollback(r)
    \/ RecordRevision(r) \/ SetVerdict(r)

Failure(r) ==
    RefreshFails(r) \/ SyncFails(r) \/ RollbackFails(r) \/ SnapshotFails(r)

Next ==
    \/ Push \/ DeleteModule \/ Import \/ ImportFails \/ Crash
    \/ \E r \in Requests : Start(r) \/ Resolve(r) \/ Step(r) \/ Failure(r)

(* A request that has begun goes on, and a module is synchronized again    *)
(* and again; nobody has to check, validate or edit it.                    *)
Fairness ==
    /\ WF_vars(Import)
    /\ \A r \in Requests : WF_vars(Step(r) \/ Failure(r))
    /\ \A r \in Syncs : WF_vars(Start(r))

Spec == Init /\ [][Next]_vars /\ Fairness

-----------------------------------------------------------------------------
(* Whatever source a revision or a passed verdict names is a snapshot that *)
(* passed validation, although the checkout it was frozen from moves under *)
(* the validation: a sync merges, fails and resets it at any moment.       *)
RecordedWasValidated ==
    \A source \in {current.source, verdict} :
        source # NoCommit => Passes(source)

(* With one sync at a time, the revision a sync records holds the source   *)
(* of the commit it is labelled with: checks move FETCH_HEAD and the       *)
(* branch moves between the commands, but not HEAD.                        *)
SyncedRevisionIsItsCommit ==
    current.event = "sync" => current.source = current.commit

(* Once the branch rests at a bundle that validates, repeated syncs record *)
(* it, also after syncs that failed at it or at commits before it.         *)
(* Excepted: a module that is gone or whose import failed, a validation    *)
(* that has recorded its revision after the sync, and a commit at which    *)
(* the checkout was left without a revision, where a sync finds nothing to *)
(* do: by a process that died past the merge, by a rollback that failed,   *)
(* or by one to a commit that only a status check had recorded.            *)
SyncCatchesUp ==
    []<>(\/ module # "present" \/ tree = NoCommit
         \/ remote \in stranded \cup BadCommits
         \/ current.event = "validation"
         \/ current.source = remote)

===============================================================================
