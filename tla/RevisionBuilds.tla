---------------------------- MODULE RevisionBuilds ----------------------------
(***************************************************************************)
(* The durable revision image queue: the table revision_image_builds, the  *)
(* deployer processes that compete for its leadership and build one claim  *)
(* at a time (RevisionImageBuildCoordinator over                           *)
(* PostgresRevisionImageBuildStore), and the backend requests that add     *)
(* generations to it.                                                      *)
(*                                                                         *)
(* A build row is identified by its revision and generation, which the     *)
(* schema makes unique.  One action is one store command (one committed    *)
(* transaction), except for the four that read the table in a statement    *)
(* that may wait for a row lock and act on what it saw afterwards: a       *)
(* module build, a retry, a rebuild-all and a reconcile are a Begin or     *)
(* Select (the statement's snapshot) and a second action that commits or   *)
(* is refused by an index of the table.  Time is abstracted: a lease is    *)
(* live or has expired, and "before" keeps the order of available_at       *)
(* among queued rows and of finished_at among ready rows.                  *)
(***************************************************************************)
EXTENDS Naturals, FiniteSets, RevisionImages

CONSTANTS
    Instances,       \* deployer processes
    Modules,         \* imported modules
    Revisions,       \* revisions the modules can get
    ModuleOf,        \* the module of each revision
    Serving,         \* modules that have an endpoint
    MaxGenerations,  \* bound: generations of a revision
    MaxBase,         \* bound: backend base images, 1 is the registered one
    MaxFaults,       \* bound: stops, crashes, lost sessions, failed commands
    Retention,       \* ready images kept per module
    Api,             \* the backend, beside the deployers that reconcile
    None             \* the SQL null

ASSUME ConstantsAssumption ==
    /\ ModuleOf \in [Revisions -> Modules]
    /\ Serving \subseteq Modules
    /\ MaxGenerations \in Nat \ {0}
    /\ MaxBase \in Nat \ {0}
    /\ MaxFaults \in Nat
    /\ Retention \in Nat
    /\ None \notin Instances \cup Revisions
    /\ Api \notin Instances

VARIABLES
    builds,     \* the table revision_image_builds
    before,     \* pairs of rows in the same queue: the first entered it earlier
    current,    \* the module's current_revision_id
    eligible,   \* synced, validated and not deleted, for the current revision
    created,    \* rows of bundle_revisions
    base,       \* registered base image
    tag,        \* image the configured base tag resolves to
    lock,       \* session that holds the coordinator's advisory lock
    pc,         \* where each deployer process is
    stopping,   \* its stop event
    bootBase,   \* the base image its preflight accepted
    claim,      \* the claim it works on
    outcome,    \* what its builder has returned
    retry,      \* per revision, the retry transaction that locks it
    rebuild,    \* the rebuild-all transaction under its advisory lock
    enqueue,    \* per module, the module build that locks the module's row
    missing,    \* revisions without a row that a reconcile has selected
    faults      \* faults so far

moduleVars == <<current, eligible, created>>
baseVars == <<base, tag>>
processVars == <<pc, stopping, bootBase, claim, outcome>>
requestVars == <<retry, rebuild, enqueue, missing>>
vars == <<builds, before, moduleVars, baseVars, lock, processVars,
          requestVars, faults>>

-------------------------------------------------------------------------------
(* The table. *)

Generations == 1..MaxGenerations
Builds == Revisions \X Generations

Row == [status  : BuildStatuses \cup {"absent"},
        attempt : Nat,
        owner   : Instances \cup {None},
        leased  : BOOLEAN,                \* claim_expires_at > now()
        image   : Nat,                    \* attempt that built image_id, or 0
        base    : 0..MaxBase,
        retryOf : 0..MaxGenerations]

Reconcilers == Instances \cup {Api}

NoRow == [status |-> "absent", attempt |-> 0, owner |-> None,
          leased |-> FALSE, image |-> 0, base |-> 0, retryOf |-> 0]

Status(b) == builds[b].status
Exists(b) == Status(b) # "absent"
Active(b) == Status(b) \in {"queued", "building"}
Sibling(b, g) == <<b[1], g>>

(* The row a request that takes coalesce(max(generation), 0) + 1 inserts.  *)
NextGeneration(b) ==
    \A g \in Generations : Exists(Sibling(b, g)) <=> g < b[2]

(* The eligibility predicate every statement repeats. *)
Eligible(r) == eligible[ModuleOf[r]] /\ current[ModuleOf[r]] = r

Inserted(base_, parent) ==
    [NoRow EXCEPT !.status = "queued", !.base = base_, !.retryOf = parent]
Claimed(row, i) ==
    [row EXCEPT !.status = "building", !.attempt = @ + 1, !.owner = i,
                !.leased = TRUE]

Requeued(row) ==
    [row EXCEPT !.status = "queued", !.owner = None, !.leased = FALSE]
Failed(row) ==
    [row EXCEPT !.status = "failed", !.owner = None, !.leased = FALSE]
Published(row, attempt) ==
    [row EXCEPT !.status = "ready", !.owner = None, !.leased = FALSE,
                !.image = attempt]

(* Commit a new table.  A row that becomes queued (available_at = now()) or *)
(* ready (finished_at = now()) comes after those that already were.        *)
Write(table) ==
    /\ builds' = table
    /\ before' = {p \in Builds \X Builds :
                    /\ table[p[1]].status \in {"queued", "ready"}
                    /\ table[p[1]].status = table[p[2]].status
                    /\ Status(p[1]) = table[p[1]].status
                    /\ Status(p[2]) = table[p[2]].status => p \in before}

Set(b, row) == Write([builds EXCEPT ![b] = row])

Init ==
    /\ builds = [b \in Builds |-> NoRow]
    /\ before = {}
    /\ current = [m \in Modules |-> None]
    /\ eligible = [m \in Modules |-> FALSE]
    /\ created = {}
    /\ base = 1 /\ tag = 1
    /\ lock = None
    /\ pc = [i \in Instances |-> "down"]
    /\ stopping = [i \in Instances |-> FALSE]
    /\ bootBase = [i \in Instances |-> 1]
    /\ claim = [i \in Instances |-> None]
    /\ outcome = [i \in Instances |-> "none"]
    /\ retry = [r \in Revisions |-> None]
    /\ rebuild = None
    /\ enqueue = [m \in Modules |-> None]
    /\ missing = [s \in Reconcilers |-> {}]
    /\ faults = 0

-------------------------------------------------------------------------------
(* Modules and the base image. *)

(* A sync or a validation records a new current revision; until it is      *)
(* validated the module has no eligible revision.  It updates the row of   *)
(* the module, which a module build locks.                                 *)
NewRevision(r) ==
    /\ r \notin created
    /\ enqueue[ModuleOf[r]] = None
    /\ created' = created \cup {r}
    /\ current' = [current EXCEPT ![ModuleOf[r]] = r]
    /\ eligible' = [eligible EXCEPT ![ModuleOf[r]] = FALSE]
    /\ UNCHANGED <<builds, before, baseVars, lock, processVars, requestVars,
                   faults>>

Validate(m) ==
    /\ current[m] # None /\ ~eligible[m]
    /\ eligible' = [eligible EXCEPT ![m] = TRUE]
    /\ UNCHANGED <<builds, before, current, created, baseVars, lock,
                   processVars, requestVars, faults>>

Revoke(m) ==
    /\ eligible[m]
    /\ eligible' = [eligible EXCEPT ![m] = FALSE]
    /\ UNCHANGED <<builds, before, current, created, baseVars, lock,
                   processVars, requestVars, faults>>

(* The operator rebuilds the backend image under the configured tag. *)
Retag ==
    /\ tag < MaxBase
    /\ tag' = tag + 1
    /\ UNCHANGED <<builds, before, moduleVars, base, lock, processVars,
                   requestVars, faults>>

-------------------------------------------------------------------------------
(* Requests of the backend. *)

(* Mutant: revisions without a row are not looked for. *)
RetireOnly(scope, base_) ==
    Write([b \in Builds |-> IF Status(b) = "queued" /\ ~Eligible(b[1])
                            THEN Failed(builds[b]) ELSE builds[b]])

(* One transaction retires queued rows that are not eligible and gives     *)
(* every selected revision its first generation.                           *)
ReconcileTable(scope, base_) ==
    Write([b \in Builds |->
             IF Status(b) = "queued" /\ ~Eligible(b[1])
             THEN Failed(builds[b])
             ELSE IF b[1] \in scope /\ b[2] = 1
             THEN Inserted(base_, 0)
             ELSE builds[b]])

Unbuilt(r) == Eligible(r) /\ \A g \in Generations : ~Exists(<<r, g>>)

(* The statement that selects them sees the table as it was when it        *)
(* started, and may then wait for the row of a revision.                   *)
SelectUnbuilt(s) ==
    missing' = [missing EXCEPT ![s] = {r \in Revisions : Unbuilt(r)}]

(* Another request has given a selected revision its first row meanwhile:  *)
(* the insert is a unique violation and the transaction changes nothing.   *)
InsertRefused(s) ==
    \E r \in missing[s], g \in Generations : Exists(<<r, g>>)

Reconcile(s, base_) ==
    /\ \/ InsertRefused(s) /\ UNCHANGED <<builds, before>>
       \/ ~InsertRefused(s) /\ ReconcileTable(missing[s], base_)
    /\ missing' = [missing EXCEPT ![s] = {}]

BackendSelect ==
    /\ missing[Api] = {}
    /\ \E r \in Revisions : Unbuilt(r)
    /\ SelectUnbuilt(Api)
    /\ UNCHANGED <<builds, before, moduleVars, baseVars, lock, processVars,
                   retry, rebuild, enqueue, faults>>

BackendReconcile ==
    /\ Reconcile(Api, base)
    /\ UNCHANGED <<moduleVars, baseVars, lock, processVars, retry, rebuild,
                   enqueue, faults>>

IsLatest(r, n) ==
    \A g \in Generations : Exists(<<r, g>>) <=> g <= n

ModuleTx == [revision : Revisions, parent : 0..MaxGenerations]

(* The first statements lock the module's row and read its revision, with  *)
(* the latest generation.  An active one is returned as it is.  That       *)
(* statement waits for the revision's row after it has read the builds.    *)
BeginModuleBuild(m) ==
    /\ enqueue[m] = None
    /\ current[m] # None /\ Eligible(current[m])
    /\ \A g \in Generations : ~Active(<<current[m], g>>)
    /\ \E n \in 0..MaxGenerations :
         /\ IsLatest(current[m], n)
         /\ enqueue' = [enqueue EXCEPT ![m] =
                          [revision |-> current[m], parent |-> n]]
    /\ UNCHANGED <<builds, before, moduleVars, baseVars, lock, processVars,
                   retry, rebuild, missing, faults>>

(* The partial unique index on active rows. *)
HasActive(r) == \E g \in Generations : Active(<<r, g>>)

EndModuleBuild(m) ==
    /\ enqueue[m] # None
    /\ enqueue' = [enqueue EXCEPT ![m] = None]
    /\ UNCHANGED <<moduleVars, baseVars, lock, processVars, retry, rebuild,
                   missing, faults>>

InsertNext(m) ==
    \E g \in Generations :
        /\ NextGeneration(<<enqueue[m].revision, g>>)
        /\ Set(<<enqueue[m].revision, g>>, Inserted(base, enqueue[m].parent))

(* Mutant: the table has no index on active rows. *)
ApplyWithoutIndex(m) ==
    /\ EndModuleBuild(m)
    /\ retry[enqueue[m].revision] = None
    /\ InsertNext(m)

(* With the revision's row locked the next generation is queued, as a      *)
(* retry of the one read before; a request that was faster is still        *)
(* active, and then the insert is a unique violation.                      *)
ApplyModuleBuild(m) ==
    /\ EndModuleBuild(m)
    /\ retry[enqueue[m].revision] = None
    /\ \/ HasActive(enqueue[m].revision) /\ UNCHANGED <<builds, before>>
       \/ ~HasActive(enqueue[m].revision) /\ InsertNext(m)

(* The transaction rolls back: a deadlock, a timeout, a lost connection. *)
AbortModuleBuild(m) == EndModuleBuild(m) /\ UNCHANGED <<builds, before>>

(* Mutant: the active row is left as it is. *)
ReplaceKeepingActive(scope, base_, parent) ==
    Write([b \in Builds |-> IF b[1] \in scope /\ NextGeneration(b)
                            THEN Inserted(base_, parent[b[1]])
                            ELSE builds[b]])

(* Mutant: every earlier generation fails, the ready one too. *)
ReplaceEverything(scope, base_, parent) ==
    Write([b \in Builds |->
             IF b[1] \in scope /\ Exists(b) THEN Failed(builds[b])
             ELSE IF b[1] \in scope /\ NextGeneration(b)
             THEN Inserted(base_, parent[b[1]])
             ELSE builds[b]])

(* Mutant: the ready image is superseded when its successor is requested.  *)
ReplaceReadyToo(scope, base_, parent) ==
    Write([b \in Builds |->
             IF b[1] \in scope /\ Active(b) THEN Failed(builds[b])
             ELSE IF b[1] \in scope /\ Status(b) = "ready"
             THEN [builds[b] EXCEPT !.status = "superseded"]
             ELSE IF b[1] \in scope /\ NextGeneration(b)
             THEN Inserted(base_, parent[b[1]])
             ELSE builds[b]])

(* Active rows of the revisions in scope fail and each revision gets its   *)
(* next generation.                                                        *)
Replace(scope, base_, parent) ==
    Write([b \in Builds |->
             IF b[1] \in scope /\ Active(b) THEN Failed(builds[b])
             ELSE IF b[1] \in scope /\ NextGeneration(b)
             THEN Inserted(base_, parent[b[1]])
             ELSE builds[b]])

HasRoom(r) == ~Exists(<<r, MaxGenerations>>)

RetryTx == [generation : Generations, base : 1..MaxBase]

(* The first statements lock the retried row and its revision, check them, *)
(* and read the registered base image.                                     *)
BeginRetry(b) ==
    /\ retry[b[1]] = None
    /\ Status(b) \in {"failed", "ready"}
    /\ Eligible(b[1])
    /\ retry' = [retry EXCEPT ![b[1]] = [generation |-> b[2], base |-> base]]
    /\ UNCHANGED <<builds, before, moduleVars, baseVars, lock, processVars,
                   rebuild, enqueue, missing, faults>>

AlreadyRetried(r) ==
    \E g \in Generations :
        /\ Exists(<<r, g>>)
        /\ builds[<<r, g>>].retryOf = retry[r].generation
        /\ builds[<<r, g>>].base = retry[r].base

ApplyRetry(r) ==
    /\ retry[r] # None
    /\ retry' = [retry EXCEPT ![r] = None]
    /\ \/ /\ AlreadyRetried(r)
          /\ UNCHANGED <<builds, before>>
       \/ /\ ~AlreadyRetried(r) /\ HasRoom(r)
          /\ Replace({r}, retry[r].base, [x \in {r} |-> retry[x].generation])
    /\ UNCHANGED <<moduleVars, baseVars, lock, processVars, rebuild, enqueue,
                   missing, faults>>

(* The transaction rolls back: a deadlock, a timeout, a lost connection. *)
AbortRetry(r) ==
    /\ retry[r] # None
    /\ retry' = [retry EXCEPT ![r] = None]
    /\ UNCHANGED <<builds, before, moduleVars, baseVars, lock, processVars,
                   rebuild, enqueue, missing, faults>>

RebuildTx == [base   : 1..MaxBase,
              scope  : SUBSET Revisions,
              latest : [Revisions -> 0..MaxGenerations]]

(* The statement that selects the eligible revisions sees the table as it  *)
(* was when the statement started, and then waits for their row locks.     *)
BeginRebuildAll ==
    /\ rebuild = None
    /\ \E latest \in [Revisions -> 0..MaxGenerations] :
         LET scope == {r \in Revisions : Eligible(r)}
         IN  /\ scope # {}
             /\ \A r \in Revisions :
                  IF r \in scope THEN IsLatest(r, latest[r]) ELSE latest[r] = 0
             /\ \A b \in Builds :
                  b[1] \in scope /\ Active(b) => builds[b].base # base
             /\ rebuild' = [base |-> base, scope |-> scope, latest |-> latest]
    /\ UNCHANGED <<builds, before, moduleVars, baseVars, lock, processVars,
                   retry, enqueue, missing, faults>>

ApplyRebuildAll ==
    /\ rebuild # None
    /\ \A r \in rebuild.scope : retry[r] = None /\ HasRoom(r)
    /\ Replace(rebuild.scope, rebuild.base, rebuild.latest)
    /\ rebuild' = None
    /\ UNCHANGED <<moduleVars, baseVars, lock, processVars, retry, enqueue,
                   missing, faults>>

AbortRebuildAll ==
    /\ rebuild # None
    /\ rebuild' = None
    /\ UNCHANGED <<builds, before, moduleVars, baseVars, lock, processVars,
                   retry, enqueue, missing, faults>>

-------------------------------------------------------------------------------
(* A deployer process. *)

Working == {"watch", "renew", "cancelled", "settle"}
Leading == {"recover", "reconcile", "insert", "claim"} \cup Working
Places == Leading \cup {"down", "candidate", "unwind"}

Claims == [build : Builds, attempt : Nat]

(* The statements of a claim name its row, status, owner and attempt. *)
Owns(i) ==
    /\ Status(claim[i].build) = "building"
    /\ builds[claim[i].build].owner = i
    /\ builds[claim[i].build].attempt = claim[i].attempt

Released(i) == IF lock = i THEN None ELSE lock
Goto(i, place) == pc' = [pc EXCEPT ![i] = place]

(* Preflight registers a changed base image only while nothing is active;  *)
(* otherwise the process exits and is restarted.                           *)
Start(i) ==
    /\ pc[i] = "down"
    /\ tag # base => \A b \in Builds : ~Active(b)
    /\ base' = tag
    /\ bootBase' = [bootBase EXCEPT ![i] = tag]
    /\ stopping' = [stopping EXCEPT ![i] = FALSE]
    /\ Goto(i, "candidate")
    /\ UNCHANGED <<builds, before, moduleVars, tag, lock, claim, outcome,
                   requestVars, faults>>

TryAcquireLeadership(i) ==
    /\ pc[i] = "candidate" /\ ~stopping[i]
    /\ lock = None
    /\ lock' = i
    /\ Goto(i, "recover")
    /\ UNCHANGED <<builds, before, moduleVars, baseVars, stopping, bootBase,
                   claim, outcome, requestVars, faults>>

(* Mutant: the command runs on a session that does not hold the lock. *)
RecoverWithoutSession(i) ==
    /\ pc[i] = "recover" /\ ~stopping[i]
    /\ Write([b \in Builds |->
                IF Status(b) = "building" /\ ~builds[b].leased
                THEN Requeued(builds[b]) ELSE builds[b]])
    /\ Goto(i, "reconcile")
    /\ UNCHANGED <<moduleVars, baseVars, lock, stopping, bootBase, claim,
                   outcome, requestVars, faults>>

(* Mutant: a process recovers the claims it made itself. *)
RecoverOwnClaims(i) ==
    /\ pc[i] = "recover" /\ ~stopping[i] /\ lock = i
    /\ Write([b \in Builds |->
                IF Status(b) = "building" /\ ~builds[b].leased
                   /\ builds[b].owner = i
                THEN Requeued(builds[b]) ELSE builds[b]])
    /\ Goto(i, "reconcile")
    /\ UNCHANGED <<moduleVars, baseVars, lock, stopping, bootBase, claim,
                   outcome, requestVars, faults>>

RecoverExpiredClaims(i) ==
    /\ pc[i] = "recover" /\ ~stopping[i] /\ lock = i
    /\ Write([b \in Builds |->
                IF Status(b) = "building" /\ ~builds[b].leased
                THEN Requeued(builds[b]) ELSE builds[b]])
    /\ Goto(i, "reconcile")
    /\ UNCHANGED <<moduleVars, baseVars, lock, stopping, bootBase, claim,
                   outcome, requestVars, faults>>

ReconcileSelect(i) ==
    /\ pc[i] = "reconcile" /\ lock = i
    /\ SelectUnbuilt(i)
    /\ Goto(i, "insert")
    /\ UNCHANGED <<builds, before, moduleVars, baseVars, lock, stopping,
                   bootBase, claim, outcome, retry, rebuild, enqueue, faults>>

(* A refused insert is an exception: the cycle is given up. *)
ReconcileEligibleRevisions(i) ==
    /\ pc[i] = "insert" /\ lock = i
    /\ Reconcile(i, bootBase[i])
    /\ Goto(i, IF InsertRefused(i) THEN "unwind" ELSE "claim")
    /\ UNCHANGED <<moduleVars, baseVars, lock, stopping, bootBase, claim,
                   outcome, retry, rebuild, enqueue, faults>>

(* Mutant: a row that is building does not hold others back. *)
AnyQueued == {b \in Builds : Status(b) = "queued" /\ Eligible(b[1])}

Candidates ==
    IF \E b \in Builds : Status(b) = "building" THEN {}
    ELSE {b \in Builds : Status(b) = "queued" /\ Eligible(b[1])}

Served(b) == ModuleOf[b[1]] \in Serving

(* Revisions of modules that serve come first, then the oldest. *)
Precedes(c, b) ==
    \/ Served(c) /\ ~Served(b)
    \/ (Served(c) <=> Served(b)) /\ <<c, b>> \in before

ClaimNext(i) ==
    /\ pc[i] = "claim" /\ lock = i
    /\ \/ \E b \in Candidates :
            /\ \A c \in Candidates : ~Precedes(c, b)
            /\ Set(b, Claimed(builds[b], i))
            /\ claim' = [claim EXCEPT ![i] =
                           [build |-> b, attempt |-> builds[b].attempt + 1]]
            /\ outcome' = [outcome EXCEPT ![i] = "running"]
            /\ Goto(i, "watch")
       \/ /\ Candidates = {}
          /\ Goto(i, "recover")
          /\ UNCHANGED <<builds, before, claim, outcome>>
    /\ UNCHANGED <<moduleVars, baseVars, lock, stopping, bootBase,
                   requestVars, faults>>

(* The builder runs in a thread of its own: it returns a result or, when   *)
(* it is cancelled or crashes, none.                                       *)
BuilderEnds(i) ==
    /\ outcome[i] = "running"
    /\ \E result \in {"ready", "failed", "crashed"} :
         outcome' = [outcome EXCEPT ![i] = result]
    /\ UNCHANGED <<builds, before, moduleVars, baseVars, lock, pc, stopping,
                   bootBase, claim, requestVars, faults>>

(* Mutant: the monitor does not look at eligibility. *)
WatchOwnershipOnly(i) ==
    /\ pc[i] = "watch"
    /\ \/ (outcome[i] # "running" \/ stopping[i]) /\ Goto(i, "settle")
       \/ /\ outcome[i] = "running" /\ ~stopping[i] /\ lock = i
          /\ Goto(i, IF Owns(i) THEN "renew" ELSE "cancelled")
    /\ UNCHANGED <<builds, before, moduleVars, baseVars, lock, stopping,
                   bootBase, claim, outcome, requestVars, faults>>

(* One turn of the monitor: the build is done, the process is stopping, or *)
(* the claim is checked and then, in a second statement, renewed.          *)
WatchBuild(i) ==
    /\ pc[i] = "watch"
    /\ \/ (outcome[i] # "running" \/ stopping[i]) /\ Goto(i, "settle")
       \/ /\ outcome[i] = "running" /\ ~stopping[i] /\ lock = i
          /\ Goto(i, IF Owns(i) /\ Eligible(claim[i].build[1])
                     THEN "renew" ELSE "cancelled")
    /\ UNCHANGED <<builds, before, moduleVars, baseVars, lock, stopping,
                   bootBase, claim, outcome, requestVars, faults>>

RenewClaim(i) ==
    /\ pc[i] = "renew" /\ lock = i
    /\ LET b == claim[i].build
       IN  \/ /\ Owns(i)
              /\ Set(b, [builds[b] EXCEPT !.leased = TRUE])
              /\ Goto(i, "watch")
           \/ /\ ~Owns(i)
              /\ Goto(i, "cancelled")
              /\ UNCHANGED <<builds, before>>
    /\ UNCHANGED <<moduleVars, baseVars, lock, stopping, bootBase, claim,
                   outcome, requestVars, faults>>

(* Mutant: the statement names only the row, and runs on any session. *)
SettleByRow(i, table) ==
    /\ pc[i] \in {"settle", "cancelled"} /\ outcome[i] # "running"
    /\ IF Status(claim[i].build) = "building" THEN Write(table)
       ELSE UNCHANGED <<builds, before>>
    /\ claim' = [claim EXCEPT ![i] = None]
    /\ outcome' = [outcome EXCEPT ![i] = "none"]
    /\ Goto(i, "recover")
    /\ UNCHANGED <<moduleVars, baseVars, lock, stopping, bootBase,
                   requestVars, faults>>

(* The builder has been awaited: the claim ends with one statement that    *)
(* changes the table only if the claim still stands.                       *)
Settle(i, table) ==
    /\ pc[i] \in {"settle", "cancelled"} /\ outcome[i] # "running"
    /\ lock = i
    /\ IF Owns(i) THEN Write(table) ELSE UNCHANGED <<builds, before>>
    /\ claim' = [claim EXCEPT ![i] = None]
    /\ outcome' = [outcome EXCEPT ![i] = "none"]
    /\ Goto(i, "recover")
    /\ UNCHANGED <<moduleVars, baseVars, lock, stopping, bootBase,
                   requestVars, faults>>

ReleaseClaim(i) ==
    /\ stopping[i]
    /\ LET b == claim[i].build
       IN  Settle(i, [builds EXCEPT ![b] = Requeued(@)])

FailClaim(i) ==
    /\ ~stopping[i]
    /\ pc[i] = "cancelled" \/ outcome[i] = "crashed"
    /\ LET b == claim[i].build
       IN  Settle(i, [builds EXCEPT ![b] = Failed(@)])

(* Mutant: the earlier ready generation stays ready. *)
PublishBeside(i) ==
    [b \in Builds |-> IF b = claim[i].build
                      THEN Published(builds[b], claim[i].attempt)
                      ELSE builds[b]]

(* Eligibility is checked again in the statement that publishes.  A ready  *)
(* result supersedes the earlier ready generations of its revision, and    *)
(* waits for a retry that holds such a row.                                *)
Publish(i) ==
    [b \in Builds |->
       IF b = claim[i].build THEN Published(builds[b], claim[i].attempt)
       ELSE IF b[1] = claim[i].build[1] /\ Status(b) = "ready"
       THEN [builds[b] EXCEPT !.status = "superseded"]
       ELSE builds[b]]

HoldsReadyRow(r) ==
    retry[r] # None /\ Status(<<r, retry[r].generation>>) = "ready"

(* Mutant: eligibility was checked by the monitor, and not again. *)
CompleteUnchecked(i) ==
    /\ ~stopping[i] /\ pc[i] = "settle"
    /\ LET b == claim[i].build
       IN  \/ outcome[i] = "ready" /\ Settle(i, Publish(i))
           \/ /\ outcome[i] = "failed"
              /\ Settle(i, [builds EXCEPT ![b] = Failed(@)])

CompleteClaim(i) ==
    /\ ~stopping[i]
    /\ pc[i] = "settle"
    /\ LET b == claim[i].build
       IN  \/ /\ outcome[i] = "ready" /\ Eligible(b[1])
              /\ Owns(i) => ~HoldsReadyRow(b[1])
              /\ Settle(i, Publish(i))
           \/ /\ \/ outcome[i] = "failed"
                 \/ outcome[i] = "ready" /\ ~Eligible(b[1])
              /\ Settle(i, [builds EXCEPT ![b] = Failed(@)])

(* A command raises: the session is gone, or something else failed.  The   *)
(* builder is cancelled and awaited, then the connection is closed.        *)
CommandFails(i) ==
    /\ pc[i] \in Leading
    /\ \/ lock # i /\ UNCHANGED faults
       \/ lock = i /\ faults < MaxFaults /\ faults' = faults + 1
    /\ missing' = [missing EXCEPT ![i] = {}]
    /\ Goto(i, "unwind")
    /\ UNCHANGED <<builds, before, moduleVars, baseVars, lock, stopping,
                   bootBase, claim, outcome, retry, rebuild, enqueue>>

Unwind(i) ==
    /\ pc[i] = "unwind" /\ outcome[i] # "running"
    /\ lock' = Released(i)
    /\ claim' = [claim EXCEPT ![i] = None]
    /\ outcome' = [outcome EXCEPT ![i] = "none"]
    /\ Goto(i, "candidate")
    /\ UNCHANGED <<builds, before, moduleVars, baseVars, stopping, bootBase,
                   requestVars, faults>>

(* SIGTERM: the event is set and a running builder is cancelled. *)
RequestStop(i) ==
    /\ pc[i] # "down" /\ ~stopping[i]
    /\ faults < MaxFaults /\ faults' = faults + 1
    /\ stopping' = [stopping EXCEPT ![i] = TRUE]
    /\ UNCHANGED <<builds, before, moduleVars, baseVars, lock, pc, bootBase,
                   claim, outcome, requestVars>>

Exit(i) ==
    /\ pc[i] \in {"candidate", "recover"} /\ stopping[i]
    /\ lock' = Released(i)
    /\ Goto(i, "down")
    /\ UNCHANGED <<builds, before, moduleVars, baseVars, stopping, bootBase,
                   claim, outcome, requestVars, faults>>

Crash(i) ==
    /\ pc[i] # "down"
    /\ faults < MaxFaults /\ faults' = faults + 1
    /\ lock' = Released(i)
    /\ claim' = [claim EXCEPT ![i] = None]
    /\ outcome' = [outcome EXCEPT ![i] = "none"]
    /\ missing' = [missing EXCEPT ![i] = {}]
    /\ Goto(i, "down")
    /\ UNCHANGED <<builds, before, moduleVars, baseVars, stopping, bootBase,
                   retry, rebuild, enqueue>>

(* PostgreSQL drops the leader's session, and with it the advisory lock;   *)
(* the process learns of it from its next command.                         *)
SessionLost ==
    /\ lock # None
    /\ faults < MaxFaults /\ faults' = faults + 1
    /\ lock' = None
    /\ UNCHANGED <<builds, before, moduleVars, baseVars, processVars,
                   requestVars>>

(* claim_expires_at passes. *)
LeaseExpires(b) ==
    /\ Status(b) = "building" /\ builds[b].leased
    /\ Set(b, [builds[b] EXCEPT !.leased = FALSE])
    /\ UNCHANGED <<moduleVars, baseVars, lock, processVars, requestVars,
                   faults>>

(* The endpoint coordinator removes the image of a ready row that ranks    *)
(* below the retained ones of its module, by generation and then by the    *)
(* time it finished, and records it; a retry of that row makes it wait.    *)
(* Deployments, which can keep an image, are not part of this module.      *)
RankedAbove(b) ==
    {c \in Builds : /\ ModuleOf[c[1]] = ModuleOf[b[1]]
                    /\ Status(c) = "ready"
                    /\ c[2] > b[2] \/ (c[2] = b[2] /\ <<b, c>> \in before)}

(* Mutant: an image ranked last among those to keep goes too. *)
PruneOneTooMany(b) ==
    /\ Status(b) = "ready"
    /\ retry[b[1]] # None => retry[b[1]].generation # b[2]
    /\ Cardinality(RankedAbove(b)) + 1 >=
         (IF Retention < 2 THEN 2 ELSE Retention)
    /\ Set(b, [builds[b] EXCEPT !.status = "pruned"])
    /\ UNCHANGED <<moduleVars, baseVars, lock, processVars, requestVars,
                   faults>>

PruneImage(b) ==
    /\ Status(b) = "ready"
    /\ retry[b[1]] # None => retry[b[1]].generation # b[2]
    /\ Cardinality(RankedAbove(b)) >= (IF Retention < 2 THEN 2 ELSE Retention)
    /\ Set(b, [builds[b] EXCEPT !.status = "pruned"])
    /\ UNCHANGED <<moduleVars, baseVars, lock, processVars, requestVars,
                   faults>>

-------------------------------------------------------------------------------
Process(i) ==
    \/ Start(i) \/ TryAcquireLeadership(i)
    \/ RecoverExpiredClaims(i)
    \/ ReconcileSelect(i) \/ ReconcileEligibleRevisions(i) \/ ClaimNext(i)
    \/ WatchBuild(i) \/ RenewClaim(i)
    \/ ReleaseClaim(i) \/ FailClaim(i) \/ CompleteClaim(i)
    \/ Unwind(i) \/ Exit(i)

Environment(i) ==
    \/ BuilderEnds(i) \/ CommandFails(i) \/ RequestStop(i) \/ Crash(i)

Backend ==
    \/ BackendSelect \/ BackendReconcile
    \/ \E m \in Modules :
         \/ BeginModuleBuild(m) \/ ApplyModuleBuild(m) \/ AbortModuleBuild(m)
         \/ Validate(m) \/ Revoke(m)
    \/ \E b \in Builds : BeginRetry(b) \/ PruneImage(b) \/ LeaseExpires(b)
    \/ \E r \in Revisions : NewRevision(r) \/ ApplyRetry(r) \/ AbortRetry(r)
    \/ BeginRebuildAll \/ ApplyRebuildAll \/ AbortRebuildAll
    \/ Retag \/ SessionLost

Next ==
    \/ \E i \in Instances : Process(i) \/ Environment(i)
    \/ Backend

Spec == Init /\ [][Next]_vars

(* The coordinator's event loop and its child process make progress, a     *)
(* cancelled builder is terminated, a process that notices a lost session  *)
(* unwinds, and leases run out.  A build may take for ever, and nobody has *)
(* to validate, retry or rebuild anything.                                 *)
Fairness ==
    /\ \A i \in Instances :
         /\ WF_vars(Process(i))
         /\ WF_vars(lock # i /\ CommandFails(i))
         /\ WF_vars((stopping[i] \/ pc[i] \in {"cancelled", "settle", "unwind"})
                      /\ BuilderEnds(i))
    /\ \A b \in Builds : WF_vars(LeaseExpires(b))

FairSpec == Spec /\ Fairness

-------------------------------------------------------------------------------
(* The check constraint of the table: the claim columns are set exactly    *)
(* while a row is building.                                                *)
ClaimColumns(row) ==
    /\ row.status = "building" <=> row.owner # None
    /\ row.leased => row.status = "building"

(* Every variable keeps its type, and every row the claim columns its      *)
(* status calls for, which the schema checks.                              *)
TypeOK ==
    /\ builds \in [Builds -> Row]
    /\ \A b \in Builds : ClaimColumns(builds[b])
    /\ before \subseteq Builds \X Builds
    /\ current \in [Modules -> Revisions \cup {None}]
    /\ eligible \in [Modules -> BOOLEAN]
    /\ created \subseteq Revisions
    /\ base \in 1..MaxBase /\ tag \in 1..MaxBase
    /\ lock \in Instances \cup {None}
    /\ pc \in [Instances -> Places]
    /\ stopping \in [Instances -> BOOLEAN]
    /\ bootBase \in [Instances -> 1..MaxBase]
    /\ claim \in [Instances -> Claims \cup {None}]
    /\ outcome \in [Instances ->
                      {"none", "running", "ready", "failed", "crashed"}]
    /\ retry \in [Revisions -> RetryTx \cup {None}]
    /\ rebuild \in RebuildTx \cup {None}
    /\ enqueue \in [Modules -> ModuleTx \cup {None}]
    /\ missing \in [Reconcilers -> SUBSET Revisions]
    /\ faults \in 0..MaxFaults

(* claim_next keeps builds serial across leaders: whatever happens to the  *)
(* leadership and the leases, two rows are never "building" together.      *)
AtMostOneBuilding ==
    \A b, c \in Builds :
        Status(b) = "building" /\ Status(c) = "building" => b = c

(* An active row is the newest generation of its revision, so a revision   *)
(* never has two, although every request decides on what it read before it *)
(* waited: a retry and a rebuild-all replace whatever is active when they  *)
(* hold the row lock, recovery and release requeue only the newest, and a  *)
(* module build or a reconcile that was overtaken is refused by an index.  *)
ActiveIsNewest ==
    \A b, c \in Builds :
        Active(b) /\ Exists(c) /\ b[1] = c[1] => c[2] <= b[2]

(* complete_claim supersedes whatever was ready: however generations are   *)
(* retried and replaced, a revision has at most one ready image.           *)
OneReadyPerRevision ==
    \A b, c \in Builds :
        Status(b) = "ready" /\ Status(c) = "ready" /\ b[1] = c[1] => b = c

(* The image of a published row was built by the row's last claim: a late  *)
(* completion of an earlier attempt is discarded.                          *)
PublishedByLastClaim ==
    \A b \in Builds :
        Status(b) \in {"ready", "superseded", "pruned"} =>
            builds[b].attempt > 0 /\ builds[b].image = builds[b].attempt

(* No statement asks for an update that the build trigger refuses: an      *)
(* illegal status change, another identity, or another image for a row     *)
(* that has been published.                                                *)
BuildContractStep ==
    \A b \in Builds : Exists(b) =>
        /\ TriggerAllows(Status(b), Status(b)')
        /\ builds'[b].base = builds[b].base
        /\ builds'[b].retryOf = builds[b].retryOf
        /\ Status(b) \in {"ready", "superseded", "pruned"} =>
             builds'[b].image = builds[b].image
BuildContract == [][BuildContractStep]_vars

(* A ready image stops being ready only when it is pruned or when a newer  *)
(* generation of its revision is published in the same transaction: a      *)
(* queued, building or failed replacement does not touch it.               *)
ReadyStaysUntilReplacedStep ==
    \A b \in Builds :
        Status(b) = "ready" /\ Status(b)' \notin {"ready", "pruned"} =>
            \E c \in Builds : /\ c[1] = b[1] /\ c[2] > b[2]
                              /\ Status(c) = "building" /\ Status(c)' = "ready"
ReadyStaysUntilReplaced == [][ReadyStaysUntilReplacedStep]_vars

(* A claim goes back to the queue only when its holder gives it up while   *)
(* stopping, or when no process that still leads works on it: recovery     *)
(* never takes the build of a healthy leader.                              *)
NoStolenClaimStep ==
    \A b \in Builds, i \in Instances :
        /\ Status(b) = "building" /\ Status(b)' = "queued"
        /\ claim[i] # None /\ claim[i].build = b /\ Owns(i)
        /\ lock = i
        => stopping[i] /\ claim'[i] = None
NoStolenClaim == [][NoStolenClaimStep]_vars

(* An image is published only for the revision that is eligible then, by   *)
(* the process that holds the leadership.                                  *)
PublicationStep ==
    \A b \in Builds :
        Status(b) # "ready" /\ Status(b)' = "ready" =>
            /\ Eligible(b[1])
            /\ \E i \in Instances : lock = i /\ builds[b].owner = i
OnlyEligiblePublished == [][PublicationStep]_vars

(* A claim whose process is gone does not stay: some leader requeues it    *)
(* (or an operator supersedes it).                                         *)
Orphaned(b) ==
    /\ Status(b) = "building"
    /\ \A i \in Instances : claim[i] # None => claim[i].build # b \/ ~Owns(i)
OrphanedClaimRecovered == \A b \in Builds : Orphaned(b) ~> ~Orphaned(b)

(* A builder whose claim was superseded, or whose revision is no longer    *)
(* eligible, does not run on: the monitor cancels it.                      *)
Doomed(i) ==
    /\ outcome[i] = "running"
    /\ ~Owns(i) \/ ~Eligible(claim[i].build[1])
DoomedBuildStops == \A i \in Instances : Doomed(i) ~> ~Doomed(i)

(* An eligible revision that has no build is given one by the leader's     *)
(* reconcile even if the backend's own trigger was lost.                   *)
EligibleRevisionQueued == \A r \in Revisions : Unbuilt(r) ~> ~Unbuilt(r)

(* Pruning leaves a module at least the retained number of ready images.   *)
ReadyOf(m) == {b \in Builds : ModuleOf[b[1]] = m /\ Status(b) = "ready"}
RetentionKeptStep ==
    \A b \in Builds : Status(b) = "ready" /\ Status(b)' = "pruned" =>
        Cardinality(ReadyOf(ModuleOf[b[1]])') >= Retention
RetentionKept == [][RetentionKeptStep]_vars

(* The builds of the deployer implement the history of every revision. *)
HistoryEntry(r) ==
    [newest |-> CHOOSE n \in 0..MaxGenerations : IsLatest(r, n),
     open   |-> \E g \in Generations : Active(<<r, g>>),
     shown  |-> IF \E g \in Generations : Status(<<r, g>>) = "ready"
                THEN CHOOSE g \in Generations : Status(<<r, g>>) = "ready"
                ELSE 0]
History == INSTANCE RevisionHistory
             WITH history <- [r \in Revisions |-> HistoryEntry(r)]
ImplementsHistory == History!Spec
===============================================================================
