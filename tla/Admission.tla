------------------------------ MODULE Admission ------------------------------
(***************************************************************************)
(* Whether a sandbox may be created or started: the platform's cap, which  *)
(* every API replica checks on a snapshot of its own (PlatformLimits-      *)
(* Runtime), and one user's limits on running sandboxes and on storage,    *)
(* which are checked under a row lock on his plan (MeteringService).       *)
(*                                                                         *)
(* All sandboxes here are persistent, of one size and of one user.  What   *)
(* happens to a sandbox between two requests is one step of its row:       *)
(* SandboxLifecycle and ColdSnapshot have the steps in between.            *)
(***************************************************************************)
EXTENDS Integers, FiniteSets

CONSTANTS
    Sandboxes,
    Replicas,
    None,
    Caps,           \* values of max_total_sandboxes an administrator sets
    InitialCap,     \* the one in force at the start
    MaxRunning,     \* max_concurrent_running of the user's plan
    Quota,          \* the user's storage quota, in sandboxes
    MaxChanges,     \* bound: changes of the platform's limits, and deletions
    MaxFaults       \* bound: failed calls

ASSUME AdmissionAssumption ==
    /\ IsFiniteSet(Sandboxes) /\ None \notin Sandboxes \cup Replicas /\ Caps \subseteq Nat /\ InitialCap \in Caps
    /\ {MaxRunning, Quota, MaxChanges, MaxFaults} \subseteq Nat

VARIABLES
    row,        \* the status of each sandbox's row
    gone,       \* rows that are soft-deleted (gmt_deleted), or removed
    erase,      \* the handler that deletes each sandbox: none, or what it erases
    restoring,  \* rows with pending_operation RESTORING, except those that are gone
    ledger,     \* sandboxes with an ACTIVE storage ledger entry
    pc,         \* the create or start request of each sandbox
    plan,       \* who has the row lock on the plan (FOR UPDATE)
    returned,   \* running again without having been admitted for it
    blind,      \* admitted while another sandbox had no ledger entry yet
    config,     \* the platform's limits: their cap and the number of changes
    snap,       \* the snapshot of each replica
    patching,   \* the limits that a PATCH handler has committed and not yet refreshed
    refresh,    \* refreshes under way: what each has read
    faults

requests == <<pc, plan, blind>>
rows == <<row, gone, restoring, returned>>
limits == <<config, snap, patching, refresh>>
vars == <<requests, rows, limits, erase, ledger, faults>>

\* CREATING and READY are "up": both count as running; STOPPED and ERROR are
\* "down": start takes both.
Status == {"none", "up", "down", "cold", "deleting", "deleted", "removed"}
Alive == {s \in Sandboxes : row[s] # "none" /\ s \notin gone}

\* _count_running_sandboxes does not look at gmt_deleted.
Running == {s \in Sandboxes : row[s] = "up"}

\* A handler writes the status by id, over whatever the row has become; a row
\* that is no longer there is not written.
Written(s, status) == [row EXCEPT ![s] = IF @ = "removed" THEN @ ELSE status]

\* Running without having been counted.
ReturnedAs(s, status) ==
    IF status # "up" THEN returned \ {s} ELSE IF s \in Running THEN returned ELSE returned \cup {s}

\* The bound: sandboxes that have been deleted, or are being deleted, count too.
RoomForChange(S) ==
    config.version + Cardinality({s \in Sandboxes \ S : erase[s] # "none" \/ s \in gone}) < MaxChanges

Fault == faults < MaxFaults /\ faults' = faults + 1

-----------------------------------------------------------------------------
(* Platform limits: snapshots.                                             *)

Refreshers == {"loop", "patch"}
NotRefreshing == [w \in Refreshers |-> None]

\* update_platform_limits commits the new limits, in one of these replicas or
\* (p = None) in another ...
PatchCommit(p) ==
    /\ RoomForChange({}) /\ (p \in Replicas => patching[p] = None)
    /\ \E cap \in Caps \ {config.cap} : config' = [cap |-> cap, version |-> config.version + 1]
    /\ patching' = [q \in Replicas |-> IF q = p THEN config' ELSE patching[q]]
    /\ UNCHANGED <<requests, rows, erase, ledger, snap, refresh, faults>>

\* Mutant: snapshots are built without the lock.
NoRefreshLock(p) == TRUE

\* PlatformLimitsRuntime._lock.
RefreshLockFree(p) == \A w \in Refreshers : refresh[p][w] = None

\* Mutant: a refresh that is skipped when nothing was created or deleted.
UsageChanged(p) == snap[p].used # Cardinality(Alive)

\* The loop refreshes whether or not anything has changed; only a refresh that
\* has something to change is a step.
Outdated(p) == snap[p].version # config.version \/ snap[p].used # Cardinality(Alive)

\* ... and then refreshes its own replica; the others have their loop.
\* build_snapshot reads the limits first and counts afterwards.  For the handler
\* session.get answers the object that it has written itself (expire_on_commit
\* is off), whatever has been committed since.
RefreshRead(p, w) ==
    /\ refresh[p][w] = None /\ RefreshLockFree(p)
    /\ \/ w = "patch" /\ patching[p] # None /\ refresh' = [refresh EXCEPT ![p][w] = patching[p]]
       \/ w = "loop" /\ Outdated(p) /\ refresh' = [refresh EXCEPT ![p][w] = config]
    /\ UNCHANGED <<requests, rows, erase, ledger, config, snap, patching, faults>>

RefreshOver(p, w) ==
    /\ refresh' = [refresh EXCEPT ![p][w] = None]
    /\ patching' = IF w = "patch" THEN [patching EXCEPT ![p] = None] ELSE patching

RefreshWrite(p, w) ==
    /\ refresh[p][w] # None /\ RefreshOver(p, w)
    /\ snap' = [snap EXCEPT ![p] = [cap |-> refresh[p][w].cap, version |-> refresh[p][w].version,
                                    used |-> Cardinality(Alive)]]
    /\ UNCHANGED <<requests, rows, erase, ledger, config, faults>>

\* The loop logs the error; the PATCH request fails with it.
RefreshFails(p, w) ==
    /\ refresh[p][w] # None /\ RefreshOver(p, w) /\ Fault
    /\ UNCHANGED <<requests, rows, erase, ledger, config, snap>>

Refresh(p, w) == RefreshRead(p, w) \/ RefreshWrite(p, w)

-----------------------------------------------------------------------------
(* Requests.                                                               *)

\* create_sandbox: check_sandbox_creation_allowed on the replica's snapshot.
CreateBegin(s, p) ==
    /\ row[s] = "none" /\ pc[s] = "idle"
    /\ snap[p].used < snap[p].cap
    /\ pc' = [pc EXCEPT ![s] = "create"]
    /\ UNCHANGED <<plan, blind, rows, limits, erase, ledger, faults>>

\* SandboxService.start loads the row; what it does is decided by the status it
\* has now.
StartBegin(s) ==
    /\ row[s] \in {"down", "cold"} /\ s \in Alive \ restoring /\ pc[s] = "idle"
    /\ pc' = [pc EXCEPT ![s] = IF row[s] = "cold" THEN "thaw" ELSE "start"]
    /\ UNCHANGED <<plan, blind, rows, limits, erase, ledger, faults>>

\* Mutant: the plan is read without FOR UPDATE.
NoPlanLock == TRUE

PlanFree == plan = None

\* check_concurrent_limit.
RoomToRun == Cardinality(Running) < MaxRunning

\* Mutant: the quota is compared before the new sandbox is added.
RoomUpToQuota == Cardinality(ledger) <= Quota

\* check_storage_quota.
RoomInQuota == Cardinality(ledger) + 1 <= Quota

Checked == [create |-> "persist", start |-> "resume", thaw |-> "restore"]
HoldsLock == {s \in Sandboxes : pc[s] \in {"persist", "resume", "restore"}}

\* Both checks, with the lock.  A refusal rolls back.
Check(s) ==
    /\ pc[s] \in {"create", "start", "thaw"} /\ PlanFree
    /\ IF RoomToRun /\ (pc[s] = "create" => RoomInQuota)
       THEN /\ plan' = s
            /\ pc' = [pc EXCEPT ![s] = Checked[@]]
            /\ blind' = IF pc[s] = "create" /\ Alive \ ledger # {} THEN blind \cup {s} ELSE blind
       ELSE pc' = [pc EXCEPT ![s] = "idle"] /\ UNCHANGED <<plan, blind>>
    /\ UNCHANGED <<rows, limits, erase, ledger, faults>>

\* The lock is held over a call to Kubernetes (_ensure_persistent_storage_-
\* backend_ready, _ensure_snapshot_backend_ready), which may raise.
CheckFails(s) ==
    /\ s \in HoldsLock /\ Fault
    /\ pc' = [pc EXCEPT ![s] = "idle"] /\ plan' = None
    /\ blind' = IF row[s] = "none" THEN blind \ {s} ELSE blind
    /\ UNCHANGED <<rows, limits, erase, ledger>>

\* The commit that lets the lock go: _persist_sandbox, or start's first commit.
\* A COLD sandbox only gets its pending operation.  start may write over DELETING,
\* and over a row that is gone, which then counts as running.
CheckedCommit(s) ==
    /\ s \in HoldsLock /\ plan' = None
    /\ pc' = [pc EXCEPT ![s] = CASE @ = "persist" -> "provision" [] @ = "resume" -> "call" [] OTHER -> "idle"]
    /\ row' = IF pc[s] = "restore" THEN row ELSE Written(s, "up")
    /\ restoring' = IF pc[s] = "restore" THEN restoring \cup ({s} \ gone) ELSE restoring
    /\ returned' = returned \ {s}
    /\ UNCHANGED <<gone, blind, limits, erase, ledger, faults>>

\* _provision_k8s, or the PATCH of start, which may find the CR ready and write
\* READY, over DELETING too.
CallOk(s) ==
    /\ pc[s] \in {"provision", "call"}
    /\ pc' = [pc EXCEPT ![s] = IF @ = "call" THEN "idle" ELSE "record"]
    /\ \/ UNCHANGED <<row, returned>>
       \/ pc[s] = "call" /\ s \in Alive /\ row' = Written(s, "up") /\ returned' = ReturnedAs(s, "up")
    /\ UNCHANGED <<gone, restoring, plan, blind, limits, erase, ledger, faults>>

\* The row becomes ERROR, without a ledger entry; for a template that is gone
\* it is removed.
CallFails(s) ==
    /\ pc[s] \in {"provision", "call"} /\ Fault
    /\ \/ row' = Written(s, "down") /\ UNCHANGED <<gone, blind>>
       \/ /\ pc[s] = "provision" /\ row' = [row EXCEPT ![s] = "removed"]
          /\ gone' = gone \cup {s} /\ blind' = blind \ {s}
    /\ pc' = [pc EXCEPT ![s] = "idle"] /\ returned' = returned \ {s}
    /\ UNCHANGED <<plan, restoring, limits, erase, ledger>>

\* _record_metering, best effort.
Record(s) ==
    /\ pc[s] = "record" /\ pc' = [pc EXCEPT ![s] = "idle"]
    /\ \/ ledger' = ledger \cup {s} /\ UNCHANGED faults
       \/ Fault /\ UNCHANGED ledger
    /\ UNCHANGED <<plan, blind, rows, limits, erase>>

\* delete commits DELETING, also while a create or start is under way, and goes
\* on to erase the CR, which changes no row, or the snapshot.
DeleteBegin(s) ==
    /\ RoomForChange({s})
    /\ s \in Alive \ restoring /\ row[s] # "deleting" /\ erase[s] # "snapshot"
    /\ row' = [row EXCEPT ![s] = "deleting"] /\ returned' = returned \ {s}
    /\ erase' = [erase EXCEPT ![s] = IF row[s] = "cold" THEN "snapshot" ELSE "CR"]
    /\ UNCHANGED <<gone, restoring, requests, limits, ledger, faults>>

\* A deleted snapshot ends the sandbox, and its ledger entry, in one commit.
DeleteCold(s) ==
    /\ erase[s] = "snapshot" /\ erase' = [erase EXCEPT ![s] = "none"]
    /\ row' = Written(s, "deleted") /\ returned' = returned \ {s}
    /\ gone' = gone \cup {s} /\ restoring' = restoring \ {s} /\ blind' = blind \ {s} /\ ledger' = ledger \ {s}
    /\ UNCHANGED <<pc, plan, limits, faults>>

\* The row becomes ERROR.
DeleteFails(s) ==
    /\ erase[s] # "none" /\ erase' = [erase EXCEPT ![s] = "none"] /\ Fault
    /\ row' = Written(s, "down") /\ returned' = returned \ {s}
    /\ UNCHANGED <<gone, restoring, requests, limits, ledger>>

\* The sync loop: the CR of a DELETING row is gone.  The release of the ledger
\* entry is best effort.  What the delete handler still writes, to a row that is
\* gone, is left out.
SoftDelete(s) ==
    /\ s \in Alive /\ row[s] = "deleting"
    /\ row' = [row EXCEPT ![s] = "deleted"] /\ erase' = [erase EXCEPT ![s] = "none"]
    /\ gone' = gone \cup {s} /\ restoring' = restoring \ {s} /\ blind' = blind \ {s}
    /\ \/ ledger' = ledger \ {s} /\ UNCHANGED faults
       \/ Fault /\ UNCHANGED ledger
    /\ UNCHANGED <<pc, plan, returned, limits>>

Delete(s) == DeleteBegin(s) \/ DeleteCold(s) \/ DeleteFails(s) \/ SoftDelete(s)

-----------------------------------------------------------------------------
(* The background loops.                                                   *)

\* reconcile_storage_metering.  The entry of a row that was removed is left.
Reconcile ==
    LET missing == {s \in Alive : row[s] # "deleting"}
        stale == {s \in Sandboxes : row[s] \in {"deleting", "deleted"}} IN
    /\ ledger' = (ledger \cup missing) \ stale /\ ledger' # ledger
    /\ UNCHANGED <<requests, rows, limits, erase, faults>>

\* Where the sync loop, a stop or the snapshot tick may take a row.
Moves(status) == CASE status = "up" -> {"down"} [] status = "down" -> {"up", "cold"} [] OTHER -> {}

\* The row follows the Sandbox CR; stop and the snapshot tick are among its
\* causes.
Sync(s) ==
    /\ s \in Alive \ restoring
    /\ \E status \in Moves(row[s]) :
          row' = [row EXCEPT ![s] = status] /\ returned' = ReturnedAs(s, status)
    /\ UNCHANGED <<gone, requests, restoring, limits, erase, ledger, faults>>

\* The snapshot tick ends a restore: READY, STOPPED (the runtime failed, the disk
\* is back) or still COLD.  Until then the sync loop leaves the status alone.
RestoreEnds(s) ==
    /\ s \in restoring /\ restoring' = restoring \ {s}
    /\ \E status \in {"up", "down", "cold"} :
          row' = [row EXCEPT ![s] = status] /\ returned' = ReturnedAs(s, status)
    /\ UNCHANGED <<gone, requests, limits, erase, ledger, faults>>

-----------------------------------------------------------------------------
Init ==
    /\ row = [s \in Sandboxes |-> "none"] /\ restoring = {} /\ returned = {}
    /\ gone = {} /\ erase = [s \in Sandboxes |-> "none"]
    /\ ledger = {} /\ pc = [s \in Sandboxes |-> "idle"] /\ plan = None /\ blind = {}
    /\ config = [cap |-> InitialCap, version |-> 0]
    /\ snap = [p \in Replicas |-> [cap |-> config.cap, version |-> 0, used |-> 0]]
    /\ patching = [p \in Replicas |-> None] /\ refresh = [p \in Replicas |-> NotRefreshing] /\ faults = 0

Next ==
    \/ \E p \in Replicas \cup {None} : PatchCommit(p)
    \/ \E p \in Replicas, w \in Refreshers : Refresh(p, w) \/ RefreshFails(p, w)
    \/ \E s \in Sandboxes, p \in Replicas : CreateBegin(s, p)
    \/ \E s \in Sandboxes :
          \/ StartBegin(s) \/ Check(s) \/ CheckFails(s) \/ CheckedCommit(s)
          \/ CallOk(s) \/ CallFails(s) \/ Record(s) \/ Delete(s)
          \/ Sync(s) \/ RestoreEnds(s)
    \/ Reconcile

Spec == Init /\ [][Next]_vars

\* The refresh loop and a PATCH handler go on.
FairSpec ==
    /\ Spec
    /\ \A p \in Replicas, w \in Refreshers : WF_vars(Refresh(p, w))

-----------------------------------------------------------------------------
(* Properties.                                                             *)

Limits == [cap : Caps, version : 0..MaxChanges]

\* Every variable keeps its type, and the plan is locked for exactly the
\* request that has been checked and has not committed.
TypeOK ==
    /\ row \in [Sandboxes -> Status] /\ erase \in [Sandboxes -> {"none", "CR", "snapshot"}]
    /\ {gone, restoring, ledger, returned, blind} \subseteq SUBSET Sandboxes
    /\ pc \in [Sandboxes -> {"idle", "create", "start", "thaw", "persist", "resume", "restore",
                            "provision", "call", "record"}]
    /\ HoldsLock = {plan} \ {None}
    /\ config \in Limits
    /\ snap \in [Replicas -> [cap : Caps, version : 0..MaxChanges, used : 0..Cardinality(Sandboxes)]]
    /\ patching \in [Replicas -> Limits \cup {None}]
    /\ refresh \in [Replicas -> [Refreshers -> Limits \cup {None}]]
    /\ faults \in 0..MaxFaults

\* A user never runs more sandboxes than his plan allows, those apart that came
\* back without asking: restored ones, and ones the sync loop found running
\* (check_concurrent_limit under FOR UPDATE).
ConcurrentBound == Cardinality(Running \ returned) <= MaxRunning

\* A user's sandboxes never need more storage than his quota, those apart that
\* were admitted while an earlier one had no ledger entry yet
\* (check_storage_quota, _record_metering, reconcile_storage_metering).
StorageBound == Cardinality(Alive \ blind) <= Quota

\* A snapshot is replaced by one with older limits only by a PATCH handler that
\* a later change has overtaken, never by the loop (PlatformLimitsRuntime._lock,
\* refresh_from_session).
SnapshotMonotone ==
    [][\A p \in Replicas :
          \/ snap'[p].version >= snap[p].version
          \/ patching[p] # None /\ patching'[p] = None /\ snap'[p].version = patching[p].version]_vars

\* A change of the limits reaches every replica, also those that did not serve
\* the PATCH, whatever refreshes fail (_run_refresh_loop).
SnapshotConverges == \A p \in Replicas : <>[](snap[p].version = config.version)
=============================================================================
