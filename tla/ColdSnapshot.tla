----------------------------- MODULE ColdSnapshot -----------------------------
(***************************************************************************)
(* Cold storage of one persistent, direct sandbox: the snapshot and start  *)
(* requests that queue a pending operation, the storage snapshot tick      *)
(* (StorageSnapshotOrchestrator) that carries it out, and the disk, the    *)
(* VolumeSnapshot and the Sandbox CR that hold the user's data meanwhile.  *)
(*                                                                         *)
(* Every actor works on an ORM object: `base' is the row as it was loaded  *)
(* or last committed, `obj' the object as changed since; a commit writes   *)
(* the attributes that differ, by id.  The sync loop, which module         *)
(* SandboxLifecycle cuts into its steps, is one step here.  A workspace is *)
(* a number that grows with every write of the user.                       *)
(***************************************************************************)
EXTENDS Naturals

CONSTANTS
    Workers,       \* API request handlers and the lifecycle tick's auto-delete
    MaxOps,        \* bound: requests
    MaxWrites,     \* bound: writes of the user to the workspace
    MaxErrors,     \* bound: pods that end in a ReconcilerError
    EarlyErrors,   \* TRUE: a ReconcilerError may precede the workspace disk
    MaxMishaps     \* bound: Kubernetes calls that fail and ticks that are cut off

ASSUME ColdAssumption ==
    /\ {MaxOps, MaxWrites, MaxErrors, MaxMishaps} \subseteq Nat
    /\ EarlyErrors \in BOOLEAN

VARIABLES
    row,       \* the Sandbox row
    session,   \* TRUE while a ComputeSession is open
    ledger,    \* the backend_mode of the ACTIVE StorageLedger entry, or "none"
    cr,        \* the Sandbox CR
    disk,      \* the workspace PVC and its PV
    vs,        \* the VolumeSnapshot and its VolumeSnapshotContent
    deleted,   \* TRUE: a DELETED Watch event is waiting
    wk,        \* each worker's request
    tick,      \* the storage snapshot tick
    newest,    \* the newest workspace the user wrote
    doomed,    \* TRUE once somebody asked to delete the sandbox
    used       \* how much of each bound has been spent

vars == <<row, session, ledger, cr, disk, vs, deleted, wk, tick, newest, doomed, used>>

db  == <<row, session, ledger>>
k8s == <<cr, disk, vs, deleted>>
usr == <<newest, doomed>>

-----------------------------------------------------------------------------
(* The row.                                                                *)

SandboxStatus == {"creating", "ready", "stopped", "cold", "error", "deleting", "deleted"}

\* name, content: the bound VolumeSnapshot and its content.  snapped compares
\* gmt_snapshotted with gmt_restored: "none" (null), "new", or "old" when the
\* workspace has been restored since.
Rows == [status: SandboxStatus, pending: {"none", "snapshotting", "restoring"},
         mode: {"live_disk", "standard_snapshot"}, name: BOOLEAN, content: BOOLEAN,
         snapped: {"none", "new", "old"}, gmt_deleted: BOOLEAN]

Deleted(o) == [o EXCEPT !.status = "deleted", !.gmt_deleted = TRUE]

\* A commit writes the attributes that were changed.
Merge(base, obj) == [f \in DOMAIN row |-> IF obj[f] # base[f] THEN obj[f] ELSE row[f]]

clear_snapshot_binding(o) == [o EXCEPT !.name = FALSE, !.content = FALSE, !.snapped = "none"]

\* Fault: the API server answers with errors, or with a 404, for as long as a step takes.
Mishap == used.faults + used.crashes < MaxMishaps
Fault == Mishap /\ used' = [used EXCEPT !.faults = @ + 1]

\* A call raises because it must, or because it fails.
Raises(must) == (must /\ UNCHANGED used) \/ Fault

-----------------------------------------------------------------------------
(* Kubernetes (external).  A CR's st is the status that                    *)
(* derive_status_from_sandbox_cr reads off it; "stopping" still reads as   *)
(* ready.  The PVC belongs to the CR and is collected with it.             *)

NoCR   == [phase |-> "absent", st |-> "creating"]
NoDisk == [phase |-> "absent", data |-> 0]
NoVS   == [phase |-> "absent", data |-> 0, content |-> FALSE]

\* The pod gets ready; a CR without a disk has it restored from the snapshot.
ControllerStart ==
    /\ cr = [phase |-> "live", st |-> "creating"]
    /\ \/ /\ disk.phase = "bound"
          /\ cr' = [cr EXCEPT !.st = "ready"] /\ UNCHANGED disk
       \/ /\ disk.phase = "absent" /\ vs.phase = "ready"
          /\ disk' = [phase |-> "bound", data |-> vs.data] /\ UNCHANGED cr
    /\ UNCHANGED <<db, vs, deleted, wk, tick, usr, used>>

ControllerStop ==
    /\ cr = [phase |-> "live", st |-> "stopping"]
    /\ cr' = [cr EXCEPT !.st = "stopped"]
    /\ UNCHANGED <<db, disk, vs, deleted, wk, tick, usr, used>>

ControllerError ==
    /\ cr.phase = "live" /\ cr.st \in {"creating", "ready"}
    /\ EarlyErrors \/ disk.phase = "bound"
    /\ used.errors < MaxErrors
    /\ used' = [used EXCEPT !.errors = @ + 1]
    /\ cr' = [cr EXCEPT !.st = "error"]
    /\ UNCHANGED <<db, disk, vs, deleted, wk, tick, usr>>

ControllerRemove ==
    /\ \/ cr.phase = "terminating" /\ cr' = NoCR /\ deleted' = TRUE /\ UNCHANGED disk
       \/ /\ disk.phase = "terminating" \/ (disk.phase = "bound" /\ cr.phase = "absent")
          /\ disk' = NoDisk /\ UNCHANGED <<cr, deleted>>
    /\ UNCHANGED <<db, vs, wk, tick, usr, used>>

\* The content is bound first, readyToUse comes later.
SnapshotReady ==
    /\ vs.phase = "pending"
    /\ vs' = IF vs.content THEN [vs EXCEPT !.phase = "ready"] ELSE [vs EXCEPT !.content = TRUE]
    /\ UNCHANGED <<db, cr, disk, deleted, wk, tick, usr, used>>

\* The user's programs write to the workspace until the pod is down.
UserWrites ==
    /\ cr.phase = "live" /\ cr.st \in {"ready", "stopping"}
    /\ newest < MaxWrites
    /\ newest' = newest + 1
    /\ disk' = [disk EXCEPT !.data = newest + 1]
    /\ UNCHANGED <<db, cr, vs, deleted, wk, tick, doomed, used>>

\* delete_bound_snapshot(o) goes through.  The PATCH of the deletion policy asks
\* for the content that the row names; a GET that fails skips its DELETE.
CleanupOk(o) ==
    /\ o.content => vs.content
    /\ \/ vs' = NoVS /\ UNCHANGED used
       \/ vs' \in {vs, [vs EXCEPT !.phase = "absent"]} /\ Fault

\* It raises: before anything, after the VolumeSnapshot, or at the very end.
CleanupRaises(o) ==
    \/ o.content /\ ~vs.content /\ UNCHANGED <<vs, used>>
    \/ /\ (o.content => vs.content) /\ Fault
       /\ vs' \in {vs, [vs EXCEPT !.phase = "absent"], NoVS}

-----------------------------------------------------------------------------
(* The sync loop.  A pending operation keeps it off the status.            *)

VALID_TRANSITIONS ==
    [creating |-> {"ready", "error", "stopped"}, ready |-> {"stopped", "error"},
     stopped |-> {"creating", "ready", "error"}, cold |-> {"stopped", "ready", "error"},
     error |-> {"ready", "creating", "stopped"}, deleting |-> {}, deleted |-> {}]

Derived == IF cr.st = "stopping" THEN "ready" ELSE cr.st

\* _sync_visible_sandbox_clause
SyncVisible == ~row.gmt_deleted \/ row.status = "deleting"

SyncChanged ==
    /\ SyncVisible
    /\ cr.phase # "absent" /\ row.pending = "none"
    /\ Derived \in VALID_TRANSITIONS[row.status]
    /\ row' = [row EXCEPT !.status = Derived]
    /\ session' = (Derived = "ready")
    /\ UNCHANGED <<ledger, k8s, wk, tick, usr, used>>

\* A DELETED event: expected while snapshotting and when cold.
SyncDeleted ==
    /\ deleted /\ deleted' = FALSE
    /\ IF ~SyncVisible \/ row.pending = "snapshotting" \/ row.status = "cold" THEN UNCHANGED db
       ELSE /\ row' = IF row.status = "deleting" THEN Deleted(row) ELSE [row EXCEPT !.status = "error"]
            /\ session' = FALSE /\ ledger' = "none"
    /\ UNCHANGED <<cr, disk, vs, wk, tick, usr, used>>

\* reconcile finalizes a DELETING row without a CR, and its hooks repair the
\* compute session and the storage ledger.
SyncReconcile ==
    /\ row' = IF row.status = "deleting" /\ cr.phase = "absent" THEN Deleted(row) ELSE row
    /\ session' = (row'.status = "ready")
    /\ ledger' = IF row'.status \in {"deleting", "deleted"} THEN "none"
                 ELSE IF ledger = "none" /\ ~row'.gmt_deleted THEN row.mode ELSE ledger
    /\ <<row', session', ledger'>> # db
    /\ UNCHANGED <<k8s, wk, tick, usr, used>>

-----------------------------------------------------------------------------
(* The requests of SandboxService, and the auto-stop and auto-delete of    *)
(* the lifecycle tick.                                                     *)

Ops == {"snapshot", "start", "stop", "delete", "auto_stop", "auto_delete"}

Accepts(op, status) ==
    CASE op = "snapshot"    -> status \in {"ready", "stopped"}
      [] op = "start"       -> status \in {"stopped", "error", "cold"}
      [] op = "stop"        -> status \in {"ready", "error"}
      [] op = "delete"      -> status \notin {"deleting", "deleted"}
      [] op = "auto_stop"   -> status = "ready"
      [] op = "auto_delete" -> status \in {"stopped", "cold"}

\* The first thing each request does to its object, and where it goes then.
FirstChange(op, o) ==
    CASE op = "start" /\ o.status = "cold"     -> [o EXCEPT !.pending = "restoring"]
      [] op = "start" /\ o.status # "cold"     -> [o EXCEPT !.status = "creating"]
      [] op = "stop"                           -> [o EXCEPT !.status = "stopped"]
      [] op = "snapshot" /\ o.status = "ready" -> [o EXCEPT !.status = "stopped"]
      [] op = "snapshot" /\ o.status # "ready" -> [o EXCEPT !.pending = "snapshotting"]
      [] op = "delete"                         -> [o EXCEPT !.status = "deleting"]
      [] OTHER                                 -> o

AfterCommit(op, o) ==
    CASE op = "start"                           -> IF o.pending = "none" THEN "run" ELSE "idle"
      [] op \in {"stop", "auto_stop"}           -> "suspend"
      [] op = "snapshot"                        -> IF o.pending = "none" THEN "suspend" ELSE "idle"
      [] op = "delete" /\ (o.mode = "standard_snapshot" \/ o.name) -> "cleanup"
      [] op = "auto_delete" /\ (o.status = "cold" \/ o.mode = "standard_snapshot") -> "cleanup"
      [] OTHER                                  -> "remove"

IdleWorker == [pc |-> "idle", op |-> "none", obj |-> row]
Idle(w) == wk' = [wk EXCEPT ![w].pc = "idle", ![w].op = "none"]

\* Load the row and check that the request is allowed; the next step commits.
\* Only the auto-stop does not ask for a pending operation, and only requests
\* ask for gmt_deleted.
RequestRead(w, op) ==
    /\ wk[w].pc = "idle" /\ used.ops < MaxOps
    /\ row.pending = "none" \/ op = "auto_stop"
    /\ ~row.gmt_deleted \/ op \in {"auto_stop", "auto_delete"}
    /\ Accepts(op, row.status)
    /\ used' = [used EXCEPT !.ops = @ + 1]
    /\ wk' = [wk EXCEPT ![w] = [pc |-> "commit", op |-> op, obj |-> row]]
    /\ UNCHANGED <<db, k8s, tick, usr>>

RequestCommit(w) ==
    /\ wk[w].pc = "commit"
    /\ LET o == FirstChange(wk[w].op, wk[w].obj) IN
          /\ row' = Merge(wk[w].obj, o)
          /\ wk' = [wk EXCEPT ![w].obj = o, ![w].pc = AfterCommit(wk[w].op, o)]
    /\ doomed' = (doomed \/ wk[w].op \in {"delete", "auto_delete"})
    /\ UNCHANGED <<session, ledger, k8s, tick, newest, used>>

\* The commit that ends a request.
Finish(w, o) == row' = Merge(wk[w].obj, o) /\ Idle(w)

\* start: PATCH operatingMode = Running.
RequestRun(w) ==
    /\ wk[w].pc = "run"
    /\ \/ /\ cr.phase # "absent" /\ UNCHANGED <<row, used>> /\ Idle(w)
          /\ cr' = IF cr.st \in {"stopping", "stopped"} THEN [cr EXCEPT !.st = "creating"] ELSE cr
       \/ /\ Raises(cr.phase = "absent")
          /\ UNCHANGED cr /\ Finish(w, [wk[w].obj EXCEPT !.status = "error"])
    /\ UNCHANGED <<session, ledger, disk, vs, deleted, tick, usr>>

\* stop, and the stop that a snapshot of a READY sandbox begins with: PATCH
\* operatingMode = Suspended, then close the session; a snapshot goes on.  The
\* auto-stop stores STOPPED only now, and nothing when the PATCH fails.
RequestSuspend(w) ==
    /\ wk[w].pc = "suspend"
    /\ \/ /\ cr.phase # "absent" /\ session' = FALSE /\ UNCHANGED used
          /\ cr' = IF cr.st = "stopped" THEN cr ELSE [cr EXCEPT !.st = "stopping"]
          /\ IF wk[w].op = "snapshot" THEN wk' = [wk EXCEPT ![w].pc = "queue"] /\ UNCHANGED row
             ELSE Finish(w, [wk[w].obj EXCEPT !.status = "stopped"])
       \/ /\ Raises(cr.phase = "absent") /\ UNCHANGED <<cr, session>>
          /\ IF wk[w].op = "auto_stop" THEN Idle(w) /\ UNCHANGED row
             ELSE Finish(w, [wk[w].obj EXCEPT !.status = "error"])
    /\ UNCHANGED <<ledger, disk, vs, deleted, tick, usr>>

\* ... the commit of its pending operation, or a 409 when the snapshot class
\* cannot be read.
RequestQueue(w) ==
    /\ wk[w].pc = "queue"
    /\ \/ Finish(w, [wk[w].obj EXCEPT !.pending = "snapshotting"]) /\ UNCHANGED used
       \/ Fault /\ Idle(w) /\ UNCHANGED row
    /\ UNCHANGED <<session, ledger, k8s, tick, usr>>

\* Mutant: a cold sandbox is finalized without its snapshot.
RequestCleanupSkips(w) ==
    /\ wk[w].pc = "cleanup"
    /\ Finish(w, Deleted(clear_snapshot_binding(wk[w].obj)))
    /\ ledger' = "none"
    /\ UNCHANGED <<session, cr, disk, vs, deleted, tick, usr, used>>

\* delete and auto_delete of a bound snapshot.  A cold sandbox is finalized at
\* once; otherwise the CR is next.
RequestCleanup(w) ==
    /\ wk[w].pc = "cleanup"
    /\ \/ /\ CleanupOk(wk[w].obj)
          /\ LET o == clear_snapshot_binding(wk[w].obj) IN
                IF wk[w].op = "auto_delete" \/ o.mode = "standard_snapshot"
                THEN /\ Finish(w, Deleted(o)) /\ ledger' = "none"
                ELSE /\ wk' = [wk EXCEPT ![w].pc = "remove"]
                     /\ UNCHANGED <<row, ledger>>
       \/ /\ CleanupRaises(wk[w].obj)
          /\ Finish(w, [wk[w].obj EXCEPT !.status = "error"])
          /\ UNCHANGED ledger
    /\ UNCHANGED <<session, cr, disk, deleted, tick, usr>>

\* DELETE of the CR.  delete has committed DELETING before, and its last commit
\* stores that the binding is gone; auto_delete commits DELETING now.
RequestRemove(w) ==
    /\ wk[w].pc = "remove"
    /\ LET o == IF wk[w].op = "delete" /\ wk[w].obj.name THEN clear_snapshot_binding(wk[w].obj) ELSE wk[w].obj IN
       \/ /\ cr.phase # "absent" /\ UNCHANGED used
          /\ cr' = [cr EXCEPT !.phase = "terminating"]
          /\ Finish(w, [o EXCEPT !.status = "deleting"])
       \/ /\ Raises(cr.phase = "absent")
          /\ UNCHANGED cr
          /\ IF wk[w].op = "delete" THEN Finish(w, [o EXCEPT !.status = "error"])
             ELSE Idle(w) /\ UNCHANGED row
    /\ UNCHANGED <<session, ledger, disk, vs, deleted, tick, usr>>

Request(w) == RequestCommit(w) \/ RequestRun(w) \/ RequestSuspend(w) \/ RequestQueue(w)
              \/ RequestCleanup(w) \/ RequestRemove(w)

-----------------------------------------------------------------------------
(* run_storage_snapshot_tick and StorageSnapshotOrchestrator.              *)

IdleTick == [pc |-> "idle", base |-> row, obj |-> row]

\* The commit that ends the tick's work on this sandbox.
Commit(o) == row' = Merge(tick.base, o) /\ tick' = [tick EXCEPT !.pc = "idle"]

\* Mutant: the pending operation's name is stored as the status.
fail_restore_as_status(o) == [o EXCEPT !.pending = "none", !.status = "restoring"]

\* Mutant: a failed restore forgets its snapshot.
fail_restore_clears(o) == [clear_snapshot_binding(o) EXCEPT !.pending = "none", !.status = "cold"]

\* _fail_snapshot and _fail_restore keep the snapshot binding.
fail_snapshot(o) == [o EXCEPT !.pending = "none", !.status = "stopped"]
fail_restore(o)  == [o EXCEPT !.pending = "none", !.status = "cold"]
fail(o) == IF o.pending = "snapshotting" THEN fail_snapshot(o) ELSE fail_restore(o)

\* A binding that a restore has outdated.
Stale(o) == o.mode = "live_disk" /\ o.name /\ o.snapped = "old"

\* Load the row; ensure_ready reads the snapshot class.
TickLoad ==
    /\ tick.pc = "idle" /\ row.pending # "none" /\ ~row.gmt_deleted
    /\ \/ /\ tick' = [base |-> row, obj |-> row,
                      pc |-> IF row.pending = "restoring" THEN "restore"
                             ELSE IF Stale(row) THEN "stale"
                             ELSE IF row.mode = "standard_snapshot" THEN "already"
                             ELSE IF row.name THEN "await"
                             ELSE "create"]
          /\ UNCHANGED <<row, used>>
       \/ Fault /\ row' = fail(row) /\ UNCHANGED tick
    /\ UNCHANGED <<session, ledger, k8s, wk, usr>>

\* A stale snapshot is removed first, and gmt_snapshotted moves past gmt_restored.
SnapStale ==
    /\ tick.pc = "stale"
    /\ \/ CleanupOk(tick.obj)
          /\ Commit([clear_snapshot_binding(tick.obj) EXCEPT !.snapped = "new"])
       \/ CleanupRaises(tick.obj) /\ Commit(fail_snapshot(tick.obj))
    /\ UNCHANGED <<session, ledger, cr, disk, deleted, wk, usr>>

SnapAlready ==
    /\ tick.pc = "already"
    /\ Commit([tick.obj EXCEPT !.pending = "none", !.status = "cold"])
    /\ UNCHANGED <<session, ledger, k8s, wk, usr, used>>

\* Wait until the CR has stopped, and find the PVC; a GET that fails reads as
\* "no CR".
SnapCreate ==
    /\ tick.pc = "create"
    /\ \/ /\ Raises(cr.phase = "absent" \/ Derived = "error" \/ (Derived = "stopped" /\ disk.phase = "absent"))
          /\ Commit(fail_snapshot(tick.obj))
       \/ /\ cr.phase # "absent" /\ Derived \in {"creating", "ready"}
          /\ Commit(tick.obj) /\ UNCHANGED used
       \/ /\ cr.phase # "absent" /\ Derived = "stopped" /\ disk.phase # "absent"
          /\ tick' = [tick EXCEPT !.pc = "post"] /\ UNCHANGED <<row, used>>
    /\ UNCHANGED <<session, ledger, k8s, wk, usr>>

\* POST the VolumeSnapshot; its name is taken when an earlier one was left behind.
SnapPost ==
    /\ tick.pc = "post"
    /\ LET made == [phase |-> "pending", data |-> disk.data, content |-> FALSE] IN
          \/ /\ vs.phase = "absent" /\ vs' = made /\ UNCHANGED used
             /\ Commit([tick.obj EXCEPT !.name = TRUE])
          \/ /\ Raises(vs.phase # "absent")
             /\ vs' = vs \/ (vs.phase = "absent" /\ vs' = made)
             /\ Commit(fail_snapshot(tick.obj))
    /\ UNCHANGED <<session, ledger, cr, disk, deleted, wk, usr>>

\* Mutant: readyToUse is not waited for.
SnapAwaitNot ==
    /\ tick.pc = "await"
    /\ tick' = [tick EXCEPT !.pc = "release_cr", !.obj.content = vs.content, !.obj.snapped = "new"]
    /\ UNCHANGED <<db, k8s, wk, usr, used>>

\* Wait for readyToUse; a GET that fails reads as "no snapshot".
SnapAwait ==
    /\ tick.pc = "await"
    /\ \/ Raises(vs.phase = "absent") /\ Commit(fail_snapshot(tick.obj))
       \/ /\ vs.phase = "pending"
          /\ Commit([tick.obj EXCEPT !.content = @ \/ vs.content]) /\ UNCHANGED used
       \/ /\ vs.phase = "ready"
          /\ tick' = [tick EXCEPT !.pc = "release_cr", !.obj.content = TRUE, !.obj.snapped = "new"]
          /\ UNCHANGED <<row, used>>
    /\ UNCHANGED <<session, ledger, k8s, wk, usr>>

\* _release_live_workspace_assets: DELETE the CR, then the PVC.  Either may be
\* gone between its GET and its DELETE; a GET that fails skips the DELETE.
SnapReleaseCR ==
    /\ tick.pc = "release_cr"
    /\ \/ /\ cr' = IF cr.phase = "absent" THEN cr ELSE [cr EXCEPT !.phase = "terminating"]
          /\ tick' = [tick EXCEPT !.pc = "release_pvc"] /\ UNCHANGED used
       \/ /\ cr.phase # "absent" /\ Fault /\ UNCHANGED cr
          /\ \E pc \in {"undo", "release_pvc"} : tick' = [tick EXCEPT !.pc = pc]
    /\ UNCHANGED <<db, disk, vs, deleted, wk, usr>>

SnapReleasePVC ==
    /\ tick.pc = "release_pvc"
    /\ \/ /\ disk' = IF disk.phase = "absent" THEN disk ELSE [disk EXCEPT !.phase = "terminating"]
          /\ tick' = [tick EXCEPT !.pc = "check"] /\ UNCHANGED used
       \/ /\ disk.phase # "absent" /\ Fault /\ UNCHANGED disk
          /\ \E pc \in {"undo", "check"} : tick' = [tick EXCEPT !.pc = pc]
    /\ UNCHANGED <<db, cr, vs, deleted, wk, usr>>

\* The release raised: the snapshot is given up.  When that raises too, the
\* session is rolled back.
SnapUndo ==
    /\ tick.pc = "undo"
    /\ \/ CleanupOk(tick.obj) /\ Commit(fail_snapshot(clear_snapshot_binding(tick.obj)))
       \/ CleanupRaises(tick.obj) /\ tick' = [tick EXCEPT !.pc = "idle"] /\ UNCHANGED row
    /\ UNCHANGED <<session, ledger, cr, disk, deleted, wk, usr>>

\* Mutant: the cutover does not wait for the CR and the disk.
SnapCheckNot ==
    /\ tick.pc = "check"
    /\ ledger' = "standard_snapshot"
    /\ Commit([tick.obj EXCEPT !.status = "cold", !.pending = "none", !.mode = "standard_snapshot"])
    /\ UNCHANGED <<session, k8s, wk, usr, used>>

\* The cutover, once CR, PVC and PV are gone (or their GET failed).
SnapCheck ==
    /\ tick.pc = "check"
    /\ \/ /\ Raises(cr.phase = "absent" /\ disk.phase = "absent")
          /\ ledger' = IF ledger = "none" THEN ledger ELSE "standard_snapshot"
          /\ Commit([tick.obj EXCEPT !.status = "cold", !.pending = "none", !.mode = "standard_snapshot"])
       \/ /\ cr.phase # "absent" \/ disk.phase # "absent"
          /\ Commit(tick.obj) /\ UNCHANGED <<ledger, used>>
    /\ UNCHANGED <<session, k8s, wk, usr>>

\* Mutant: a ReconcilerError is waited out.
RestoreWaits ==
    /\ tick.pc = "restore"
    /\ IF cr.phase # "absent" /\ Derived = "ready" /\ disk.phase = "bound"
       THEN tick' = [tick EXCEPT !.pc = "complete", !.obj.status = "ready"] /\ UNCHANGED <<row, cr>>
       ELSE /\ cr' = IF cr.phase = "absent" THEN [phase |-> "live", st |-> "creating"] ELSE cr
            /\ Commit(tick.obj)
    /\ UNCHANGED <<session, ledger, disk, vs, deleted, wk, usr, used>>

\* _process_restoring: create the CR from the snapshot, then wait for it.  A
\* ReconcilerError ends the restore before the disk is looked at.
Restore ==
    /\ tick.pc = "restore"
    /\ \/ ~tick.obj.name /\ Commit(fail_restore(tick.obj)) /\ UNCHANGED <<cr, used>>
       \/ /\ tick.obj.name /\ cr.phase = "absent"
          /\ \/ Commit(tick.obj) /\ cr' = [phase |-> "live", st |-> "creating"] /\ UNCHANGED used
             \/ Fault /\ Commit(fail_restore(tick.obj)) /\ cr' \in {cr, [phase |-> "live", st |-> "creating"]}
       \/ /\ tick.obj.name /\ cr.phase # "absent"
          /\ \/ Fault /\ Commit(fail_restore(tick.obj))  \* the GET fails, the POST answers 409
             \/ /\ Derived = "error" /\ UNCHANGED <<row, used>>
                /\ tick' = [tick EXCEPT !.pc = "complete", !.obj.status = "stopped"]
             \/ /\ Derived = "ready" /\ disk.phase = "bound" /\ UNCHANGED <<row, used>>
                /\ tick' = [tick EXCEPT !.pc = "complete", !.obj.status = "ready"]
             \/ /\ Derived # "error" /\ ~(Derived = "ready" /\ disk.phase = "bound")
                /\ Commit(tick.obj) /\ UNCHANGED used
          /\ UNCHANGED cr
    /\ UNCHANGED <<session, ledger, disk, vs, deleted, wk, usr>>

\* _complete_restore_to_live_disk: the row is back on its disk, and the snapshot
\* is removed; when that fails its binding stays behind, outdated.
RestoreComplete ==
    /\ tick.pc = "complete"
    /\ LET o == [tick.obj EXCEPT !.pending = "none", !.mode = "live_disk",
                                 !.snapped = IF @ = "none" THEN @ ELSE "old"] IN
          \/ CleanupOk(o) /\ Commit(clear_snapshot_binding(o))
          \/ CleanupRaises(o) /\ Commit(o)
    /\ ledger' = IF ledger = "none" THEN ledger ELSE "live_disk"
    /\ session' = (session \/ tick.obj.status = "ready")
    /\ UNCHANGED <<cr, disk, deleted, wk, usr>>

\* The leader is replaced, or the commit fails: what the tick did to Kubernetes
\* stays, what it did to the row is rolled back.
TickCrash ==
    /\ tick.pc # "idle"
    /\ Mishap
    /\ used' = [used EXCEPT !.crashes = @ + 1]
    /\ \/ tick' = [tick EXCEPT !.pc = "idle"] /\ UNCHANGED vs
       \/ /\ tick.pc = "post" /\ vs.phase = "absent"
          /\ vs' = [phase |-> "pending", data |-> disk.data, content |-> FALSE]
          /\ tick' = [tick EXCEPT !.pc = "idle"]
       \/ /\ tick.pc \in {"stale", "undo", "complete"} /\ vs' = NoVS
          /\ tick' = [tick EXCEPT !.pc = "idle"]
    /\ UNCHANGED <<db, cr, disk, deleted, wk, usr>>

Tick == TickLoad \/ SnapStale \/ SnapAlready \/ SnapCreate \/ SnapPost \/ SnapAwait
        \/ SnapReleaseCR \/ SnapReleasePVC \/ SnapUndo \/ SnapCheck \/ Restore \/ RestoreComplete

-----------------------------------------------------------------------------
\* A running sandbox with an empty workspace.
Init ==
    /\ row = [status |-> "ready", pending |-> "none", mode |-> "live_disk",
              name |-> FALSE, content |-> FALSE, snapped |-> "none", gmt_deleted |-> FALSE]
    /\ session = TRUE /\ ledger = "live_disk"
    /\ cr = [phase |-> "live", st |-> "ready"]
    /\ disk = [phase |-> "bound", data |-> 0] /\ vs = NoVS /\ deleted = FALSE
    /\ wk = [w \in Workers |-> IdleWorker] /\ tick = IdleTick
    /\ newest = 0 /\ doomed = FALSE
    /\ used = [ops |-> 0, errors |-> 0, faults |-> 0, crashes |-> 0]

Controller == ControllerStart \/ ControllerStop \/ ControllerRemove \/ SnapshotReady
Sync == SyncChanged \/ SyncDeleted \/ SyncReconcile

Next ==
    \/ \E w \in Workers : Request(w) \/ \E op \in Ops : RequestRead(w, op)
    \/ Tick \/ TickCrash
    \/ Sync
    \/ Controller \/ ControllerError \/ UserWrites

Spec == Init /\ [][Next]_vars

\* Every handler goes on, the tick and the sync loop come round again, and the
\* controllers finish what they were asked for.
FairSpec ==
    /\ Spec
    /\ \A w \in Workers : WF_vars(Request(w))
    /\ WF_vars(Tick)
    /\ WF_vars(SyncChanged) /\ WF_vars(SyncDeleted) /\ WF_vars(SyncReconcile)
    /\ WF_vars(ControllerStart) /\ WF_vars(ControllerStop) /\ WF_vars(ControllerRemove)
    /\ WF_vars(SnapshotReady)

-----------------------------------------------------------------------------
(* Properties.                                                             *)

TickPcs == {"idle", "stale", "already", "create", "post", "await", "release_cr", "release_pvc",
            "undo", "check", "restore", "complete"}

\* Every variable keeps its type; every status and pending operation that is
\* stored is one the code knows.
TypeOK ==
    /\ row \in Rows
    /\ session \in BOOLEAN /\ ledger \in {"none", "live_disk", "standard_snapshot"}
    /\ cr \in [phase: {"absent", "live", "terminating"},
               st: {"creating", "ready", "stopping", "stopped", "error"}]
    /\ disk \in [phase: {"absent", "bound", "terminating"}, data: 0..MaxWrites]
    /\ vs \in [phase: {"absent", "pending", "ready"}, data: 0..MaxWrites, content: BOOLEAN]
    /\ deleted \in BOOLEAN
    /\ wk \in [Workers -> [pc: {"idle", "commit", "run", "suspend", "queue", "cleanup", "remove"},
                           op: Ops \cup {"none"}, obj: Rows]]
    /\ tick \in [pc: TickPcs, base: Rows, obj: Rows]
    /\ newest \in 0..MaxWrites /\ doomed \in BOOLEAN
    /\ used \in [ops: Nat, errors: Nat, faults: Nat, crashes: Nat]

\* Until somebody asks to delete the sandbox, and as long as no Kubernetes call
\* fails, its newest workspace survives, on the disk or in a snapshot that is
\* ready, whatever the snapshot tick, the requests, the controllers and a tick
\* that is cut off do (StorageSnapshotOrchestrator).
WorkspaceKept ==
    ~doomed /\ used.faults = 0 =>
        \/ disk.phase = "bound" /\ disk.data = newest
        \/ vs.phase = "ready" /\ vs.data = newest

Cold == row.status = "cold" /\ row.pending = "none" /\ ~doomed

\* A sandbox that rests in cold storage is bound to a ready snapshot, and its
\* storage is not billed as a disk (_process_snapshotting, _fail_restore).  Unless
\* a tick was cut off and a call failed too: a restore whose commit is lost has
\* removed the snapshot already, and when the next attempt fails the row is COLD
\* and bound to nothing.
ColdIsBound ==
    Cold /\ (used.faults = 0 \/ used.crashes = 0) =>
        /\ row.mode = "standard_snapshot" /\ ledger # "live_disk"
        /\ row.name /\ vs.phase = "ready"

\* A cold snapshot request ends with a snapshot of the newest workspace, and
\* never takes an older one for the new cold point (_process_snapshotting).
ColdIsNewest ==
    [][row.pending = "snapshotting" /\ row'.status = "cold" => vs'.data = newest']_vars

\* As long as no call fails, the CR and the disk of a cold sandbox are gone
\* (_release_live_workspace_assets).
ColdReleased == Cold /\ used.faults = 0 => cr.phase = "absent" /\ disk.phase = "absent"

\* The pod has been told the opposite of what the pending operation waits for:
\* a start overtook the snapshot, or an auto-stop the restore.
Overtaken ==
    /\ cr.phase = "live"
    /\ \/ row.pending = "snapshotting" /\ cr.st \in {"creating", "ready"}
       \/ row.pending = "restoring" /\ cr.st \in {"stopping", "stopped"}

\* A snapshot or a restore that was queued ends, unless it has been overtaken
\* (run_storage_snapshot_tick).
PendingEnds == row.pending # "none" ~> (row.pending = "none" \/ Overtaken)

Calm == used.faults = 0 /\ used.crashes = 0

\* A deleted sandbox leaves nothing behind in the cluster, as long as no call
\* fails and no tick is cut off (delete, auto-delete).
DeleteReleases ==
    row.gmt_deleted ~>
        (Calm => cr.phase = "absent" /\ disk.phase = "absent" /\ vs.phase = "absent")
=============================================================================
