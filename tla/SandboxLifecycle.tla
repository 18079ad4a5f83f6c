--------------------------- MODULE SandboxLifecycle ---------------------------
(***************************************************************************)
(* One sandbox of the Treadstone control plane: its database row, the      *)
(* Kubernetes Sandbox CR it stands for, the API requests that operate on   *)
(* it, the leader's lifecycle tick, and the sync loop (Watch, periodic     *)
(* reconcile and its metering hooks) that copies the CR's state back into  *)
(* the row.                                                                *)
(*                                                                         *)
(* Every actor is cut at its awaits: a row is read in one transaction and  *)
(* written in a later one, and a Kubernetes call happens in between.  Rows *)
(* written through the ORM carry `version = the version read + 1' and are  *)
(* matched by id alone; only the sync loop's _optimistic_update compares   *)
(* the version.  Cold storage (pending_operation, status "cold") is the    *)
(* subject of module ColdSnapshot: here pending_operation is always None.  *)
(***************************************************************************)
EXTENDS Naturals, Sequences

CONSTANTS
    Workers,        \* API request handlers that may run at the same time
    Fresh,          \* TRUE: from before the create; FALSE: from a running sandbox
    Persist,        \* TRUE: a direct, persistent sandbox; FALSE: a claim
    MaxOps,         \* bound: API requests after the create
    MaxTicks,       \* bound: sandboxes the lifecycle tick picks up
    MaxFaults,      \* bound: failed Kubernetes calls, observers, handlers
    MaxBacklog,     \* bound: Watch events that wait while the controller goes on
    MaxMishaps      \* bound: pods that fail, API processes that die, Watch streams
                    \* that end, and CRs that something else deletes

ASSUME LifecycleAssumption ==
    /\ {Fresh, Persist} \subseteq BOOLEAN
    /\ {MaxOps, MaxTicks, MaxFaults, MaxBacklog, MaxMishaps} \subseteq Nat

VARIABLES
    row,       \* the Sandbox row
    session,   \* TRUE while the sandbox has an open ComputeSession
    ledger,    \* TRUE while the sandbox has an ACTIVE StorageLedger entry
    cr,        \* the Sandbox CR in the API server
    k8sRv,     \* the API server's resourceVersion counter
    queue,     \* Watch events the API server holds for the sync loop
    sync,      \* where the sync loop is: "down", "relisted" or "watching"
    wk,        \* each API worker's request
    tick,      \* the lifecycle tick
    watch,     \* the Watch handler
    rec,       \* reconcile
    used       \* how much of each bound has been spent

vars == <<row, session, ledger, cr, k8sRv, queue, sync, wk, tick, watch, rec, used>>

db   == <<row, session, ledger>>
k8s  == <<cr, k8sRv, queue>>
loop == <<sync, watch, rec>>

-----------------------------------------------------------------------------
(* The sandbox's states.                                                   *)

Live == {"creating", "ready", "stopped", "error", "deleting"}

\* "absent": no row (before create, or removed by a failed create).
SandboxStatus == Live \cup {"deleted", "absent"}

NoRow == [status |-> "absent", version |-> 0, rv |-> 0, gmt_deleted |-> FALSE]

VALID_TRANSITIONS ==
    [s \in Live |->
        CASE s = "creating" -> {"ready", "error", "stopped", "deleting"}
          [] s = "ready"    -> {"stopped", "error", "deleting"}
          [] s = "stopped"  -> {"creating", "ready", "cold", "error", "deleting"}
          [] s = "error"    -> {"ready", "creating", "stopped", "cold", "deleting"}
          [] s = "deleting" -> {"deleted"}]

is_valid_transition(from, to) == from \in Live /\ to \in VALID_TRANSITIONS[from]

\* The rows the sync loop still sees: not soft-deleted, or a pending delete.
SyncVisible(r) == r.status # "absent" /\ (~r.gmt_deleted \/ r.status = "deleting")

-----------------------------------------------------------------------------
(* The Kubernetes API server and the agent-sandbox controller (external).  *)
(* A CR is [phase, mode, cond]: cond is the newest condition the           *)
(* controller wrote.  "Suspending" is Suspended=False beside a Ready=True  *)
(* condition that the controller has not withdrawn yet.                    *)

Conds == {"none", "NotReady", "Ready", "Error", "Suspending", "Suspended", "Finished"}

NoCR == [phase |-> "absent", mode |-> "Running", cond |-> "none"]

CRs == [phase: {"absent", "live", "terminating"}, mode: {"Running", "Suspended"}, cond: Conds]

derive_status_from_sandbox_cr(c) ==
    CASE c.mode = "Suspended" /\ c.cond # "Suspending" -> "stopped"
      [] c.cond \in {"Finished", "Suspended"}          -> "stopped"
      [] c.cond = "Error"                              -> "error"
      [] c.cond \in {"Ready", "Suspending"}            -> "ready"
      [] OTHER                                         -> "creating"

\* Every change of the CR gets a new resourceVersion and, once the sync loop
\* has a list to watch from, a Watch event that carries the CR as it is now.
Put(c, type) ==
    /\ cr' = c
    /\ k8sRv' = k8sRv + 1
    /\ queue' = IF sync = "down" THEN queue
                ELSE Append(queue, [type |-> type, rv |-> k8sRv + 1,
                                    status |-> derive_status_from_sandbox_cr(c)])

\* What a successful call does; a PATCH that changes nothing and a DELETE of a
\* CR that is already terminating leave the object as it is.
CallEffect(call) ==
    CASE call = "create" -> Put([phase |-> "live", mode |-> "Running", cond |-> "none"], "ADDED")
      [] call \in {"Running", "Suspended"} ->
            IF cr.mode = call THEN UNCHANGED k8s ELSE Put([cr EXCEPT !.mode = call], "MODIFIED")
      [] call = "delete" ->
            IF cr.phase = "terminating" THEN UNCHANGED k8s
            ELSE Put([cr EXCEPT !.phase = "terminating"], "MODIFIED")

\* create answers 409 for an existing name; PATCH and DELETE answer 404.
CallPossible(call) == (call = "create") <=> (cr.phase = "absent")

\* The controller brings the pod into line with spec.operatingMode.
ControllerConverge ==
    /\ cr.phase = "live" /\ Len(queue) < MaxBacklog
    /\ \/ cr.mode = "Running" /\ cr.cond \notin {"Ready", "Finished"}
          /\ Put([cr EXCEPT !.cond = "Ready"], "MODIFIED")
       \/ cr.mode = "Suspended" /\ cr.cond \notin {"Suspending", "Suspended"}
          /\ Put([cr EXCEPT !.cond = "Suspending"], "MODIFIED")
       \/ cr.mode = "Suspended" /\ cr.cond # "Suspended"
          /\ Put([cr EXCEPT !.cond = "Suspended"], "MODIFIED")
    /\ UNCHANGED <<db, loop, wk, tick, used>>

\* The pod fails, loses readiness, or reaches its shutdownTime.
ControllerDisturb ==
    /\ cr.phase = "live" /\ cr.mode = "Running" /\ Len(queue) < MaxBacklog
    /\ used.mishaps < MaxMishaps
    /\ \E c \in {"NotReady", "Error", "Finished"} \ {cr.cond} :
          Put([cr EXCEPT !.cond = c], "MODIFIED")
    /\ used' = [used EXCEPT !.mishaps = @ + 1]
    /\ UNCHANGED <<db, loop, wk, tick>>

\* A deletion completes.
ControllerRemove ==
    /\ cr.phase = "terminating" /\ Len(queue) < MaxBacklog
    /\ Put(NoCR, "DELETED")
    /\ UNCHANGED <<db, loop, wk, tick, used>>

\* Something other than Treadstone deletes the CR.
ForeignDelete ==
    /\ cr.phase = "live" /\ Len(queue) < MaxBacklog
    /\ used.mishaps < MaxMishaps
    /\ Put([cr EXCEPT !.phase = "terminating"], "MODIFIED")
    /\ used' = [used EXCEPT !.mishaps = @ + 1]
    /\ UNCHANGED <<db, loop, wk, tick>>

-----------------------------------------------------------------------------
(* The API requests of SandboxService.  A worker holds the status and the  *)
(* version of the row as its ORM session knows them.                       *)

IdleWorker == [pc |-> "idle", op |-> "none", version |-> 0, rv |-> 0]

Ops == {"start", "stop", "delete"}

\* The status each request accepts ...
Accepts(op, s) ==
    CASE op = "start"  -> s \in {"stopped", "error"}
      [] op = "stop"   -> s \in {"ready", "error"}
      [] op = "delete" -> is_valid_transition(s, "deleting")

\* Mutant: stop stores the CR's operating mode as the row's status.
FirstStatusIsMode == [start |-> "creating", stop |-> "Suspended", delete |-> "deleting"]

\* ... the status it commits first, and the Kubernetes call it makes then.
FirstStatus == [start |-> "creating", stop |-> "stopped", delete |-> "deleting"]
K8sCall == [create |-> "create", start |-> "Running", stop |-> "Suspended", delete |-> "delete"]

\* UPDATE sandbox SET status, version = <version read> + 1 WHERE id.
OrmWrite(r, status, read) == [r EXCEPT !.status = status, !.version = read + 1]

\* The worker's next step; a request that ends leaves nothing behind.
Goto(w, pc) ==
    wk' = [wk EXCEPT ![w] = IF pc = "idle" THEN IdleWorker ELSE [wk[w] EXCEPT !.pc = pc]]

\* create, phases 1 and 2: validate and commit the row.
CreatePersist(w) ==
    /\ row.status = "absent" /\ row.version = 0
    /\ row' = [row EXCEPT !.status = "creating", !.version = 1]
    /\ wk' = [wk EXCEPT ![w] = [pc |-> "call", op |-> "create", version |-> 1, rv |-> 0]]
    /\ UNCHANGED <<session, ledger, k8s, loop, tick, used>>

\* start, stop, delete: load the row and check that the request is allowed.
RequestRead(w, op) ==
    /\ wk[w].pc = "idle"
    /\ used.ops < MaxOps
    /\ row.status # "absent" /\ ~row.gmt_deleted
    /\ Accepts(op, row.status)
    /\ wk' = [wk EXCEPT ![w] = [pc |-> "commit", op |-> op, version |-> row.version, rv |-> 0]]
    /\ used' = [used EXCEPT !.ops = @ + 1]
    /\ UNCHANGED <<db, k8s, loop, tick>>

\* ... commit the first status.  A row that a failed create removed in the
\* meantime makes the flush raise: the request ends.
RequestCommit(w) ==
    /\ wk[w].pc = "commit"
    /\ IF row.status = "absent"
       THEN row' = row /\ Goto(w, "idle")
       ELSE /\ row' = OrmWrite(row, FirstStatus[wk[w].op], wk[w].version)
            /\ wk' = [wk EXCEPT ![w].pc = "call", ![w].version = @ + 1]
    /\ UNCHANGED <<session, ledger, k8s, loop, tick, used>>

\* Where a request goes after its Kubernetes call succeeded.
AfterCall(op) ==
    CASE op = "create" -> IF Persist THEN "ledger" ELSE "idle"
      [] op = "start"  -> "get"
      [] op = "stop"   -> "close"
      [] op = "delete" -> "idle"

RequestCallOk(w) ==
    /\ wk[w].pc = "call"
    /\ CallPossible(K8sCall[wk[w].op])
    /\ CallEffect(K8sCall[wk[w].op])
    /\ Goto(w, AfterCall(wk[w].op))
    /\ UNCHANGED <<db, loop, tick, used>>

\* The call raises: refused (404, 409), lost, or carried out although its
\* answer never arrived.
RequestCallFails(w) ==
    /\ wk[w].pc = "call"
    /\ \/ ~CallPossible(K8sCall[wk[w].op]) /\ UNCHANGED <<k8s, used>>
       \/ /\ CallPossible(K8sCall[wk[w].op]) /\ used.faults < MaxFaults
          /\ used' = [used EXCEPT !.faults = @ + 1]
          /\ UNCHANGED k8s \/ CallEffect(K8sCall[wk[w].op])
    /\ Goto(w, "fail")
    /\ UNCHANGED <<db, loop, tick>>

\* The compensating write of every request: status ERROR.
RequestFail(w) ==
    /\ wk[w].pc = "fail"
    /\ row' = IF row.status = "absent" THEN row ELSE OrmWrite(row, "error", wk[w].version)
    /\ Goto(w, "idle")
    /\ UNCHANGED <<session, ledger, k8s, loop, tick, used>>

\* create with a template that is gone: the row is removed again.
CreateTemplateGone(w) ==
    /\ wk[w].pc = "call" /\ wk[w].op = "create"
    /\ used.faults < MaxFaults
    /\ row' = [row EXCEPT !.status = "absent"]
    /\ used' = [used EXCEPT !.faults = @ + 1]
    /\ Goto(w, "idle")
    /\ UNCHANGED <<session, ledger, k8s, loop, tick>>

\* create, phase 4: the storage ledger entry, best effort.
CreateRecordMetering(w) ==
    /\ wk[w].pc = "ledger"
    /\ \/ ledger' = TRUE /\ UNCHANGED used
       \/ /\ used.faults < MaxFaults
          /\ used' = [used EXCEPT !.faults = @ + 1]
          /\ UNCHANGED ledger
    /\ Goto(w, "idle")
    /\ UNCHANGED <<row, session, k8s, loop, tick>>

\* stop closes the compute session in a transaction of its own, best effort.
StopCloseSession(w) ==
    /\ wk[w].pc = "close"
    /\ \/ session' = FALSE /\ UNCHANGED used
       \/ /\ used.faults < MaxFaults
          /\ used' = [used EXCEPT !.faults = @ + 1]
          /\ UNCHANGED session
    /\ Goto(w, "idle")
    /\ UNCHANGED <<row, ledger, k8s, loop, tick>>

\* start looks at the CR once; a GET that fails reads as "no CR".  Only a READY
\* condition whose message does not describe a stopped sandbox goes on.
StartGet(w) ==
    /\ wk[w].pc = "get"
    /\ \/ Goto(w, "idle")
       \/ /\ cr.phase # "absent" /\ derive_status_from_sandbox_cr(cr) = "ready"
          /\ wk' = [wk EXCEPT ![w].pc = "fast", ![w].rv = k8sRv]
    /\ UNCHANGED <<db, k8s, loop, tick, used>>

\* The fast path.  self.get() filters on the database, yet returns the object
\* of the session's identity map, whose status is the CREATING that start
\* wrote: the transition check passes whatever the row says by now.
StartFastReady(w) ==
    /\ wk[w].pc = "fast"
    /\ row' = IF row.status = "absent" \/ row.gmt_deleted THEN row
              ELSE [OrmWrite(row, "ready", wk[w].version) EXCEPT !.rv = wk[w].rv]
    /\ Goto(w, "idle")
    /\ UNCHANGED <<session, ledger, k8s, loop, tick, used>>

\* The API process dies and takes its request with it.
WorkerCrash(w) ==
    /\ wk[w].pc # "idle"
    /\ used.mishaps < MaxMishaps
    /\ used' = [used EXCEPT !.mishaps = @ + 1]
    /\ Goto(w, "idle")
    /\ UNCHANGED <<db, k8s, loop, tick>>

Worker(w) ==
    \/ CreatePersist(w) \/ RequestCommit(w) \/ RequestCallOk(w) \/ RequestCallFails(w)
    \/ RequestFail(w) \/ CreateTemplateGone(w) \/ CreateRecordMetering(w)
    \/ StopCloseSession(w) \/ StartGet(w) \/ StartFastReady(w)

-----------------------------------------------------------------------------
(* The leader's lifecycle tick: idle auto-stop and auto-delete.  Both call *)
(* Kubernetes first and commit the row afterwards.  When the call or the   *)
(* session bookkeeping raises, the savepoint is rolled back.               *)

IdleTick == [pc |-> "idle", op |-> "none", version |-> 0]

TickCall == [auto_stop |-> "Suspended", auto_delete |-> "delete"]

\* The tick selects READY sandboxes that are idle, STOPPED ones that expired.
\* Neither query looks at gmt_deleted.
TickSelect(op) ==
    /\ tick.pc = "idle"
    /\ used.ticks < MaxTicks
    /\ row.status = (IF op = "auto_stop" THEN "ready" ELSE "stopped")
    /\ tick' = [pc |-> "call", op |-> op, version |-> row.version]
    /\ used' = [used EXCEPT !.ticks = @ + 1]
    /\ UNCHANGED <<db, k8s, loop, wk>>

TickCallK8s ==
    /\ tick.pc = "call"
    /\ \/ /\ CallPossible(TickCall[tick.op]) /\ CallEffect(TickCall[tick.op])
          /\ tick' = [tick EXCEPT !.pc = "commit"]
          /\ UNCHANGED used
       \/ /\ ~CallPossible(TickCall[tick.op])
          /\ tick' = IdleTick
          /\ UNCHANGED <<k8s, used>>
       \/ /\ CallPossible(TickCall[tick.op]) /\ used.faults < MaxFaults
          /\ used' = [used EXCEPT !.faults = @ + 1]
          /\ UNCHANGED k8s \/ CallEffect(TickCall[tick.op])
          /\ tick' = IdleTick
    /\ UNCHANGED <<db, loop, wk>>

TickCommit ==
    /\ tick.pc = "commit"
    /\ IF row.status = "absent" THEN UNCHANGED <<row, session>>
       ELSE IF tick.op = "auto_stop"
            THEN row' = OrmWrite(row, "stopped", tick.version) /\ session' = FALSE
            ELSE row' = OrmWrite(row, "deleting", tick.version) /\ UNCHANGED session
    /\ tick' = IdleTick
    /\ UNCHANGED <<ledger, k8s, loop, wk, used>>

Tick == TickCallK8s \/ TickCommit

-----------------------------------------------------------------------------
(* The sync loop's writes.                                                 *)

\* _optimistic_update: the row if its version is still the one that was read.
OptimisticUpdate(snap, status, rv) ==
    IF row.version = snap.version
    THEN [row EXCEPT !.status = status, !.version = snap.version + 1, !.rv = rv]
    ELSE row

\* _update_sync_metadata and _delete_sandbox_row: matched by id alone, and the
\* version stays as it is.
SyncMetadata(r, rv) == IF r.status = "absent" THEN r ELSE [r EXCEPT !.rv = rv]
DeleteRow(r) == IF r.status = "absent" THEN r ELSE [r EXCEPT !.status = "deleted", !.gmt_deleted = TRUE]

\* _notify_observers_on_transition: what becomes of the compute session.
SessionAfter(old, new) ==
    IF old # "ready" /\ new = "ready" THEN TRUE
    ELSE IF old = "ready" /\ new \in {"stopped", "error", "deleting"} THEN FALSE
    ELSE session

\* Observers run inside the status update's transaction; one that raises is
\* logged and its effect is missing from the commit.
Observers(newSession, newLedger) ==
    \/ session' = newSession /\ ledger' = newLedger /\ UNCHANGED used
    \/ /\ used.faults < MaxFaults /\ <<newSession, newLedger>> # <<session, ledger>>
       /\ used' = [used EXCEPT !.faults = @ + 1]
       /\ UNCHANGED <<session, ledger>>

\* Write a derived status, for Watch and reconcile alike.  A lost version race
\* commits nothing.
ApplyStatus(snap, status, rv) ==
    /\ row' = OptimisticUpdate(snap, status, rv)
    /\ IF row.version = snap.version
       THEN Observers(SessionAfter(snap.status, status), ledger)
       ELSE UNCHANGED <<session, ledger, used>>

\* The row of a sandbox whose CR is known to be gone.
ApplyDeleted ==
    /\ row' = DeleteRow(row)
    /\ Observers(FALSE, IF Persist THEN FALSE ELSE ledger)

-----------------------------------------------------------------------------
(* handle_watch_event.                                                     *)

NoEvent == [type |-> "none", rv |-> 0, status |-> "creating"]
IdleWatch == [pc |-> "idle", ev |-> NoEvent, snap |-> NoRow]

\* Take the next event and load the row it is about.
WatchLoad ==
    /\ sync = "watching" /\ watch.pc = "idle" /\ queue # <<>>
    /\ queue' = Tail(queue)
    /\ watch' = IF SyncVisible(row) THEN [pc |-> "apply", ev |-> Head(queue), snap |-> row]
                ELSE watch
    /\ UNCHANGED <<db, cr, k8sRv, sync, wk, tick, rec, used>>

WatchDeleted(snap, ev) ==
    IF snap.status = "deleting" THEN ApplyDeleted
    ELSE /\ row' = OptimisticUpdate(snap, "error", ev.rv)
         /\ IF row.version = snap.version
            THEN Observers(FALSE, IF Persist THEN FALSE ELSE ledger)
            ELSE UNCHANGED <<session, ledger, used>>

\* Mutant: the first event about a DELETING sandbox finalizes its row.
WatchChangedFinalizes(snap, ev) ==
    IF snap.status = "deleting" THEN ApplyDeleted
    ELSE IF is_valid_transition(snap.status, ev.status) THEN ApplyStatus(snap, ev.status, ev.rv)
    ELSE UNCHANGED <<db, used>>

WatchChanged(snap, ev) ==
    IF ev.status = snap.status
    THEN /\ row' = IF ev.rv # snap.rv THEN SyncMetadata(row, ev.rv) ELSE row
         /\ UNCHANGED <<session, ledger, used>>
    ELSE IF is_valid_transition(snap.status, ev.status)
         THEN ApplyStatus(snap, ev.status, ev.rv)
         ELSE UNCHANGED <<db, used>>

WatchApply ==
    /\ watch.pc = "apply"
    /\ \/ IF watch.ev.type = "DELETED" THEN WatchDeleted(watch.snap, watch.ev)
                                       ELSE WatchChanged(watch.snap, watch.ev)
       \/ \* the handler raises: watch_loop logs and goes on to the next event
          /\ used.faults < MaxFaults
          /\ used' = [used EXCEPT !.faults = @ + 1]
          /\ UNCHANGED db
    /\ watch' = IdleWatch
    /\ UNCHANGED <<k8s, sync, wk, tick, rec>>

-----------------------------------------------------------------------------
(* reconcile and start_sync_loop.                                          *)

IdleRec == [pc |-> "idle", cr |-> NoCR, rv |-> 0, snap |-> NoRow]

\* LIST.  The reconcile that precedes a Watch fixes where that Watch begins:
\* from here on the API server keeps the events for it.
RecList ==
    /\ rec.pc = "idle"
    /\ rec' = [IdleRec EXCEPT !.pc = "listed", !.cr = cr, !.rv = k8sRv]
    /\ IF sync = "down" THEN sync' = "relisted" /\ queue' = <<>> ELSE UNCHANGED <<sync, queue>>
    /\ UNCHANGED <<db, cr, k8sRv, wk, tick, watch, used>>

RecLoad ==
    /\ rec.pc = "listed"
    /\ rec' = IF SyncVisible(row) THEN [rec EXCEPT !.pc = "loaded", !.snap = row]
              ELSE [IdleRec EXCEPT !.pc = "compute"]
    /\ UNCHANGED <<db, k8s, sync, watch, wk, tick, used>>

\* Mutant: "warn_only" for a DELETING row too.
RecMissingWarns(snap) == UNCHANGED <<db, used>>

\* _CR_MISSING_POLICY: only a DELETING row is finalized.
RecMissing(snap) ==
    IF snap.status = "deleting" THEN ApplyDeleted ELSE UNCHANGED <<db, used>>

RecStale(snap) == rec.rv < snap.rv

\* Mutant: a resourceVersion that was already seen is skipped, whatever the status.
RecPresentSkipsSeen(snap, status) ==
    IF rec.rv <= snap.rv THEN UNCHANGED <<db, used>>
    ELSE IF status # snap.status /\ is_valid_transition(snap.status, status)
         THEN ApplyStatus(snap, status, rec.rv)
         ELSE row' = SyncMetadata(row, rec.rv) /\ UNCHANGED <<session, ledger, used>>

RecPresent(snap, status) ==
    IF RecStale(snap) THEN UNCHANGED <<db, used>>
    ELSE IF status # snap.status /\ is_valid_transition(snap.status, status)
         THEN ApplyStatus(snap, status, rec.rv)
         ELSE /\ row' = IF rec.rv # snap.rv THEN SyncMetadata(row, rec.rv) ELSE row
              /\ UNCHANGED <<session, ledger, used>>

RecApply ==
    /\ rec.pc = "loaded"
    /\ IF rec.cr.phase = "absent" THEN RecMissing(rec.snap)
       ELSE RecPresent(rec.snap, derive_status_from_sandbox_cr(rec.cr))
    /\ rec' = [IdleRec EXCEPT !.pc = "compute"]
    /\ UNCHANGED <<k8s, sync, watch, wk, tick>>

\* Mutants: only one of reconcile_metering's two repairs.
HookLoadOpensOnly ==
    /\ rec.pc = "compute"
    /\ rec' = [rec EXCEPT !.pc = IF row.status = "ready" /\ ~session THEN "open" ELSE "storage"]
    /\ UNCHANGED <<db, k8s, sync, watch, wk, tick, used>>

HookLoadClosesOnly ==
    /\ rec.pc = "compute"
    /\ rec' = [rec EXCEPT !.pc = IF row.status # "ready" /\ session THEN "close" ELSE "storage"]
    /\ UNCHANGED <<db, k8s, sync, watch, wk, tick, used>>

\* reconcile_metering selects the repair that the row and its session need: a
\* READY row has an open session, no other row has one ...
HookLoad ==
    /\ rec.pc = "compute"
    /\ rec' = [rec EXCEPT !.pc = IF (row.status = "ready") = session THEN "storage"
                                 ELSE IF session THEN "close" ELSE "open"]
    /\ UNCHANGED <<db, k8s, sync, watch, wk, tick, used>>

\* ... and makes it.  A repair that raises is logged, and the next hook runs.
HookCompute ==
    /\ rec.pc \in {"open", "close"}
    /\ \/ session' = (rec.pc = "open") /\ UNCHANGED used
       \/ /\ used.faults < MaxFaults
          /\ used' = [used EXCEPT !.faults = @ + 1]
          /\ UNCHANGED session
    /\ rec' = [IdleRec EXCEPT !.pc = "storage"]
    /\ UNCHANGED <<row, ledger, k8s, sync, watch, wk, tick>>

\* Mutant: reconcile_storage_metering releases entries and never creates one.
HookStorageReleases ==
    /\ rec.pc = "storage"
    /\ ledger' = (ledger /\ row.status \notin {"absent", "deleting", "deleted"})
    /\ sync' = "watching"
    /\ rec' = IdleRec
    /\ UNCHANGED <<row, session, k8s, watch, wk, tick, used>>

\* reconcile_storage_metering, then the end of reconcile: a Watch that was
\* waiting for this list starts.
HookStorage ==
    /\ rec.pc = "storage"
    /\ \/ /\ ledger' = IF row.status \in {"absent", "deleting", "deleted"} THEN FALSE
                       ELSE IF Persist /\ ~row.gmt_deleted THEN TRUE ELSE ledger
          /\ UNCHANGED used
       \/ /\ used.faults < MaxFaults
          /\ used' = [used EXCEPT !.faults = @ + 1]
          /\ UNCHANGED ledger
    /\ sync' = "watching"
    /\ rec' = IdleRec
    /\ UNCHANGED <<row, session, k8s, watch, wk, tick>>

\* The LIST or the database fails: this round ends without its hooks, and a loop
\* that has no Watch yet lists again.
ReconcileFails ==
    /\ rec.pc \in {"listed", "loaded"}
    /\ used.faults < MaxFaults
    /\ used' = [used EXCEPT !.faults = @ + 1]
    /\ sync' = IF sync = "relisted" THEN "down" ELSE sync
    /\ queue' = IF sync = "relisted" THEN <<>> ELSE queue
    /\ rec' = IdleRec
    /\ UNCHANGED <<db, cr, k8sRv, watch, wk, tick>>

\* The stream ends or fails: the backlog is gone, the handler's event and the
\* periodic reconcile are cancelled, and the loop lists again.
WatchDrop ==
    /\ sync = "watching"
    /\ used.mishaps < MaxMishaps
    /\ used' = [used EXCEPT !.mishaps = @ + 1]
    /\ sync' = "down" /\ queue' = <<>>
    /\ watch' = IdleWatch /\ rec' = IdleRec
    /\ UNCHANGED <<db, cr, k8sRv, wk, tick>>

Reconcile == RecList \/ RecLoad \/ RecApply \/ HookLoad \/ HookCompute \/ HookStorage

Watch == WatchLoad \/ WatchApply

-----------------------------------------------------------------------------
Init ==
    /\ \/ /\ Fresh
          /\ row = NoRow /\ session = FALSE /\ ledger = FALSE
          /\ cr = NoCR /\ k8sRv = 0 /\ sync = "down"
       \/ /\ ~Fresh
          /\ row = [status |-> "ready", version |-> 2, rv |-> 2, gmt_deleted |-> FALSE]
          /\ session = TRUE /\ ledger = Persist
          /\ cr = [phase |-> "live", mode |-> "Running", cond |-> "Ready"] /\ k8sRv = 2
          /\ sync = "watching"
    /\ queue = <<>> /\ watch = IdleWatch /\ rec = IdleRec
    /\ wk = [w \in Workers |-> IdleWorker] /\ tick = IdleTick
    /\ used = [ops |-> 0, ticks |-> 0, faults |-> 0, mishaps |-> 0]

Next ==
    \/ \E w \in Workers : Worker(w) \/ WorkerCrash(w) \/ \E op \in Ops : RequestRead(w, op)
    \/ Tick \/ \E op \in {"auto_stop", "auto_delete"} : TickSelect(op)
    \/ Watch \/ Reconcile \/ ReconcileFails \/ WatchDrop
    \/ ControllerConverge \/ ControllerRemove \/ ControllerDisturb \/ ForeignDelete

Spec == Init /\ [][Next]_vars

\* The event loop runs every ready coroutine, the sync loop retries for ever,
\* and the controller finishes what spec.operatingMode or a deletion asks for.
Fairness ==
    /\ \A w \in Workers : WF_vars(Worker(w))
    /\ WF_vars(Tick) /\ WF_vars(Watch) /\ WF_vars(Reconcile)
    /\ WF_vars(ControllerConverge) /\ WF_vars(ControllerRemove)

FairSpec == Spec /\ Fairness

-----------------------------------------------------------------------------
(* Properties.                                                             *)

Rows == [status: SandboxStatus, version: Nat, rv: Nat, gmt_deleted: BOOLEAN]

Events == [type: {"none", "ADDED", "MODIFIED", "DELETED"}, rv: Nat, status: Live]

Requests == [pc: {"idle", "commit", "call", "fail", "ledger", "close", "get", "fast"},
             op: Ops \cup {"create", "none"}, version: Nat, rv: Nat]

\* Every variable keeps its type; row.status is always a status the code knows,
\* and a request or tick that is about to act knows what it acts for.
TypeOK ==
    /\ row \in Rows /\ session \in BOOLEAN /\ ledger \in BOOLEAN
    /\ cr \in CRs /\ k8sRv \in Nat /\ queue \in Seq(Events)
    /\ sync \in {"down", "relisted", "watching"}
    /\ watch \in [pc: {"idle", "apply"}, ev: Events, snap: Rows]
    /\ rec \in [pc: {"idle", "listed", "loaded", "compute", "open", "close", "storage"},
                cr: CRs, rv: Nat, snap: Rows]
    /\ wk \in [Workers -> Requests]
    /\ \A w \in Workers : /\ wk[w].pc = "commit" => wk[w].op \in Ops
                          /\ wk[w].pc = "call" => wk[w].op # "none"
    /\ tick \in [pc: {"idle", "call", "commit"}, op: {"none", "auto_stop", "auto_delete"}, version: Nat]
    /\ tick.pc = "call" => tick.op # "none"
    /\ used \in [ops: Nat, ticks: Nat, faults: Nat, mishaps: Nat]

\* Whatever order API commits, Watch events and stale reconcile rounds arrive
\* in, the row of a live CR ends up saying what the CR says, unless it waits
\* for a deletion (k8s_sync).  A CR that is gone is MissingNoticed's subject.
Converges ==
    <>[](cr.phase = "live" /\ row.status \in Live \ {"deleting"} =>
            row.status = derive_status_from_sandbox_cr(cr))

\* Compute is billed exactly while the row is READY, in the end, although
\* observers, the stop request and the start fast path each can miss it
\* (reconcile_metering is the repair).
SessionFollows == <>[](session <=> row.status = "ready")

\* In the end a persistent sandbox has an ACTIVE storage ledger entry exactly
\* until its delete begins (reconcile_storage_metering is the repair).
LedgerFollows ==
    <>[](ledger <=> Persist /\ row.status \notin {"absent", "deleting"} /\ ~row.gmt_deleted)

\* A sandbox does not stay DELETING for ever (delete, handle_watch_event,
\* reconcile's CR-missing policy).
DeleteEnds == row.status = "deleting" ~> row.status # "deleting"

\* A row is soft-deleted only after its CR is really gone (_delete_sandbox_row
\* as Watch and reconcile use it).
RowOutlivesCR == [][row'.gmt_deleted /\ ~row.gmt_deleted => cr.phase = "absent"]_vars

\* A soft-deleted sandbox does not leave its CR running: the delete releases
\* everything, a create that was still under way included (SandboxService).
NoOrphan == row.gmt_deleted ~> cr.phase = "absent"

\* A READY row whose CR is gone is noticed (start_sync_loop, reconcile).
MissingNoticed ==
    (row.status = "ready" /\ cr.phase = "absent") ~> (row.status # "ready" \/ cr.phase # "absent")
=============================================================================
