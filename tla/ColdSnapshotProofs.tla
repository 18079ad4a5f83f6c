-------------------------- MODULE ColdSnapshotProofs --------------------------
(***************************************************************************)
(* Proofs about ColdSnapshot: the type invariant for any number of request *)
(* handlers, and, for one handler at a time and pods that do not fail      *)
(* before their disk is there, that the newest workspace survives, that a  *)
(* cold sandbox is bound to its snapshot, and that its CR and disk are     *)
(* gone; for every number of requests, writes, failed calls and ticks that *)
(* are cut off.                                                            *)
(***************************************************************************)
EXTENDS ColdSnapshot, TLAPS

-----------------------------------------------------------------------------
(* The inductive invariant.                                                *)

\* Requests are handled one after the other.
OneHandler == \A v, w \in Workers : v = w

\* What a request in flight relies on.  Only the auto-stop may meet a pending
\* operation; every other request finds the row as it was loaded, but for its
\* status, which the sync loop writes.
Handler(w) ==
    LET h == wk[w] IN
    h.pc # "idle" =>
        /\ h.op \in Ops
        /\ h.pc = "commit" => Accepts(h.op, h.obj.status)
        /\ h.pc = "run" => h.op = "start"
        /\ h.pc = "queue" => h.op = "snapshot"
        /\ h.pc = "suspend" => h.op \in {"stop", "snapshot", "auto_stop"}
        /\ h.op = "auto_stop" => h.obj.status = "ready"
        /\ h.pc \in {"cleanup", "remove"} => doomed
        /\ ~doomed =>
            /\ h.op = "auto_stop" /\ used.faults = 0 => row.pending # "restoring"
            /\ h.op # "auto_stop" =>
                /\ row.pending = "none" /\ h.obj.pending = "none"
                /\ h.obj.mode = row.mode
                /\ h.obj.status = "cold" => h.obj.mode = "standard_snapshot"
                /\ used.faults = 0 /\ h.obj.mode = "standard_snapshot" =>
                      h.pc = "commit" /\ h.obj.status = "cold"

Releasing == {"release_cr", "release_pvc", "undo", "check"}

\* What the tick relies on: while it works, only an auto-stop writes the row, and
\* only its status; its object differs from what it loaded as its step says.
OnTick ==
    tick.pc # "idle" /\ ~doomed =>
        LET b == tick.base
            o == tick.obj
        IN  /\ row.pending = b.pending /\ row.mode = b.mode /\ row.name = b.name
            /\ row.content = b.content /\ row.snapped = b.snapped
            /\ row.gmt_deleted = b.gmt_deleted
            /\ row.status = "cold" => b.status = "cold"
            /\ b.status = "cold" => b.mode = "standard_snapshot"
            /\ b.pending = IF tick.pc \in {"restore", "complete"} THEN "restoring" ELSE "snapshotting"
            /\ tick.pc = "stale" => Stale(b)
            /\ tick.pc = "already" => b.mode = "standard_snapshot"
            /\ tick.pc \in {"create", "post"} => b.mode = "live_disk" /\ ~b.name
            /\ tick.pc \in Releasing \cup {"await"} =>
                  b.mode = "live_disk" /\ b.name /\ b.snapped # "old"
            /\ o = IF tick.pc \in Releasing THEN [b EXCEPT !.content = TRUE, !.snapped = "new"]
                   ELSE IF tick.pc = "complete" THEN [b EXCEPT !.status = o.status]
                   ELSE b
            /\ tick.pc = "complete" => o.status \in {"ready", "stopped"}
            /\ tick.pc \in Releasing => vs.phase = "ready"
            /\ tick.pc = "undo" => used.faults > 0

\* The row's binding, whatever fails.
Binding ==
    ~doomed =>
        /\ ~row.gmt_deleted /\ row.status \notin {"deleting", "deleted"}
        /\ row.status = "cold" \/ row.pending = "restoring" => row.mode = "standard_snapshot"
        /\ row.mode = "standard_snapshot" =>
              row.name /\ ledger # "live_disk" /\ (used.crashes = 0 => vs.phase = "ready")
        /\ ~row.name => row.snapped # "old"

\* The newest workspace is on the disk of a CR that is not going away ...
Fresh == cr.phase = "live" /\ disk.phase = "bound" /\ disk.data = newest

\* ... or in a snapshot that can be restored.
Saved == vs.phase = "ready" /\ vs.data = newest

\* The snapshot of this binding is being taken.
Taking == row.name /\ row.snapped # "old"

\* Where the newest workspace is, as long as no call fails.
Whereabouts ==
    ~doomed /\ used.faults = 0 =>
        /\ row.mode = "live_disk" =>
            IF Taking
            THEN /\ row.pending = "snapshotting"
                 /\ vs.phase \in {"pending", "ready"} /\ vs.data = newest
                 /\ (Fresh /\ cr.st = "stopped") \/ (vs.phase = "ready" /\ cr.phase # "live")
            ELSE Fresh
        /\ row.mode = "standard_snapshot" =>
            /\ row.status = "cold" /\ row.pending # "snapshotting" /\ row.snapped = "new"
            /\ row.pending = "none" => cr.phase = "absent" /\ disk.phase = "absent" /\ Saved
            /\ row.pending = "restoring" =>
                 \/ Fresh /\ cr.st \in {"creating", "ready", "error"}
                 \/ Saved /\ disk.phase = "absent" /\ (cr.phase = "absent" \/ cr.st = "creating")
        /\ tick.pc = "post" => cr.st = "stopped"
        /\ tick.pc \in {"release_pvc", "check"} => cr.phase # "live"
        /\ tick.pc = "complete" => Fresh

Core == (\A w \in Workers : Handler(w)) /\ OnTick /\ Binding /\ Whereabouts

ColdInv == TypeOK /\ Core

-----------------------------------------------------------------------------
(* Rows and commits.                                                       *)

Handlers == [pc: {"idle", "commit", "run", "suspend", "queue", "cleanup", "remove"},
             op: Ops \cup {"none"}, obj: Rows]
Ticks == [pc: TickPcs, base: Rows, obj: Rows]
Counts == [ops: Nat, errors: Nat, faults: Nat, crashes: Nat]

\* m is the row after a commit of what differs between b and o (Merge).
Merged(m, b, o) ==
    /\ m \in Rows
    /\ m.status = IF o.status # b.status THEN o.status ELSE row.status
    /\ m.pending = IF o.pending # b.pending THEN o.pending ELSE row.pending
    /\ m.mode = IF o.mode # b.mode THEN o.mode ELSE row.mode
    /\ m.name = IF o.name # b.name THEN o.name ELSE row.name
    /\ m.content = IF o.content # b.content THEN o.content ELSE row.content
    /\ m.snapped = IF o.snapped # b.snapped THEN o.snapped ELSE row.snapped
    /\ m.gmt_deleted = IF o.gmt_deleted # b.gmt_deleted THEN o.gmt_deleted ELSE row.gmt_deleted

\* A commit stores a row, attribute by attribute (the ORM's flush).
LEMMA MergeRow ==
    ASSUME row \in Rows, NEW b \in Rows, NEW o \in Rows
    PROVE  Merged(Merge(b, o), b, o)
<1> DEFINE m == Merge(b, o)
<1>1. DOMAIN row = {"status", "pending", "mode", "name", "content", "snapped", "gmt_deleted"}
  BY DEF Rows
<1>2. m = [f \in {"status", "pending", "mode", "name", "content", "snapped", "gmt_deleted"} |->
             IF o[f] # b[f] THEN o[f] ELSE row[f]]
  BY <1>1, Zenon DEF Merge
<1>3. /\ m.status = IF o.status # b.status THEN o.status ELSE row.status
      /\ m.pending = IF o.pending # b.pending THEN o.pending ELSE row.pending
      /\ m.mode = IF o.mode # b.mode THEN o.mode ELSE row.mode
      /\ m.name = IF o.name # b.name THEN o.name ELSE row.name
      /\ m.content = IF o.content # b.content THEN o.content ELSE row.content
      /\ m.snapped = IF o.snapped # b.snapped THEN o.snapped ELSE row.snapped
      /\ m.gmt_deleted = IF o.gmt_deleted # b.gmt_deleted THEN o.gmt_deleted ELSE row.gmt_deleted
  BY <1>2
<1>4. m.name \in BOOLEAN /\ m.content \in BOOLEAN /\ m.gmt_deleted \in BOOLEAN
  <2>1. {o.name, row.name, o.content, row.content, o.gmt_deleted, row.gmt_deleted} \subseteq BOOLEAN
    BY DEF Rows
  <2> QED BY <1>3, <2>1, Zenon
<1>5. m \in Rows
  <2>1. m = [status |-> m.status, pending |-> m.pending, mode |-> m.mode, name |-> m.name,
             content |-> m.content, snapped |-> m.snapped, gmt_deleted |-> m.gmt_deleted]
    BY <1>2
  <2>2. m.status \in SandboxStatus /\ m.pending \in {"none", "snapshotting", "restoring"}
        /\ m.mode \in {"live_disk", "standard_snapshot"} /\ m.snapped \in {"none", "new", "old"}
    <3> HIDE DEF m
    <3> QED BY <1>3 DEF Rows
  <2> HIDE DEF m
  <2> QED BY <1>4, <2>1, <2>2 DEF Rows
<1> HIDE DEF m
<1>6. Merged(m, b, o)
  BY <1>3, <1>5 DEF Merged
<1> QED BY <1>6 DEF m

\* The ways an object is changed keep it a row.
LEMMA EditedRow ==
    ASSUME NEW o \in Rows
    PROVE  /\ Deleted(o) \in Rows
           /\ clear_snapshot_binding(o) \in Rows
           /\ fail_snapshot(o) \in Rows /\ fail_restore(o) \in Rows /\ fail(o) \in Rows
           /\ \A s \in SandboxStatus : [o EXCEPT !.status = s] \in Rows
           /\ \A p \in {"none", "snapshotting", "restoring"} : [o EXCEPT !.pending = p] \in Rows
BY DEF Rows, SandboxStatus, Deleted, clear_snapshot_binding, fail_snapshot, fail_restore, fail

\* What a row is after the changes of the tick, attribute by attribute.
LEMMA FailedRow ==
    ASSUME NEW o \in Rows
    PROVE  LET f == fail_snapshot(o) IN
           /\ f \in Rows /\ f.pending = "none" /\ f.status = "stopped" /\ f.mode = o.mode
           /\ f.name = o.name /\ f.content = o.content /\ f.snapped = o.snapped
           /\ f.gmt_deleted = o.gmt_deleted
BY DEF Rows, SandboxStatus, fail_snapshot

LEMMA ColdRow ==
    ASSUME NEW o \in Rows
    PROVE  LET f == [o EXCEPT !.pending = "none", !.status = "cold"] IN
           /\ f \in Rows /\ f.pending = "none" /\ f.status = "cold" /\ f.mode = o.mode
           /\ f.name = o.name /\ f.snapped = o.snapped /\ f.gmt_deleted = o.gmt_deleted
BY DEF Rows, SandboxStatus

LEMMA CutoverRow ==
    ASSUME NEW o \in Rows
    PROVE  LET f == [o EXCEPT !.status = "cold", !.pending = "none", !.mode = "standard_snapshot"] IN
           /\ f \in Rows /\ f.pending = "none" /\ f.status = "cold" /\ f.mode = "standard_snapshot"
           /\ f.name = o.name /\ f.snapped = o.snapped /\ f.gmt_deleted = o.gmt_deleted
BY DEF Rows, SandboxStatus

LEMMA RenewedRow ==
    ASSUME NEW o \in Rows
    PROVE  LET f == [clear_snapshot_binding(o) EXCEPT !.snapped = "new"] IN
           /\ f \in Rows /\ f.pending = o.pending /\ f.status = o.status /\ f.mode = o.mode
           /\ f.name = FALSE /\ f.snapped = "new" /\ f.gmt_deleted = o.gmt_deleted
BY DEF Rows, clear_snapshot_binding

LEMMA NamedRow ==
    ASSUME NEW o \in Rows, NEW c \in BOOLEAN
    PROVE  LET f == [o EXCEPT !.content = c] IN
           /\ f \in Rows /\ f.pending = o.pending /\ f.status = o.status /\ f.mode = o.mode
           /\ f.name = o.name /\ f.snapped = o.snapped /\ f.gmt_deleted = o.gmt_deleted
BY DEF Rows

LEMMA ReleasedRow ==
    ASSUME NEW o \in Rows
    PROVE  LET f == [o EXCEPT !.content = TRUE, !.snapped = "new"] IN
           /\ f \in Rows /\ f.pending = o.pending /\ f.status = o.status /\ f.mode = o.mode
           /\ f.name = o.name /\ f.snapped = "new" /\ f.gmt_deleted = o.gmt_deleted
BY DEF Rows

LEMMA RestoredRow ==
    ASSUME NEW o \in Rows, NEW st \in SandboxStatus
    PROVE  LET f == [o EXCEPT !.status = st] IN
           f \in Rows /\ f.name = o.name /\ f.snapped = o.snapped /\ f.gmt_deleted = o.gmt_deleted
BY DEF Rows

-----------------------------------------------------------------------------
(* Types.                                                                  *)

CRs   == [phase: {"absent", "live", "terminating"},
          st: {"creating", "ready", "stopping", "stopped", "error"}]
Disks == [phase: {"absent", "bound", "terminating"}, data: 0..MaxWrites]
Snaps == [phase: {"absent", "pending", "ready"}, data: 0..MaxWrites, content: BOOLEAN]
Modes == {"none", "live_disk", "standard_snapshot"}

\* The type invariant by its parts: the database, the cluster, the actors.
DbTypes == row \in Rows /\ session \in BOOLEAN /\ ledger \in Modes
ClusterTypes == cr \in CRs /\ disk \in Disks /\ vs \in Snaps /\ deleted \in BOOLEAN
ActorTypes == /\ wk \in [Workers -> Handlers] /\ tick \in Ticks
              /\ newest \in 0..MaxWrites /\ doomed \in BOOLEAN /\ used \in Counts

LEMMA TypeParts == TypeOK <=> DbTypes /\ ClusterTypes /\ ActorTypes
BY DEF TypeOK, DbTypes, ClusterTypes, ActorTypes, CRs, Disks, Snaps, Modes, Handlers, Ticks, Counts

\* A failed call is counted.
LEMMA FaultCounts ==
    ASSUME used \in Counts
    PROVE  /\ Fault => used' = [used EXCEPT !.faults = used.faults + 1]
           /\ Fault => used' \in Counts /\ used'.faults > 0 /\ used'.crashes = used.crashes
           /\ \A must : Raises(must) => used' \in Counts
BY DEF Fault, Raises, Counts

\* A commit of the tick.
LEMMA CommitTypes ==
    ASSUME row \in Rows, tick \in Ticks, NEW o \in Rows, Commit(o)
    PROVE  /\ Merged(row', tick.base, o) /\ row' \in Rows
           /\ tick' = [tick EXCEPT !.pc = "idle"] /\ tick' \in Ticks
<1>1. tick.base \in Rows
  BY DEF Ticks
<1>2. Merged(Merge(tick.base, o), tick.base, o)
  BY <1>1, MergeRow
<1>3. row' = Merge(tick.base, o) /\ tick' = [tick EXCEPT !.pc = "idle"]
  BY DEF Commit
<1>4. tick' \in Ticks
  BY <1>3 DEF Ticks, TickPcs
<1> QED BY <1>2, <1>3, <1>4 DEF Merged

\* A request ends, with or without a commit.
LEMMA IdleTypes ==
    ASSUME wk \in [Workers -> Handlers], NEW w \in Workers, Idle(w)
    PROVE  /\ wk' \in [Workers -> Handlers]
           /\ wk'[w].pc = "idle"
           /\ \A v \in Workers \ {w} : wk'[v] = wk[v]
<1>1. wk' = [wk EXCEPT ![w] = [wk[w] EXCEPT !.pc = "idle", !.op = "none"]]
  BY DEF Idle
<1>2. [wk[w] EXCEPT !.pc = "idle", !.op = "none"] \in Handlers
  BY DEF Handlers
<1> QED BY <1>1, <1>2 DEF Handlers

LEMMA FinishTypes ==
    ASSUME row \in Rows, wk \in [Workers -> Handlers], NEW w \in Workers,
           NEW o \in Rows, Finish(w, o)
    PROVE  /\ Merged(row', wk[w].obj, o) /\ row' \in Rows
           /\ wk' \in [Workers -> Handlers]
           /\ wk'[w].pc = "idle"
<1>1. wk[w].obj \in Rows
  BY DEF Handlers
<1>2. Merged(Merge(wk[w].obj, o), wk[w].obj, o)
  BY <1>1, MergeRow
<1>3. row' = Merge(wk[w].obj, o) /\ Idle(w)
  BY DEF Finish
<1> QED BY <1>2, <1>3, IdleTypes DEF Merged

\* The controllers and the user.
LEMMA ClusterStepTypes ==
    ASSUME TypeOK,
           Controller \/ ControllerError \/ UserWrites
    PROVE  TypeOK'
<1> USE TypeParts
<1>0. DbTypes /\ ClusterTypes /\ ActorTypes
  OBVIOUS
<1>1. ASSUME ControllerStart PROVE DbTypes' /\ ClusterTypes' /\ ActorTypes'
  BY <1>0, <1>1 DEF ControllerStart, DbTypes, ClusterTypes, ActorTypes, CRs, Disks, Snaps, db, usr
<1>2. ASSUME ControllerStop PROVE DbTypes' /\ ClusterTypes' /\ ActorTypes'
  BY <1>0, <1>2 DEF ControllerStop, DbTypes, ClusterTypes, ActorTypes, CRs, Disks, Snaps, db, usr
<1>3. ASSUME ControllerRemove PROVE DbTypes' /\ ClusterTypes' /\ ActorTypes'
  <2>1. deleted' \in BOOLEAN
    BY <1>0, <1>3, Zenon DEF ControllerRemove, ClusterTypes
  <2>2. 0 \in 0..MaxWrites
    BY ColdAssumption
  <2> QED BY <1>0, <1>3, <2>1, <2>2 DEF ControllerRemove, NoCR, NoDisk, DbTypes, ClusterTypes, ActorTypes,
                                        CRs, Disks, Snaps, db, usr
<1>4. ASSUME SnapshotReady PROVE DbTypes' /\ ClusterTypes' /\ ActorTypes'
  <2>1. vs' \in Snaps
    BY <1>0, <1>4 DEF SnapshotReady, ClusterTypes, Snaps
  <2> QED BY <1>0, <1>4, <2>1 DEF SnapshotReady, DbTypes, ClusterTypes, ActorTypes, db, usr
<1>5. ASSUME ControllerError PROVE DbTypes' /\ ClusterTypes' /\ ActorTypes'
  BY <1>0, <1>5 DEF ControllerError, DbTypes, ClusterTypes, ActorTypes, CRs, Disks, Snaps, Counts, db, usr
<1>6. ASSUME UserWrites PROVE DbTypes' /\ ClusterTypes' /\ ActorTypes'
  <2>1. newest' \in 0..MaxWrites /\ newest' = newest + 1
    BY <1>0, <1>6, ColdAssumption DEF UserWrites, ActorTypes
  <2> QED BY <1>0, <1>6, <2>1 DEF UserWrites, DbTypes, ClusterTypes, ActorTypes, CRs, Disks, Snaps, db, usr
<1>7. DbTypes' /\ ClusterTypes' /\ ActorTypes'
  BY <1>1, <1>2, <1>3, <1>4, <1>5, <1>6 DEF Controller
<1> QED BY <1>7 DEF TypeOK, DbTypes, ClusterTypes, ActorTypes, CRs, Disks, Snaps, Modes, Handlers, Ticks, Counts

\* The sync loop.
LEMMA SyncTypes == ASSUME TypeOK, Sync PROVE TypeOK'
<1>0. DbTypes /\ ClusterTypes /\ ActorTypes
  BY TypeParts
<1>1. Derived \in SandboxStatus
  BY <1>0 DEF Derived, ClusterTypes, CRs, SandboxStatus
<1>2. ASSUME SyncChanged PROVE DbTypes' /\ ClusterTypes' /\ ActorTypes'
  <2>1. session' \in BOOLEAN
    BY <1>2 DEF SyncChanged
  <2>2. row' \in Rows
    BY <1>0, <1>1, <1>2, EditedRow DEF SyncChanged, DbTypes
  <2> QED BY <1>0, <1>2, <2>1, <2>2 DEF SyncChanged, DbTypes, ClusterTypes, ActorTypes, k8s, usr
<1>3. ASSUME SyncDeleted PROVE DbTypes' /\ ClusterTypes' /\ ActorTypes'
  <2>1. deleted' \in BOOLEAN /\ session' \in BOOLEAN
    BY <1>0, <1>3, Zenon DEF SyncDeleted, DbTypes, db
  <2>2. row' \in Rows /\ ledger' \in Modes
    <3>1. Deleted(row) \in Rows /\ [row EXCEPT !.status = "error"] \in Rows
      BY <1>0, EditedRow DEF DbTypes, SandboxStatus
    <3> QED BY <1>0, <1>3, <3>1 DEF SyncDeleted, DbTypes, Modes, db
  <2> QED BY <1>0, <1>3, <2>1, <2>2 DEF SyncDeleted, DbTypes, ClusterTypes, ActorTypes, usr
<1>4. ASSUME SyncReconcile PROVE DbTypes' /\ ClusterTypes' /\ ActorTypes'
  <2>1. session' \in BOOLEAN
    BY <1>4 DEF SyncReconcile
  <2>2. row' \in Rows
    BY <1>0, <1>4, EditedRow DEF SyncReconcile, DbTypes
  <2>3. ledger' \in Modes
    BY <1>0, <1>4 DEF SyncReconcile, DbTypes, Modes, Rows
  <2> QED BY <1>0, <1>4, <2>1, <2>2, <2>3 DEF SyncReconcile, DbTypes, ClusterTypes, ActorTypes, k8s, usr
<1>5. DbTypes' /\ ClusterTypes' /\ ActorTypes'
  BY <1>2, <1>3, <1>4 DEF Sync
<1> QED BY <1>5 DEF TypeOK, DbTypes, ClusterTypes, ActorTypes, CRs, Disks, Snaps, Modes, Handlers, Ticks, Counts

\* A cleanup of a bound snapshot.
LEMMA CleanupTypes ==
    ASSUME TypeOK, NEW o \in Rows, CleanupOk(o) \/ CleanupRaises(o)
    PROVE  vs' \in Snaps /\ used' \in Counts
<1>1. vs \in Snaps /\ used \in Counts
  BY TypeParts DEF ClusterTypes, ActorTypes
<1>2. NoVS \in Snaps
  BY ColdAssumption DEF NoVS, Snaps
<1>3. [vs EXCEPT !.phase = "absent"] \in Snaps
  BY <1>1 DEF Snaps
<1> QED BY <1>1, <1>2, <1>3, FaultCounts DEF CleanupOk, CleanupRaises

\* The requests.
LEMMA RequestTypes ==
    ASSUME TypeOK, NEW w \in Workers,
           Request(w) \/ \E op \in Ops : RequestRead(w, op)
    PROVE  TypeOK'
<1>0. DbTypes /\ ClusterTypes /\ ActorTypes
  BY TypeParts
<1> DEFINE h == wk[w]
<1>1. h \in Handlers /\ h.obj \in Rows /\ row \in Rows /\ wk \in [Workers -> Handlers]
  BY <1>0 DEF DbTypes, ActorTypes, Handlers
<1>2. {"idle", "run", "suspend", "queue", "cleanup", "remove"} \subseteq
        {"idle", "commit", "run", "suspend", "queue", "cleanup", "remove"}
  OBVIOUS
<1>3. \A s \in SandboxStatus : [h.obj EXCEPT !.status = s] \in Rows
  BY <1>1, EditedRow
<1>4. ASSUME NEW op \in Ops, RequestRead(w, op) PROVE DbTypes' /\ ClusterTypes' /\ ActorTypes'
  <2>1. [pc |-> "commit", op |-> op, obj |-> row] \in Handlers
    BY <1>1 DEF Handlers
  <2>2. wk' \in [Workers -> Handlers]
    BY <1>1, <1>4, <2>1 DEF RequestRead
  <2>3. used' \in Counts
    BY <1>0, <1>4 DEF RequestRead, ActorTypes, Counts
  <2> QED BY <1>0, <1>4, <2>2, <2>3 DEF RequestRead, DbTypes, ClusterTypes, ActorTypes, db, k8s, usr
<1>5. ASSUME RequestCommit(w) PROVE DbTypes' /\ ClusterTypes' /\ ActorTypes'
  <2> DEFINE o == FirstChange(h.op, h.obj)
  <2>1. o \in Rows
    BY <1>1, EditedRow DEF FirstChange, SandboxStatus
  <2>2. AfterCommit(h.op, o) \in {"idle", "run", "suspend", "queue", "cleanup", "remove"}
    <3> HIDE DEF o
    <3> QED BY DEF AfterCommit
  <2> HIDE DEF o
  <2>3. row' \in Rows
    BY <1>1, <1>5, <2>1, MergeRow DEF RequestCommit, Merged, o
  <2>4. wk' = [wk EXCEPT ![w] = [h EXCEPT !.obj = o, !.pc = AfterCommit(h.op, o)]]
    BY <1>5 DEF RequestCommit, o
  <2>5. [h EXCEPT !.obj = o, !.pc = AfterCommit(h.op, o)] \in Handlers
    <3> HIDE DEF h
    <3> QED BY <1>1, <2>1, <2>2 DEF Handlers
  <2>6. wk' \in [Workers -> Handlers]
    BY <1>1, <2>4, <2>5
  <2>7. doomed' \in BOOLEAN
    BY <1>5 DEF RequestCommit
  <2> QED BY <1>0, <1>5, <2>3, <2>6, <2>7 DEF RequestCommit, DbTypes, ClusterTypes, ActorTypes, k8s
<1>6. ASSUME RequestRun(w) PROVE DbTypes' /\ ClusterTypes' /\ ActorTypes'
  <2>1. [h.obj EXCEPT !.status = "error"] \in Rows
    BY <1>3 DEF SandboxStatus
  <2>2. row' \in Rows /\ wk' \in [Workers -> Handlers]
    BY <1>1, <1>6, <2>1, FinishTypes, IdleTypes DEF RequestRun
  <2>3. cr' \in CRs
    BY <1>0, <1>6 DEF RequestRun, ClusterTypes, CRs
  <2>4. used' \in Counts
    BY <1>0, <1>6, FaultCounts DEF RequestRun, ActorTypes
  <2> QED BY <1>0, <1>6, <2>2, <2>3, <2>4 DEF RequestRun, DbTypes, ClusterTypes, ActorTypes, usr
<1>7. ASSUME RequestSuspend(w) PROVE DbTypes' /\ ClusterTypes' /\ ActorTypes'
  <2>1. [h.obj EXCEPT !.status = "error"] \in Rows /\ [h.obj EXCEPT !.status = "stopped"] \in Rows
    BY <1>3 DEF SandboxStatus
  <2>2. [h EXCEPT !.pc = "queue"] \in Handlers
    BY <1>1 DEF Handlers
  <2>3. ASSUME wk' = [wk EXCEPT ![w].pc = "queue"] PROVE wk' \in [Workers -> Handlers]
    BY <1>1, <2>2, <2>3
  <2>4. row' \in Rows /\ wk' \in [Workers -> Handlers]
    BY <1>1, <1>7, <2>1, <2>3, FinishTypes, IdleTypes DEF RequestSuspend
  <2>5. cr' \in CRs
    BY <1>0, <1>7 DEF RequestSuspend, ClusterTypes, CRs
  <2>6. used' \in Counts
    BY <1>0, <1>7, FaultCounts DEF RequestSuspend, ActorTypes
  <2>7. session' \in BOOLEAN
    BY <1>0, <1>7, Zenon DEF RequestSuspend, DbTypes
  <2> QED BY <1>0, <1>7, <2>4, <2>5, <2>6, <2>7 DEF RequestSuspend, DbTypes, ClusterTypes, ActorTypes, usr
<1>8. ASSUME RequestQueue(w) PROVE DbTypes' /\ ClusterTypes' /\ ActorTypes'
  <2>1. [h.obj EXCEPT !.pending = "snapshotting"] \in Rows
    BY <1>1, EditedRow
  <2>2. row' \in Rows /\ wk' \in [Workers -> Handlers]
    BY <1>1, <1>8, <2>1, FinishTypes, IdleTypes DEF RequestQueue
  <2>3. used' \in Counts
    BY <1>0, <1>8, FaultCounts DEF RequestQueue, ActorTypes
  <2> QED BY <1>0, <1>8, <2>2, <2>3 DEF RequestQueue, DbTypes, ClusterTypes, ActorTypes, k8s, usr
<1>9. ASSUME RequestCleanup(w) PROVE DbTypes' /\ ClusterTypes' /\ ActorTypes'
  <2>1. [h.obj EXCEPT !.status = "error"] \in Rows
    BY <1>3 DEF SandboxStatus
  <2>2. Deleted(clear_snapshot_binding(h.obj)) \in Rows
    BY <1>1, EditedRow
  <2>3. [h EXCEPT !.pc = "remove"] \in Handlers
    BY <1>1 DEF Handlers
  <2>4. ASSUME wk' = [wk EXCEPT ![w].pc = "remove"] PROVE wk' \in [Workers -> Handlers]
    BY <1>1, <2>3, <2>4
  <2>5. row' \in Rows /\ wk' \in [Workers -> Handlers]
    BY <1>1, <1>9, <2>1, <2>2, <2>4, FinishTypes DEF RequestCleanup
  <2>6. vs' \in Snaps /\ used' \in Counts
    BY <1>1, <1>9, CleanupTypes DEF RequestCleanup
  <2>7. ledger' \in Modes
    BY <1>0, <1>9 DEF RequestCleanup, DbTypes, Modes
  <2> QED BY <1>0, <1>9, <2>5, <2>6, <2>7 DEF RequestCleanup, DbTypes, ClusterTypes, ActorTypes, usr
<1>10. ASSUME RequestRemove(w) PROVE DbTypes' /\ ClusterTypes' /\ ActorTypes'
  <2> DEFINE o == IF h.op = "delete" /\ h.obj.name THEN clear_snapshot_binding(h.obj) ELSE h.obj
  <2>1. o \in Rows
    BY <1>1, EditedRow
  <2>2. [o EXCEPT !.status = "error"] \in Rows /\ [o EXCEPT !.status = "deleting"] \in Rows
    <3> HIDE DEF o
    <3> QED BY <2>1, EditedRow DEF SandboxStatus
  <2>3. row' \in Rows /\ wk' \in [Workers -> Handlers]
    BY <1>1, <1>10, <2>1, <2>2, FinishTypes, IdleTypes DEF RequestRemove
  <2>4. cr' \in CRs
    BY <1>0, <1>10 DEF RequestRemove, ClusterTypes, CRs
  <2>5. used' \in Counts
    BY <1>0, <1>10, FaultCounts DEF RequestRemove, ActorTypes
  <2> QED BY <1>0, <1>10, <2>3, <2>4, <2>5 DEF RequestRemove, DbTypes, ClusterTypes, ActorTypes, usr
<1>11. DbTypes' /\ ClusterTypes' /\ ActorTypes'
  BY <1>4, <1>5, <1>6, <1>7, <1>8, <1>9, <1>10 DEF Request
<1> QED BY <1>11 DEF TypeOK, DbTypes, ClusterTypes, ActorTypes, CRs, Disks, Snaps, Modes, Handlers, Ticks, Counts

\* The storage snapshot tick.
LEMMA TickTypes == ASSUME TypeOK, Tick \/ TickCrash PROVE TypeOK'
<1>0. DbTypes /\ ClusterTypes /\ ActorTypes
  BY TypeParts
<1>1. tick \in Ticks /\ tick.obj \in Rows /\ tick.base \in Rows /\ row \in Rows
  BY <1>0 DEF DbTypes, ActorTypes, Ticks
<1>2. /\ clear_snapshot_binding(tick.obj) \in Rows
      /\ fail_snapshot(tick.obj) \in Rows /\ fail_restore(tick.obj) \in Rows
      /\ fail_snapshot(clear_snapshot_binding(tick.obj)) \in Rows
  BY <1>1, EditedRow
<1>3. \A pc \in TickPcs : [tick EXCEPT !.pc = pc] \in Ticks
  BY <1>1 DEF Ticks
<1>4. ASSUME TickLoad PROVE DbTypes' /\ ClusterTypes' /\ ActorTypes'
  <2>1. fail(row) \in Rows
    BY <1>1, EditedRow
  <2>2. row' \in Rows
    BY <1>1, <1>4, <2>1 DEF TickLoad
  <2>3. tick' \in Ticks
    BY <1>1, <1>4 DEF TickLoad, Ticks, TickPcs
  <2>4. used' \in Counts
    BY <1>0, <1>4, FaultCounts DEF TickLoad, ActorTypes
  <2> QED BY <1>0, <1>4, <2>2, <2>3, <2>4 DEF TickLoad, DbTypes, ClusterTypes, ActorTypes, k8s, usr
<1>5. ASSUME SnapStale PROVE DbTypes' /\ ClusterTypes' /\ ActorTypes'
  <2>1. [clear_snapshot_binding(tick.obj) EXCEPT !.snapped = "new"] \in Rows
    BY <1>2 DEF Rows
  <2>2. row' \in Rows /\ tick' \in Ticks
    BY <1>1, <1>2, <1>5, <2>1, CommitTypes DEF SnapStale
  <2>3. vs' \in Snaps /\ used' \in Counts
    BY <1>1, <1>5, CleanupTypes DEF SnapStale
  <2> QED BY <1>0, <1>5, <2>2, <2>3 DEF SnapStale, DbTypes, ClusterTypes, ActorTypes, usr
<1>6. ASSUME SnapAlready PROVE DbTypes' /\ ClusterTypes' /\ ActorTypes'
  <2>1. [tick.obj EXCEPT !.pending = "none", !.status = "cold"] \in Rows
    BY <1>1 DEF Rows, SandboxStatus
  <2>2. row' \in Rows /\ tick' \in Ticks
    BY <1>1, <1>6, <2>1, CommitTypes DEF SnapAlready
  <2> QED BY <1>0, <1>6, <2>2 DEF SnapAlready, DbTypes, ClusterTypes, ActorTypes, k8s, usr
<1>7. ASSUME SnapCreate PROVE DbTypes' /\ ClusterTypes' /\ ActorTypes'
  <2>1. "post" \in TickPcs
    BY DEF TickPcs
  <2>2. row' \in Rows /\ tick' \in Ticks
    BY <1>1, <1>2, <1>3, <1>7, <2>1, CommitTypes DEF SnapCreate
  <2>3. used' \in Counts
    BY <1>0, <1>7, FaultCounts DEF SnapCreate, ActorTypes
  <2> QED BY <1>0, <1>7, <2>2, <2>3 DEF SnapCreate, DbTypes, ClusterTypes, ActorTypes, k8s, usr
<1>8. [phase |-> "pending", data |-> disk.data, content |-> FALSE] \in Snaps
  BY <1>0 DEF ClusterTypes, Disks, Snaps
<1>9. ASSUME SnapPost PROVE DbTypes' /\ ClusterTypes' /\ ActorTypes'
  <2>1. [tick.obj EXCEPT !.name = TRUE] \in Rows
    BY <1>1 DEF Rows
  <2>2. row' \in Rows /\ tick' \in Ticks
    BY <1>1, <1>2, <1>9, <2>1, CommitTypes DEF SnapPost
  <2>3. vs' \in Snaps
    BY <1>0, <1>8, <1>9 DEF SnapPost, ClusterTypes
  <2>4. used' \in Counts
    BY <1>0, <1>9, FaultCounts DEF SnapPost, ActorTypes
  <2> QED BY <1>0, <1>9, <2>2, <2>3, <2>4 DEF SnapPost, DbTypes, ClusterTypes, ActorTypes, usr
<1>10. ASSUME SnapAwait PROVE DbTypes' /\ ClusterTypes' /\ ActorTypes'
  <2>1. [tick.obj EXCEPT !.content = tick.obj.content \/ vs.content] \in Rows
    <3> DEFINE c == tick.obj.content \/ vs.content
    <3>1. c \in BOOLEAN
      OBVIOUS
    <3> HIDE DEF c
    <3>2. [tick.obj EXCEPT !.content = c] \in Rows
      BY <1>1, <3>1 DEF Rows
    <3> QED BY <3>2 DEF c
  <2>2. [tick EXCEPT !.pc = "release_cr", !.obj.content = TRUE, !.obj.snapped = "new"] \in Ticks
    <3>1. [tick.obj EXCEPT !.content = TRUE, !.snapped = "new"] \in Rows
      BY <1>1 DEF Rows
    <3>2. [tick EXCEPT !.pc = "release_cr", !.obj = [tick.obj EXCEPT !.content = TRUE, !.snapped = "new"]] \in Ticks
      BY <1>1, <3>1 DEF Ticks, TickPcs
    <3>3. [tick EXCEPT !.pc = "release_cr", !.obj.content = TRUE, !.obj.snapped = "new"]
          = [tick EXCEPT !.pc = "release_cr", !.obj = [tick.obj EXCEPT !.content = TRUE, !.snapped = "new"]]
      BY <1>1 DEF Ticks, Rows
    <3> QED BY <3>2, <3>3
  <2>3. row' \in Rows /\ tick' \in Ticks
    BY <1>1, <1>2, <1>10, <2>1, <2>2, CommitTypes DEF SnapAwait
  <2>4. used' \in Counts
    BY <1>0, <1>10, FaultCounts DEF SnapAwait, ActorTypes
  <2> QED BY <1>0, <1>10, <2>3, <2>4 DEF SnapAwait, DbTypes, ClusterTypes, ActorTypes, k8s, usr
<1>11. {"release_pvc", "undo", "check", "idle"} \subseteq TickPcs
  BY DEF TickPcs
<1>12. ASSUME SnapReleaseCR \/ SnapReleasePVC PROVE DbTypes' /\ ClusterTypes' /\ ActorTypes'
  <2>1. tick' \in Ticks
    BY <1>3, <1>11, <1>12 DEF SnapReleaseCR, SnapReleasePVC
  <2>2. used' \in Counts
    BY <1>0, <1>12, FaultCounts DEF SnapReleaseCR, SnapReleasePVC, ActorTypes
  <2>3. cr' \in CRs /\ disk' \in Disks
    BY <1>0, <1>12 DEF SnapReleaseCR, SnapReleasePVC, ClusterTypes, CRs, Disks
  <2> QED BY <1>0, <1>12, <2>1, <2>2, <2>3
          DEF SnapReleaseCR, SnapReleasePVC, DbTypes, ClusterTypes, ActorTypes, db, usr
<1>13. ASSUME SnapUndo PROVE DbTypes' /\ ClusterTypes' /\ ActorTypes'
  <2>1. row' \in Rows /\ tick' \in Ticks
    BY <1>1, <1>2, <1>3, <1>11, <1>13, CommitTypes DEF SnapUndo
  <2>2. vs' \in Snaps /\ used' \in Counts
    BY <1>1, <1>13, CleanupTypes DEF SnapUndo
  <2> QED BY <1>0, <1>13, <2>1, <2>2 DEF SnapUndo, DbTypes, ClusterTypes, ActorTypes, usr
<1>14. ASSUME SnapCheck PROVE DbTypes' /\ ClusterTypes' /\ ActorTypes'
  <2>1. [tick.obj EXCEPT !.status = "cold", !.pending = "none", !.mode = "standard_snapshot"] \in Rows
    BY <1>1, CutoverRow
  <2>2. row' \in Rows /\ tick' \in Ticks
    BY <1>1, <1>14, <2>1, CommitTypes DEF SnapCheck
  <2>3. used' \in Counts
    BY <1>0, <1>14, FaultCounts DEF SnapCheck, ActorTypes
  <2>4. ledger' \in Modes
    BY <1>0, <1>14 DEF SnapCheck, DbTypes, Modes
  <2> QED BY <1>0, <1>14, <2>2, <2>3, <2>4 DEF SnapCheck, DbTypes, ClusterTypes, ActorTypes, k8s, usr
<1>15. ASSUME Restore PROVE DbTypes' /\ ClusterTypes' /\ ActorTypes'
  <2>1. \A s \in {"ready", "stopped"} : [tick EXCEPT !.pc = "complete", !.obj.status = s] \in Ticks
    <3>1. SUFFICES ASSUME NEW s \in {"ready", "stopped"}
                   PROVE  [tick EXCEPT !.pc = "complete", !.obj.status = s] \in Ticks
      OBVIOUS
    <3>2. [tick.obj EXCEPT !.status = s] \in Rows
      BY <1>1, EditedRow DEF SandboxStatus
    <3>3. [tick EXCEPT !.pc = "complete", !.obj.status = s]
          = [tick EXCEPT !.pc = "complete", !.obj = [tick.obj EXCEPT !.status = s]]
      BY <1>1 DEF Ticks, Rows
    <3> QED BY <1>1, <3>2, <3>3 DEF Ticks, TickPcs
  <2>2. row' \in Rows /\ tick' \in Ticks
    BY <1>1, <1>2, <1>15, <2>1, CommitTypes DEF Restore
  <2>3. used' \in Counts
    BY <1>0, <1>15, FaultCounts DEF Restore, ActorTypes
  <2>4. cr' \in CRs
    BY <1>0, <1>15 DEF Restore, ClusterTypes, CRs
  <2> QED BY <1>0, <1>15, <2>2, <2>3, <2>4 DEF Restore, DbTypes, ClusterTypes, ActorTypes, usr
<1>16. ASSUME RestoreComplete PROVE DbTypes' /\ ClusterTypes' /\ ActorTypes'
  <2> DEFINE o == [tick.obj EXCEPT !.pending = "none", !.mode = "live_disk",
                                   !.snapped = IF @ = "none" THEN @ ELSE "old"]
  <2>1. o \in Rows
    BY <1>1 DEF Rows
  <2>2. (CleanupOk(o) /\ Commit(clear_snapshot_binding(o))) \/ (CleanupRaises(o) /\ Commit(o))
    BY <1>16 DEF RestoreComplete
  <2> HIDE DEF o
  <2>3. row' \in Rows /\ tick' \in Ticks
    BY <1>1, <2>1, <2>2, EditedRow, CommitTypes
  <2>4. vs' \in Snaps /\ used' \in Counts
    BY <2>1, <2>2, CleanupTypes
  <2>5. session' \in BOOLEAN
    BY <1>16 DEF RestoreComplete
  <2>6. ledger' \in Modes
    BY <1>0, <1>16 DEF RestoreComplete, DbTypes, Modes
  <2>7. UNCHANGED <<cr, disk, deleted, wk, usr>>
    BY <1>16 DEF RestoreComplete
  <2> QED BY <1>0, <2>3, <2>4, <2>5, <2>6, <2>7 DEF DbTypes, ClusterTypes, ActorTypes, usr
<1>17. ASSUME TickCrash PROVE DbTypes' /\ ClusterTypes' /\ ActorTypes'
  <2>1. NoVS \in Snaps
    BY ColdAssumption DEF NoVS, Snaps
  <2>2. vs' \in Snaps /\ tick' \in Ticks
    BY <1>0, <1>3, <1>8, <1>11, <1>17, <2>1 DEF TickCrash, ClusterTypes
  <2>3. used' \in Counts
    BY <1>0, <1>17 DEF TickCrash, ActorTypes, Counts
  <2> QED BY <1>0, <1>17, <2>2, <2>3 DEF TickCrash, DbTypes, ClusterTypes, ActorTypes, db, usr
<1>18. DbTypes' /\ ClusterTypes' /\ ActorTypes'
  BY <1>4, <1>5, <1>6, <1>7, <1>9, <1>10, <1>12, <1>13, <1>14, <1>15, <1>16, <1>17 DEF Tick
<1> QED BY <1>18 DEF TypeOK, DbTypes, ClusterTypes, ActorTypes, CRs, Disks, Snaps, Modes, Handlers, Ticks, Counts

\* The sandbox starts with variables of their types.
LEMMA InitTypes == Init => TypeOK
<1> SUFFICES ASSUME Init PROVE TypeOK
  OBVIOUS
<1>1. row \in Rows
  BY DEF Init, Rows, SandboxStatus
<1>2. wk \in [Workers -> Handlers] /\ tick \in Ticks
  BY <1>1 DEF Init, IdleWorker, IdleTick, Handlers, Ticks, TickPcs
<1>3. DbTypes
  BY <1>1 DEF Init, DbTypes, Modes
<1>4. 0 \in 0..MaxWrites /\ deleted \in BOOLEAN /\ doomed \in BOOLEAN
  <2>1. 0 \in 0..MaxWrites
    BY ColdAssumption
  <2>2. deleted \in BOOLEAN /\ doomed \in BOOLEAN
    BY Zenon DEF Init
  <2> QED BY <2>1, <2>2
<1>5. ClusterTypes
  BY <1>4 DEF Init, ClusterTypes, CRs, Disks, Snaps, NoVS
<1>6. ActorTypes
  BY <1>2, <1>4 DEF Init, ActorTypes, Counts
<1> QED BY <1>3, <1>5, <1>6, TypeParts

\* Every variable keeps its type, for any number of handlers; every status and
\* pending operation that is stored is one the code knows.
THEOREM ColdTypes == Spec => []TypeOK
<1>1. Init => TypeOK
  BY InitTypes
<1>2. TypeOK /\ [Next]_vars => TypeOK'
  <2> SUFFICES ASSUME TypeOK, [Next]_vars PROVE TypeOK'
    OBVIOUS
  <2>1. CASE UNCHANGED vars
    BY <2>1 DEF TypeOK, vars
  <2>2. CASE Next
    BY <2>2, ClusterStepTypes, SyncTypes, RequestTypes, TickTypes DEF Next
  <2> QED BY <2>1, <2>2
<1> QED BY <1>1, <1>2, PTL DEF Spec

-----------------------------------------------------------------------------
(* The invariant is kept by the controllers, the user and the sync loop.   *)

\* The controllers and the user touch only the cluster, and none takes the disk of
\* a live CR away.
LEMMA ClusterStepCore ==
    ASSUME TypeOK, Core, ~EarlyErrors, Controller \/ ControllerError \/ UserWrites
    PROVE  Core'
<1>0. ClusterTypes /\ ActorTypes /\ ClusterTypes'
  BY TypeParts, ClusterStepTypes DEF TypeOK, ClusterTypes, CRs, Disks, Snaps
<1>1. /\ UNCHANGED <<row, ledger, wk, tick, doomed>> /\ used'.faults = used.faults
      /\ used'.crashes = used.crashes
  BY <1>0 DEF Controller, ControllerStart, ControllerStop, ControllerRemove, SnapshotReady, ControllerError,
              UserWrites, db, usr, ActorTypes, Counts
<1>2. (\A w \in Workers : Handler(w))'
  BY <1>1 DEF Core, Handler
<1>3. vs.phase = "ready" => vs' = vs
  BY DEF Controller, ControllerStart, ControllerStop, ControllerRemove, SnapshotReady, ControllerError, UserWrites
<1>4. OnTick'
  BY <1>1, <1>3 DEF Core, OnTick
<1>5. Binding'
  BY <1>1, <1>3 DEF Core, Binding
<1>6. Whereabouts'
  <2> SUFFICES ASSUME ~doomed, used.faults = 0, Whereabouts PROVE Whereabouts'
    BY <1>1 DEF Core, Whereabouts
  <2>1. CASE ControllerStart
    BY <1>0, <1>1, <2>1 DEF ControllerStart, usr, Whereabouts, Fresh, Saved, Taking, ClusterTypes, CRs, Disks, Snaps
  <2>2. CASE ControllerStop
    BY <1>0, <1>1, <2>2 DEF ControllerStop, usr, Whereabouts, Fresh, Saved, Taking, ClusterTypes, CRs, Disks, Snaps
  <2>3. CASE ControllerRemove
    <3>1. tick.pc = "post" => Fresh
      BY DEF Core, OnTick, Whereabouts, Taking
    <3> QED
    BY <1>0, <1>1, <2>3, <3>1 DEF ControllerRemove, NoCR, NoDisk, usr, Whereabouts, Fresh, Saved, Taking, ClusterTypes, CRs, Disks, Snaps
  <2>4. CASE SnapshotReady
    BY <1>0, <1>1, <2>4 DEF SnapshotReady, usr, Whereabouts, Fresh, Saved, Taking, ClusterTypes, CRs, Disks, Snaps
  <2>5. CASE ControllerError
    BY <1>0, <1>1, <2>5 DEF ControllerError, usr, Whereabouts, Fresh, Saved, Taking, ClusterTypes, CRs, Disks, Snaps
  <2>6. CASE UserWrites
    BY <1>0, <1>1, <2>6 DEF UserWrites, Whereabouts, Fresh, Saved, Taking, ClusterTypes, CRs, Disks, Snaps
  <2> QED BY <2>1, <2>2, <2>3, <2>4, <2>5, <2>6 DEF Controller
<1> QED BY <1>2, <1>4, <1>5, <1>6 DEF Core

\* The sync loop writes no more than the status while no operation is pending.
LEMMA SyncCore == ASSUME TypeOK, Core, Sync PROVE Core'
<1>0. DbTypes /\ ClusterTypes /\ ActorTypes
  BY TypeParts
<1>1. /\ UNCHANGED <<cr, disk, vs, wk, tick, newest, doomed, used>>
      /\ ~doomed => \/ row' = row
                    \/ row.status # "cold" /\ row' = [row EXCEPT !.status = "error"] /\ SyncDeleted
                    \/ SyncChanged
  <2>1. UNCHANGED <<cr, disk, vs, wk, tick, newest, doomed, used>>
    BY DEF Sync, SyncChanged, SyncDeleted, SyncReconcile, k8s, usr
  <2>2. ASSUME ~doomed PROVE row.status # "deleting"
    BY <2>2 DEF Core, Binding
  <2> QED BY <2>1, <2>2 DEF Sync, SyncDeleted, SyncReconcile, db
<1>2. ASSUME ~doomed
      PROVE  /\ row'.pending = row.pending /\ row'.mode = row.mode /\ row'.name = row.name
             /\ row'.content = row.content /\ row'.snapped = row.snapped
             /\ row'.gmt_deleted = row.gmt_deleted
             /\ row'.status = "cold" => row.status = "cold"
             /\ row'.status \notin {"deleting", "deleted"}
  <2>1. row' = row \/ \E s \in {"creating", "ready", "stopped", "error"} : row' = [row EXCEPT !.status = s]
    <3>1. Derived \in {"creating", "ready", "stopped", "error"}
      BY <1>0 DEF Derived, ClusterTypes, CRs
    <3> QED BY <1>1, <1>2, <3>1 DEF SyncChanged
  <2>2. row.status \notin {"deleting", "deleted"}
    BY <1>2 DEF Core, Binding
  <2> QED BY <1>0, <2>1, <2>2 DEF DbTypes, Rows
<1>3. ASSUME NEW w \in Workers PROVE Handler(w)'
  BY <1>1, <1>2, <1>3 DEF Core, Handler
<1>4. OnTick'
  BY <1>1, <1>2 DEF Core, OnTick
<1>5. Binding'
  <2>1. ASSUME ~doomed, row.mode = "standard_snapshot" PROVE ledger' # "live_disk"
    <3>1. ledger # "live_disk" /\ row.status # "deleting"
      BY <2>1 DEF Core, Binding
    <3> QED BY <2>1, <3>1 DEF Sync, SyncChanged, SyncDeleted, SyncReconcile, db
  <2> QED BY <1>1, <1>2, <2>1 DEF Core, Binding
<1>6. Whereabouts'
  <2>1. ASSUME ~doomed, used.faults = 0, row.mode = "standard_snapshot" PROVE row' = row
    <3>1. row.status = "cold" /\ (row.pending = "none" => cr.phase = "absent")
      BY <2>1 DEF Core, Whereabouts
    <3> QED BY <1>1, <2>1, <3>1 DEF SyncChanged
  <2> QED BY <1>1, <1>2, <2>1 DEF Core, Whereabouts, Fresh, Saved, Taking
<1> QED BY <1>3, <1>4, <1>5, <1>6 DEF Core

-----------------------------------------------------------------------------
(* ... by the requests ...                                                 *)

\* No request but the auto-stop is in flight while the tick works.
LEMMA TickAlone ==
    ASSUME TypeOK, Core, ~doomed, NEW w \in Workers, wk[w].pc # "idle", wk[w].op # "auto_stop"
    PROVE  tick.pc = "idle" /\ row.pending = "none"
<1>1. row.pending = "none"
  BY DEF Core, Handler
<1>2. tick.pc # "idle" => row.pending # "none"
  BY DEF Core, OnTick
<1> QED BY <1>1, <1>2

\* A request loads the row.
LEMMA ReadCore ==
    ASSUME TypeOK, OneHandler, Core, NEW w \in Workers, NEW op \in Ops, RequestRead(w, op)
    PROVE  Core'
<1>0. DbTypes /\ ActorTypes
  BY TypeParts
<1>1. /\ UNCHANGED <<row, ledger, cr, disk, vs, tick, newest, doomed>>
      /\ used'.faults = used.faults /\ used'.crashes = used.crashes
      /\ wk'[w] = [pc |-> "commit", op |-> op, obj |-> row]
  BY <1>0 DEF RequestRead, db, k8s, usr, ActorTypes, Counts
<1>2. Handler(w)'
  <2>1. Accepts(op, row.status) /\ (row.pending = "none" \/ op = "auto_stop")
    BY DEF RequestRead
  <2>2. op = "auto_stop" => row.status = "ready"
    BY <2>1 DEF Accepts
  <2>3. ASSUME ~doomed
        PROVE  /\ row.status = "cold" => row.mode = "standard_snapshot"
               /\ used.faults = 0 /\ row.mode = "standard_snapshot" => row.status = "cold"
    BY <2>3 DEF Core, Binding, Whereabouts
  <2>4. ASSUME ~doomed, used.faults = 0, op = "auto_stop" PROVE row.pending # "restoring"
    BY <2>2, <2>3, <2>4 DEF Core, Binding
  <2> QED BY <1>1, <2>1, <2>2, <2>3, <2>4 DEF Handler
<1>3. (\A v \in Workers : Handler(v))'
  BY <1>2 DEF OneHandler
<1>4. OnTick' /\ Binding' /\ Whereabouts'
  BY <1>1 DEF Core, OnTick, Binding, Whereabouts, Fresh, Saved, Taking
<1> QED BY <1>3, <1>4 DEF Core

\* The first commit of a request.
LEMMA CommitCore ==
    ASSUME TypeOK, OneHandler, Core, NEW w \in Workers, RequestCommit(w)
    PROVE  Core'
<1>0. DbTypes /\ ActorTypes
  BY TypeParts
<1> DEFINE h == wk[w]
           o == FirstChange(h.op, h.obj)
<1>1. h \in Handlers /\ h.obj \in Rows /\ row \in Rows /\ wk \in [Workers -> Handlers]
  BY <1>0 DEF DbTypes, ActorTypes, Handlers
<1>2. /\ UNCHANGED <<ledger, cr, disk, vs, tick, newest, used>>
      /\ wk'[w] = [h EXCEPT !.obj = o, !.pc = AfterCommit(h.op, o)]
      /\ row' = Merge(h.obj, o)
      /\ ~doomed' => ~doomed /\ h.op \notin {"delete", "auto_delete"}
  BY <1>1 DEF RequestCommit, k8s
<1>3. o \in Rows
  BY <1>1, EditedRow DEF FirstChange, SandboxStatus
<1>4. Merged(row', h.obj, o)
  BY <1>1, <1>2, <1>3, MergeRow
<1>5. h.op \in Ops /\ Accepts(h.op, h.obj.status) /\ h.pc = "commit"
      /\ (h.op = "auto_stop" => h.obj.status = "ready")
  BY DEF Core, Handler, RequestCommit
<1>6. wk'[w].pc = AfterCommit(h.op, o) /\ wk'[w].op = h.op /\ wk'[w].obj = o
  <2> HIDE DEF h, o
  <2> QED BY <1>1, <1>2 DEF Handlers
<1>7. ASSUME doomed' PROVE Core'
  <2>1. Handler(w)'
    <3>1. h.op = "auto_stop" => o = h.obj
      BY DEF FirstChange
    <3>2. /\ AfterCommit(h.op, o) # "commit"
          /\ AfterCommit(h.op, o) = "run" => h.op = "start"
          /\ AfterCommit(h.op, o) # "queue"
          /\ AfterCommit(h.op, o) = "suspend" => h.op \in {"stop", "snapshot", "auto_stop"}
      <4> HIDE DEF h, o
      <4> QED BY DEF AfterCommit
    <3> HIDE DEF h, o
    <3> QED BY <1>5, <1>6, <1>7, <3>1, <3>2 DEF Handler
  <2> QED BY <1>7, <2>1 DEF Core, OneHandler, OnTick, Binding, Whereabouts
<1>8. ASSUME ~doomed' PROVE Core'
  <2>1. ~doomed /\ h.op \in {"snapshot", "start", "stop", "auto_stop"} /\ ~doomed'
    BY <1>2, <1>5, <1>8 DEF Ops
  <2>2. CASE h.op = "auto_stop"
    <3>1. o = h.obj /\ AfterCommit(h.op, o) = "suspend"
      BY <2>2 DEF FirstChange, AfterCommit
    <3>2. row' = row
      <4>1. DOMAIN row = DOMAIN row'
        BY <1>1, <1>4 DEF Merged, Rows
      <4> HIDE DEF h, o
      <4> QED BY <1>1, <1>4, <3>1 DEF Merged, Rows
    <3>3. Handler(w)'
      <4> HIDE DEF h, o
      <4>1. used.faults = 0 => row.pending # "restoring"
        BY <2>1, <2>2, <1>5 DEF Core, Handler, h
      <4> QED BY <1>2, <1>5, <1>6, <2>1, <2>2, <3>1, <3>2, <4>1 DEF Handler
    <3> HIDE DEF h, o
    <3>4. OnTick' /\ Binding' /\ Whereabouts'
      BY <1>2, <2>1, <3>2 DEF Core, OnTick, Binding, Whereabouts, Fresh, Saved, Taking
    <3> QED BY <3>3, <3>4 DEF Core, OneHandler
  <2>3. CASE h.op # "auto_stop"
    <3>1. tick.pc = "idle" /\ row.pending = "none" /\ h.obj.pending = "none" /\ h.obj.mode = row.mode
          /\ (h.obj.status = "cold" => h.obj.mode = "standard_snapshot")
          /\ (used.faults = 0 /\ h.obj.mode = "standard_snapshot" => h.obj.status = "cold")
      <4>1. h.pc # "idle"
        BY <1>5
      <4> QED BY <1>5, <2>1, <2>3, <4>1, TickAlone DEF Core, Handler
    <3>2. OnTick'
      BY <1>2, <3>1 DEF OnTick
    <3>3. CASE h.op = "start" /\ h.obj.status = "cold"
      <4>1. o = [h.obj EXCEPT !.pending = "restoring"]
        BY <3>3 DEF FirstChange
      <4>2. o.pending = "restoring"
        BY <1>1, <4>1 DEF Rows
      <4>3. AfterCommit(h.op, o) = "idle"
        <5> HIDE DEF o
        <5> QED BY <3>3, <4>2 DEF AfterCommit
      <4> HIDE DEF h, o
      <4>4. /\ row'.pending = "restoring" /\ row'.mode = row.mode /\ row'.name = row.name
            /\ row'.snapped = row.snapped /\ row'.gmt_deleted = row.gmt_deleted
            /\ row'.status = row.status /\ row.mode = "standard_snapshot"
        BY <1>1, <1>4, <3>1, <3>3, <4>1 DEF Merged, Rows
      <4>5. Handler(w)'
        BY <1>6, <4>3 DEF Handler
      <4>6. Binding'
        BY <1>2, <2>1, <4>4 DEF Core, Binding
      <4>7. Whereabouts'
        BY <1>2, <2>1, <3>1, <4>4 DEF Core, Whereabouts, Fresh, Saved, Taking
      <4> QED BY <3>2, <4>5, <4>6, <4>7 DEF Core, OneHandler
    <3>4. CASE ~(h.op = "start" /\ h.obj.status = "cold")
      <4>0. h.obj.status # "cold" /\ (h.op = "snapshot" => h.obj.status \in {"ready", "stopped"})
        BY <1>5, <2>1, <2>3, <3>4 DEF Accepts
      <4>1. /\ o.mode = h.obj.mode /\ o.name = h.obj.name /\ o.content = h.obj.content
            /\ o.snapped = h.obj.snapped /\ o.gmt_deleted = h.obj.gmt_deleted
            /\ o.status \in {h.obj.status, "creating", "stopped"}
            /\ IF h.op = "snapshot" /\ h.obj.status # "ready"
               THEN o.pending = "snapshotting" ELSE o.pending = "none"
        BY <1>1, <2>1, <2>3, <3>1, <3>4, <4>0 DEF FirstChange, Rows
      <4> HIDE DEF o
      <4>2. AfterCommit(h.op, o) = IF h.op = "start" THEN "run"
                                   ELSE IF h.op = "snapshot" /\ h.obj.status # "ready" THEN "idle"
                                   ELSE "suspend"
        BY <2>1, <2>3, <3>4, <4>0, <4>1 DEF AfterCommit
      <4> HIDE DEF h
      <4>3. /\ row'.mode = row.mode /\ row'.name = row.name
            /\ row'.snapped = row.snapped /\ row'.gmt_deleted = row.gmt_deleted
            /\ row'.status \in {row.status, "creating", "stopped"}
            /\ row'.pending = IF h.op = "snapshot" /\ h.obj.status # "ready" THEN "snapshotting" ELSE "none"
        BY <1>1, <1>4, <3>1, <4>1 DEF Merged, Rows
      <4>4. Handler(w)'
        BY <1>2, <1>5, <1>6, <2>1, <2>3, <3>1, <4>0, <4>1, <4>2, <4>3 DEF Handler
      <4>5. Binding'
        BY <1>2, <2>1, <3>1, <4>0, <4>3 DEF Core, Binding
      <4>6. Whereabouts'
        BY <1>2, <2>1, <3>1, <4>0, <4>3 DEF Core, Whereabouts, Fresh, Saved, Taking
      <4> QED BY <3>2, <4>4, <4>5, <4>6 DEF Core, OneHandler
    <3> QED BY <3>3, <3>4
  <2> QED BY <2>2, <2>3
<1> QED BY <1>7, <1>8

\* The PATCH that lets the pod run.  A start is not in flight while the tick works,
\* and the row it started from is on its disk.
LEMMA RunCore ==
    ASSUME TypeOK, OneHandler, Core, NEW w \in Workers, RequestRun(w)
    PROVE  Core'
<1>0. DbTypes /\ ClusterTypes /\ ActorTypes
  BY TypeParts
<1> DEFINE h == wk[w]
<1>1. h \in Handlers /\ h.obj \in Rows /\ row \in Rows /\ wk \in [Workers -> Handlers] /\ used \in Counts
  BY <1>0 DEF DbTypes, ActorTypes, Handlers
<1>2. /\ UNCHANGED <<ledger, disk, vs, tick, newest, doomed>>
      /\ h.pc = "run" /\ h.op = "start"
  BY DEF RequestRun, usr, Core, Handler
<1>3. wk'[w].pc = "idle" /\ (UNCHANGED row \/ Merged(row', h.obj, [h.obj EXCEPT !.status = "error"]))
  <2>1. [h.obj EXCEPT !.status = "error"] \in Rows
    BY <1>1, EditedRow DEF SandboxStatus
  <2> QED BY <1>1, <2>1, FinishTypes, IdleTypes DEF RequestRun
<1>4. Handler(w)'
  BY <1>3 DEF Handler
<1>5. CASE doomed
  BY <1>2, <1>4, <1>5 DEF Core, OneHandler, OnTick, Binding, Whereabouts
<1>6. CASE ~doomed
  <2>1. tick.pc = "idle" /\ row.pending = "none" /\ (used.faults = 0 => row.mode = "live_disk")
    <3>1. h.pc # "idle" /\ h.op # "auto_stop"
      BY <1>2
    <3>2. h.obj.mode \in {"live_disk", "standard_snapshot"}
      BY <1>1 DEF Rows
    <3> QED BY <1>2, <1>6, <3>1, <3>2, TickAlone DEF Core, Handler
  <2>2. /\ row'.pending = row.pending /\ row'.mode = row.mode /\ row'.name = row.name
        /\ row'.snapped = row.snapped /\ row'.gmt_deleted = row.gmt_deleted
        /\ row'.status \in {row.status, "error"}
    BY <1>1, <1>3 DEF Merged, Rows
  <2>3. OnTick'
    BY <1>2, <2>1 DEF OnTick
  <2>4. used'.faults \in {used.faults, used.faults + 1} /\ used'.crashes = used.crashes
    BY <1>1 DEF RequestRun, Raises, Fault, Counts
  <2>5. Binding'
    BY <1>2, <1>6, <2>2, <2>4 DEF Core, Binding
  <2>6. used'.faults = 0 => used.faults = 0
    BY <1>1, <2>4 DEF Counts
  <2>7. cr'.phase = cr.phase
    BY <1>0 DEF RequestRun, ClusterTypes, CRs
  <2>8. Whereabouts'
    BY <1>2, <1>6, <2>1, <2>2, <2>6, <2>7 DEF Core, Whereabouts, Fresh, Saved, Taking
  <2> QED BY <1>4, <2>3, <2>5, <2>8 DEF Core, OneHandler
<1> QED BY <1>5, <1>6

\* The PATCH that suspends the pod.  An auto-stop may meet the tick: a pod whose
\* workspace is being taken has stopped already, and a cold one has no CR.
LEMMA SuspendCore ==
    ASSUME TypeOK, OneHandler, Core, NEW w \in Workers, RequestSuspend(w)
    PROVE  Core'
<1>0. DbTypes /\ ClusterTypes /\ ActorTypes
  BY TypeParts
<1> DEFINE h == wk[w]
<1>1. h \in Handlers /\ h.obj \in Rows /\ row \in Rows /\ wk \in [Workers -> Handlers] /\ used \in Counts
  BY <1>0 DEF DbTypes, ActorTypes, Handlers
<1>2. /\ UNCHANGED <<ledger, disk, vs, tick, newest, doomed>>
      /\ h.pc = "suspend" /\ h.op \in {"stop", "snapshot", "auto_stop"}
      /\ h.op = "auto_stop" => h.obj.status = "ready"
  BY DEF RequestSuspend, usr, Core, Handler
<1>3. \/ wk'[w].pc = "idle"
      \/ h.op = "snapshot" /\ wk'[w] = [h EXCEPT !.pc = "queue"] /\ UNCHANGED <<row, used>>
  BY <1>1, FinishTypes, IdleTypes, EditedRow DEF RequestSuspend, SandboxStatus
<1>4. \/ UNCHANGED row
      \/ cr.phase # "absent" /\ Merged(row', h.obj, [h.obj EXCEPT !.status = "stopped"])
      \/ h.op # "auto_stop" /\ Merged(row', h.obj, [h.obj EXCEPT !.status = "error"])
  <2>1. [h.obj EXCEPT !.status = "stopped"] \in Rows /\ [h.obj EXCEPT !.status = "error"] \in Rows
    BY <1>1, EditedRow DEF SandboxStatus
  <2> QED BY <1>1, <2>1, FinishTypes DEF RequestSuspend
<1>5. used'.faults \in {used.faults, used.faults + 1} /\ used'.crashes = used.crashes
  BY <1>1 DEF RequestSuspend, Raises, Fault, Counts
<1>6. used'.faults = 0 => used.faults = 0
  BY <1>1, <1>5 DEF Counts
<1>7. /\ row'.pending = row.pending /\ row'.mode = row.mode /\ row'.name = row.name
      /\ row'.content = row.content
      /\ row'.snapped = row.snapped /\ row'.gmt_deleted = row.gmt_deleted
      /\ row'.status \in {row.status, "stopped", "error"}
  BY <1>1, <1>4 DEF Merged, Rows
<1>8. Handler(w)'
  <2>1. CASE wk'[w].pc = "idle"
    BY <2>1 DEF Handler
  <2>2. CASE wk'[w] = [h EXCEPT !.pc = "queue"] /\ h.op = "snapshot" /\ UNCHANGED <<row, used>>
    <3>1. wk'[w].pc = "queue" /\ wk'[w].op = "snapshot" /\ wk'[w].obj = h.obj
      BY <1>1, <2>2 DEF Handlers
    <3> QED BY <1>2, <2>2, <3>1 DEF Handler, Core, Ops
  <2> QED BY <1>3, <2>1, <2>2
<1>9. CASE doomed
  BY <1>2, <1>8, <1>9 DEF Core, OneHandler, OnTick, Binding, Whereabouts
<1>10. CASE ~doomed
  <2>1. OnTick'
    BY <1>2, <1>5, <1>7, <1>10, <1>1 DEF Core, OnTick, Counts
  <2>2. Binding'
    BY <1>2, <1>5, <1>7, <1>10 DEF Core, Binding
  <2>3. cr'.phase = cr.phase /\ (cr.st = "stopped" => cr' = cr) /\ (cr.phase = "absent" => cr' = cr)
    BY <1>0 DEF RequestSuspend, ClusterTypes, CRs
  <2>4. ASSUME used.faults = 0
        PROVE  /\ row.pending # "restoring"
               /\ row.mode = "standard_snapshot" => row' = row
    <3>1. CASE h.op # "auto_stop"
      <4>1. row.mode # "standard_snapshot" /\ row.pending = "none"
        BY <1>2, <1>10, <2>4, <3>1 DEF Core, Handler
      <4> QED BY <4>1
    <3>2. CASE h.op = "auto_stop"
      <4>1. row.pending # "restoring"
        BY <1>2, <1>10, <2>4, <3>2 DEF Core, Handler
      <4>2. row.mode = "standard_snapshot" => cr.phase = "absent"
        BY <1>0, <1>10, <2>4, <4>1 DEF Core, Whereabouts, DbTypes, Rows
      <4> QED BY <1>4, <3>2, <4>1, <4>2
    <3> QED BY <3>1, <3>2
  <2>5. Whereabouts'
    BY <1>2, <1>6, <1>7, <1>10, <2>3, <2>4 DEF Core, Whereabouts, Fresh, Saved, Taking
  <2> QED BY <1>8, <2>1, <2>2, <2>5 DEF Core, OneHandler
<1> QED BY <1>9, <1>10

\* The commit that queues a snapshot.
LEMMA QueueCore ==
    ASSUME TypeOK, OneHandler, Core, NEW w \in Workers, RequestQueue(w)
    PROVE  Core'
<1>0. DbTypes /\ ClusterTypes /\ ActorTypes
  BY TypeParts
<1> DEFINE h == wk[w]
<1>1. h \in Handlers /\ h.obj \in Rows /\ row \in Rows /\ wk \in [Workers -> Handlers] /\ used \in Counts
  BY <1>0 DEF DbTypes, ActorTypes, Handlers
<1>2. /\ UNCHANGED <<ledger, cr, disk, vs, tick, newest, doomed>>
      /\ h.pc = "queue" /\ h.op = "snapshot"
  BY DEF RequestQueue, usr, k8s, Core, Handler
<1>3. wk'[w].pc = "idle" /\ (UNCHANGED row \/ Merged(row', h.obj, [h.obj EXCEPT !.pending = "snapshotting"]))
  <2>1. [h.obj EXCEPT !.pending = "snapshotting"] \in Rows
    BY <1>1, EditedRow
  <2> QED BY <1>1, <2>1, FinishTypes, IdleTypes DEF RequestQueue
<1>4. Handler(w)'
  BY <1>3 DEF Handler
<1>5. CASE doomed
  BY <1>2, <1>4, <1>5 DEF Core, OneHandler, OnTick, Binding, Whereabouts
<1>6. CASE ~doomed
  <2>1. tick.pc = "idle" /\ row.pending = "none" /\ (used.faults = 0 => row.mode = "live_disk")
    <3>1. h.pc # "idle" /\ h.op # "auto_stop"
      BY <1>2
    <3>2. h.obj.mode \in {"live_disk", "standard_snapshot"}
      BY <1>1 DEF Rows
    <3> QED BY <1>2, <1>6, <3>1, <3>2, TickAlone DEF Core, Handler
  <2>2. /\ row'.pending \in {"none", "snapshotting"} /\ row'.mode = row.mode /\ row'.name = row.name
        /\ row'.snapped = row.snapped /\ row'.gmt_deleted = row.gmt_deleted
        /\ row'.status = row.status
    BY <1>1, <1>3, <2>1 DEF Merged, Rows
  <2>3. OnTick'
    BY <1>2, <2>1 DEF OnTick
  <2>4. used'.faults \in {used.faults, used.faults + 1} /\ used'.crashes = used.crashes
    BY <1>1 DEF RequestQueue, Fault, Counts
  <2>5. Binding'
    BY <1>2, <1>6, <2>2, <2>4 DEF Core, Binding
  <2>6. used'.faults = 0 => used.faults = 0
    BY <1>1, <2>4 DEF Counts
  <2>7. Whereabouts'
    BY <1>2, <1>6, <2>1, <2>2, <2>6 DEF Core, Whereabouts, Fresh, Saved, Taking
  <2> QED BY <1>4, <2>3, <2>5, <2>7 DEF Core, OneHandler
<1> QED BY <1>5, <1>6

\* A delete that goes on was committed: the sandbox is doomed.
LEMMA DeleteCore ==
    ASSUME TypeOK, OneHandler, Core, NEW w \in Workers, RequestCleanup(w) \/ RequestRemove(w)
    PROVE  Core'
<1>0. DbTypes /\ ClusterTypes /\ ActorTypes
  BY TypeParts
<1>1. wk[w] \in Handlers /\ wk[w].obj \in Rows /\ row \in Rows /\ wk \in [Workers -> Handlers]
  BY <1>0 DEF DbTypes, ActorTypes, Handlers
<1>2. doomed /\ doomed'
  BY DEF RequestCleanup, RequestRemove, usr, Core, Handler
<1>3. wk'[w].pc = "idle" \/ wk' = [wk EXCEPT ![w].pc = "remove"]
  <2>1. ASSUME NEW o, Finish(w, o) PROVE wk'[w].pc = "idle"
    BY <1>1, <2>1, IdleTypes DEF Finish
  <2> QED BY <1>1, <2>1, IdleTypes DEF RequestCleanup, RequestRemove
<1>4. Handler(w)'
  <2>1. CASE wk'[w].pc = "idle"
    BY <2>1 DEF Handler
  <2>2. CASE wk' = [wk EXCEPT ![w].pc = "remove"]
    <3>1. wk'[w].pc = "remove" /\ wk'[w].op = wk[w].op /\ wk'[w].obj = wk[w].obj /\ wk[w].pc # "idle"
      BY <1>1, <2>2 DEF Handlers, RequestCleanup, RequestRemove
    <3> QED BY <1>2, <3>1 DEF Core, Handler
  <2> QED BY <1>3, <2>1, <2>2
<1> QED BY <1>2, <1>4 DEF Core, OneHandler, OnTick, Binding, Whereabouts

-----------------------------------------------------------------------------
(* ... and by the tick.                                                    *)

\* The tick does not disturb an auto-stop, and meets no other request.
LEMMA HandlersWait ==
    ASSUME Core, UNCHANGED <<wk, doomed>>,
           ~doomed => row.pending # "none" /\ row'.pending \in {row.pending, "none"},
           used'.faults = 0 => used.faults = 0
    PROVE  (\A w \in Workers : Handler(w))'
BY DEF Core, Handler

\* The counters of failed calls and cut-off ticks only grow.
LEMMA MishapsGrow ==
    ASSUME TypeOK, Tick \/ TickCrash
    PROVE  /\ used'.faults = 0 => used.faults = 0
           /\ used'.crashes = 0 => used.crashes = 0
           /\ Tick => used'.crashes = used.crashes
           /\ used.faults \in Nat /\ used'.faults \in Nat
<1>1. used \in Counts
  BY TypeParts DEF ActorTypes
<1>2. Tick => UNCHANGED used \/ Fault
  BY DEF Tick, TickLoad, SnapStale, SnapAlready, SnapCreate, SnapPost, SnapAwait, SnapReleaseCR, SnapReleasePVC,
         SnapUndo, SnapCheck, Restore, RestoreComplete, CleanupOk, CleanupRaises, Raises
<1> QED BY <1>1, <1>2, FaultCounts DEF TickCrash, Counts

\* A commit of the tick stores its object, but for a status it has not changed.
LEMMA TickCommit ==
    ASSUME TypeOK, Core, ~doomed, tick.pc # "idle", NEW o \in Rows, Commit(o)
    PROVE  /\ row'.pending = o.pending /\ row'.mode = o.mode /\ row'.name = o.name
           /\ row'.content = o.content /\ row'.snapped = o.snapped
           /\ row'.gmt_deleted = o.gmt_deleted
           /\ row'.status = IF o.status # tick.base.status THEN o.status ELSE row.status
           /\ tick'.pc = "idle"
<1>0. row \in Rows /\ tick \in Ticks
  BY TypeParts DEF DbTypes, ActorTypes
<1>1. Merged(row', tick.base, o) /\ tick' = [tick EXCEPT !.pc = "idle"]
  BY <1>0, CommitTypes
<1>2. tick'.pc = "idle"
  BY <1>0, <1>1 DEF Ticks
<1> QED BY <1>1, <1>2 DEF Merged, Core, OnTick

\* The tick loads the row, or gives the operation up at once.
LEMMA LoadCore == ASSUME TypeOK, Core, TickLoad PROVE Core'
<1>0. DbTypes /\ ActorTypes
  BY TypeParts
<1>1. /\ UNCHANGED <<ledger, cr, disk, vs, newest, wk, doomed>>
      /\ row.pending # "none" /\ tick.pc = "idle"
  BY DEF TickLoad, k8s, usr
<1>2. /\ used'.faults = 0 => used.faults = 0
      /\ used'.crashes = used.crashes
      /\ Fault => used'.faults > 0
  BY <1>0, MishapsGrow, FaultCounts DEF Tick, ActorTypes
<1>3. \/ row' = row /\ tick'.pc # "idle" /\ tick'.base = row /\ tick'.obj = row
         /\ tick'.pc = IF row.pending = "restoring" THEN "restore"
                       ELSE IF Stale(row) THEN "stale"
                       ELSE IF row.mode = "standard_snapshot" THEN "already"
                       ELSE IF row.name THEN "await"
                       ELSE "create"
      \/ Fault /\ row' = fail(row) /\ UNCHANGED tick
  BY DEF TickLoad
<1>4. CASE row' = row /\ tick'.pc # "idle" /\ tick'.base = row /\ tick'.obj = row
           /\ tick'.pc = IF row.pending = "restoring" THEN "restore"
                       ELSE IF Stale(row) THEN "stale"
                       ELSE IF row.mode = "standard_snapshot" THEN "already"
                       ELSE IF row.name THEN "await"
                       ELSE "create"
  <2>1. (\A w \in Workers : Handler(w))'
    BY <1>1, <1>2, <1>4, HandlersWait
  <2>2. OnTick'
    BY <1>0, <1>1, <1>4 DEF Core, Binding, OnTick, DbTypes, Rows, Stale, Releasing
  <2>3. Binding'
    BY <1>1, <1>2, <1>4 DEF Core, Binding
  <2>4. tick'.pc \notin {"post", "release_pvc", "check", "complete"}
    BY <1>4
  <2>5. Whereabouts'
    BY <1>1, <1>2, <1>4, <2>4 DEF Core, Whereabouts, Fresh, Saved, Taking
  <2> QED BY <2>1, <2>2, <2>3, <2>5 DEF Core
<1>5. CASE Fault /\ row' = fail(row) /\ UNCHANGED tick
  <2>1. /\ row'.pending = "none" /\ row'.mode = row.mode /\ row'.name = row.name
        /\ row'.snapped = row.snapped /\ row'.gmt_deleted = row.gmt_deleted
        /\ row'.status = IF row.pending = "snapshotting" THEN "stopped" ELSE "cold"
    BY <1>0, <1>5 DEF fail, fail_snapshot, fail_restore, DbTypes, Rows
  <2>2. (\A w \in Workers : Handler(w))'
    BY <1>1, <1>2, <2>1, HandlersWait
  <2>3. OnTick'
    BY <1>1, <1>5 DEF OnTick
  <2>4. Binding'
    BY <1>0, <1>1, <1>2, <2>1 DEF Core, Binding, DbTypes, Rows
  <2>5. Whereabouts'
    BY <1>0, <1>2, <1>5, MishapsGrow DEF Whereabouts, ActorTypes, Counts, Tick
  <2> QED BY <2>2, <2>3, <2>4, <2>5 DEF Core
<1> QED BY <1>3, <1>4, <1>5

\* What every step of the tick leaves alone.
LEMMA TickFrame ==
    ASSUME Tick \/ TickCrash
    PROVE  UNCHANGED <<wk, newest, doomed>>
BY DEF Tick, TickCrash, TickLoad, SnapStale, SnapAlready, SnapCreate, SnapPost, SnapAwait, SnapReleaseCR,
       SnapReleasePVC, SnapUndo, SnapCheck, Restore, RestoreComplete, usr

LEMMA TickDoomed ==
    ASSUME TypeOK, Core, Tick \/ TickCrash, doomed
    PROVE  Core'
<1>1. UNCHANGED <<wk, doomed>>
  BY TickFrame
<1>2. (\A w \in Workers : Handler(w))'
  BY <1>1, MishapsGrow, HandlersWait
<1> QED BY <1>1, <1>2 DEF Core, OnTick, Binding, Whereabouts

\* What the tick knows of the row it works on.
LEMMA TickRow ==
    ASSUME TypeOK, Core, ~doomed, tick.pc # "idle"
    PROVE  /\ row \in Rows /\ tick \in Ticks /\ tick.base \in Rows /\ tick.obj \in Rows
           /\ row.pending = IF tick.pc \in {"restore", "complete"} THEN "restoring" ELSE "snapshotting"
           /\ row.pending = tick.base.pending /\ row.mode = tick.base.mode /\ row.name = tick.base.name
           /\ row.content = tick.base.content /\ row.snapped = tick.base.snapped
           /\ row.gmt_deleted = tick.base.gmt_deleted
           /\ ~row.gmt_deleted /\ row.status \notin {"deleting", "deleted"}
           /\ row.status = "cold" => tick.base.status = "cold"
           /\ tick.base.status = "cold" => row.mode = "standard_snapshot"
<1>1. row \in Rows /\ tick \in Ticks
  BY TypeParts DEF DbTypes, ActorTypes
<1>2. tick.base \in Rows /\ tick.obj \in Rows
  BY <1>1 DEF Ticks
<1> QED BY <1>1, <1>2 DEF Core, OnTick, Binding

\* An object that the tick has not changed is the row but for its status.
LEMMA TickObject ==
    ASSUME TypeOK, Core, ~doomed, tick.pc # "idle", tick.obj = tick.base
    PROVE  /\ tick.obj \in Rows /\ tick.obj.pending = row.pending /\ tick.obj.mode = row.mode
           /\ tick.obj.name = row.name /\ tick.obj.snapped = row.snapped
           /\ tick.obj.gmt_deleted = row.gmt_deleted /\ tick.obj.status = tick.base.status
BY TickRow

\* While it releases the live assets the tick changes its own step only.
LEMMA ReleasingOnTick ==
    ASSUME TypeOK, Core, ~doomed, tick.pc # "idle", UNCHANGED <<row, vs>>,
           row.pending = "snapshotting", row.mode = "live_disk", row.name, row.snapped # "old",
           vs.phase = "ready", tick'.pc \in Releasing, tick'.base = tick.base,
           tick'.obj = [tick.base EXCEPT !.content = TRUE, !.snapped = "new"],
           tick'.pc = "undo" => used'.faults > 0
    PROVE  OnTick'
<1> DEFINE b == tick.base
<1>1. /\ row.pending = b.pending /\ row.mode = b.mode /\ row.name = b.name /\ row.content = b.content
      /\ row.snapped = b.snapped /\ row.gmt_deleted = b.gmt_deleted
      /\ row.status = "cold" => b.status = "cold"
      /\ b.status = "cold" => b.mode = "standard_snapshot"
  BY TickRow
<1> HIDE DEF b
<1>2. row' = row /\ vs' = vs /\ tick'.base = b
  BY DEF b
<1>3. tick'.obj = [b EXCEPT !.content = TRUE, !.snapped = "new"]
  BY DEF b
<1>4. tick'.pc \notin {"idle", "stale", "already", "create", "post", "restore", "complete"}
  BY DEF Releasing
<1>5. tick'.obj = IF tick'.pc \in Releasing THEN [b EXCEPT !.content = TRUE, !.snapped = "new"]
                  ELSE IF tick'.pc = "complete" THEN [b EXCEPT !.status = tick'.obj.status]
                  ELSE b
  BY <1>3
<1>6. tick'.pc \in Releasing \cup {"await"} => b.mode = "live_disk" /\ b.name /\ b.snapped # "old"
  BY <1>1
<1>7. /\ b.pending = IF tick'.pc \in {"restore", "complete"} THEN "restoring" ELSE "snapshotting"
      /\ tick'.pc = "undo" => used'.faults > 0
  BY <1>1, <1>4
<1>8. vs'.phase = "ready"
  BY <1>2
<1>9. /\ row'.pending = b.pending /\ row'.mode = b.mode /\ row'.name = b.name
      /\ row'.content = b.content /\ row'.snapped = b.snapped /\ row'.gmt_deleted = b.gmt_deleted
      /\ row'.status = "cold" => b.status = "cold"
  BY <1>1, <1>2, Zenon
<1>10. tick'.base = b /\ (b.status = "cold" => b.mode = "standard_snapshot")
  BY <1>1, <1>2
<1> QED BY <1>4, <1>5, <1>6, <1>7, <1>8, <1>9, <1>10, Zenon DEF OnTick

\* A stale snapshot is removed, or the new one is given up.
LEMMA StaleCore == ASSUME TypeOK, Core, ~doomed, SnapStale PROVE Core'
<1>1. /\ UNCHANGED <<ledger, cr, disk, newest, wk, doomed>>
      /\ tick.pc = "stale" /\ tick.pc # "idle" /\ Tick
  BY DEF SnapStale, usr, Tick
<1>2. /\ tick.obj = tick.base /\ row.mode = "live_disk" /\ row.name /\ row.snapped = "old"
  BY <1>1, TickRow DEF Core, OnTick, Stale, Releasing
<1>2a. /\ tick.obj \in Rows /\ tick.obj.pending = row.pending /\ tick.obj.mode = row.mode
       /\ tick.obj.name = row.name /\ tick.obj.snapped = row.snapped
       /\ tick.obj.gmt_deleted = row.gmt_deleted /\ tick.obj.status = tick.base.status
  BY <1>1, <1>2, TickObject
<1>3. /\ row'.pending \in {"none", "snapshotting"} /\ row'.mode = "live_disk"
      /\ (row'.name /\ row'.snapped = "old") \/ (~row'.name /\ row'.snapped = "new")
      /\ row'.gmt_deleted = row.gmt_deleted
      /\ row'.status \in {row.status, "stopped"} /\ tick'.pc = "idle"
  <2>1. CASE Commit([clear_snapshot_binding(tick.obj) EXCEPT !.snapped = "new"])
    <3> DEFINE o == [clear_snapshot_binding(tick.obj) EXCEPT !.snapped = "new"]
    <3>1. o \in Rows /\ o.pending = row.pending /\ o.mode = "live_disk" /\ o.name = FALSE /\ o.snapped = "new"
          /\ o.gmt_deleted = row.gmt_deleted /\ o.status = tick.base.status
      BY <1>2, <1>2a, RenewedRow
    <3>2. Commit(o)
      BY <2>1
    <3> HIDE DEF o
    <3> QED BY <1>1, <3>1, <3>2, TickCommit, TickRow
  <2>2. CASE Commit(fail_snapshot(tick.obj))
    <3> DEFINE o == fail_snapshot(tick.obj)
    <3>1. o \in Rows /\ o.pending = "none" /\ o.mode = "live_disk" /\ o.name = row.name /\ o.snapped = "old"
          /\ o.gmt_deleted = row.gmt_deleted /\ o.status = "stopped"
      BY <1>2, <1>2a, FailedRow
    <3>2. Commit(o)
      BY <2>2
    <3> HIDE DEF o
    <3>3. /\ row'.pending = "none" /\ row'.mode = "live_disk" /\ row'.name = row.name /\ row'.snapped = "old"
          /\ row'.gmt_deleted = row.gmt_deleted /\ row'.status \in {row.status, "stopped"}
          /\ tick'.pc = "idle"
      BY <1>1, <3>1, <3>2, TickCommit
    <3> QED BY <1>2, <3>3
  <2> QED BY <2>1, <2>2 DEF SnapStale
<1>4. (\A w \in Workers : Handler(w))'
  BY <1>1, <1>3, TickRow, MishapsGrow, HandlersWait
<1>5. OnTick'
  BY <1>3 DEF OnTick
<1>6. Binding'
  BY <1>1, <1>2, <1>3, TickRow DEF Binding
<1>7. Whereabouts'
  BY <1>1, <1>2, <1>3, MishapsGrow DEF Core, Whereabouts, Fresh, Taking
<1> QED BY <1>4, <1>5, <1>6, <1>7 DEF Core

\* A sandbox that has its snapshot is COLD at once; without a failed call there is
\* none that waits for that.
LEMMA AlreadyCore == ASSUME TypeOK, Core, ~doomed, SnapAlready PROVE Core'
<1>1. /\ UNCHANGED <<ledger, cr, disk, vs, newest, wk, doomed, used>>
      /\ tick.pc = "already" /\ tick.pc # "idle" /\ Tick
  BY DEF SnapAlready, usr, k8s, Tick
<1>2. tick.obj = tick.base /\ row.mode = "standard_snapshot"
  BY <1>1, TickRow DEF Core, OnTick, Releasing
<1>2a. /\ tick.obj \in Rows /\ tick.obj.pending = row.pending /\ tick.obj.mode = row.mode
       /\ tick.obj.name = row.name /\ tick.obj.snapped = row.snapped
       /\ tick.obj.gmt_deleted = row.gmt_deleted /\ tick.obj.status = tick.base.status
  BY <1>1, <1>2, TickObject
<1>3. /\ row'.pending = "none" /\ row'.mode = "standard_snapshot"
      /\ row'.name = row.name /\ row'.snapped = row.snapped /\ row'.gmt_deleted = row.gmt_deleted
      /\ row'.status \in {row.status, "cold"} /\ tick'.pc = "idle"
  <2> DEFINE o == [tick.obj EXCEPT !.pending = "none", !.status = "cold"]
  <2>1. o \in Rows /\ o.pending = "none" /\ o.mode = "standard_snapshot" /\ o.name = row.name /\ o.snapped = row.snapped
        /\ o.gmt_deleted = row.gmt_deleted /\ o.status = "cold"
    BY <1>2, <1>2a, ColdRow
  <2>2. Commit(o)
    BY DEF SnapAlready
  <2> HIDE DEF o
  <2> QED BY <1>1, <2>1, <2>2, TickCommit
<1>4. (\A w \in Workers : Handler(w))'
  BY <1>1, <1>3, TickRow, MishapsGrow, HandlersWait
<1>5. OnTick'
  BY <1>3 DEF OnTick
<1>6. Binding'
  BY <1>1, <1>2, <1>3, TickRow DEF Core, Binding
<1>7. Whereabouts'
  BY <1>1, <1>2, TickRow DEF Core, Whereabouts
<1> QED BY <1>4, <1>5, <1>6, <1>7 DEF Core

\* The CR must have stopped before the snapshot is taken.
LEMMA CreateCore == ASSUME TypeOK, Core, ~doomed, SnapCreate PROVE Core'
<1>0. ClusterTypes
  BY TypeParts
<1>1. /\ UNCHANGED <<ledger, cr, disk, vs, newest, wk, doomed>>
      /\ tick.pc = "create" /\ tick.pc # "idle" /\ Tick
  BY DEF SnapCreate, usr, k8s, Tick
<1>2. tick.obj = tick.base /\ row.mode = "live_disk" /\ ~row.name
  BY <1>1, TickRow DEF Core, OnTick, Releasing
<1>2a. /\ tick.obj \in Rows /\ tick.obj.pending = row.pending /\ tick.obj.mode = row.mode
       /\ tick.obj.name = row.name /\ tick.obj.snapped = row.snapped
       /\ tick.obj.gmt_deleted = row.gmt_deleted /\ tick.obj.status = tick.base.status
  BY <1>1, <1>2, TickObject
<1>3. \/ /\ row'.pending \in {"none", "snapshotting"} /\ row'.mode = "live_disk"
         /\ row'.name = row.name /\ row'.snapped = row.snapped
         /\ row'.gmt_deleted = row.gmt_deleted
         /\ row'.status \in {row.status, "stopped"} /\ tick'.pc = "idle"
      \/ cr.st = "stopped" /\ tick' = [tick EXCEPT !.pc = "post"] /\ UNCHANGED <<row, used>>
  <2>1. CASE Commit(fail_snapshot(tick.obj))
    <3> DEFINE o == fail_snapshot(tick.obj)
    <3>1. o \in Rows /\ o.pending = "none" /\ o.mode = "live_disk" /\ o.name = row.name /\ o.snapped = row.snapped
          /\ o.gmt_deleted = row.gmt_deleted /\ o.status = "stopped"
      BY <1>2, <1>2a, FailedRow
    <3>2. Commit(o)
      BY <2>1
    <3> HIDE DEF o
    <3> QED BY <1>1, <3>1, <3>2, TickCommit
  <2>2. CASE Commit(tick.obj)
    BY <1>1, <1>2, <2>2, TickCommit, TickRow
  <2>3. CASE Derived = "stopped" /\ tick' = [tick EXCEPT !.pc = "post"] /\ UNCHANGED <<row, used>>
    BY <1>0, <2>3 DEF Derived, ClusterTypes, CRs
  <2> QED BY <2>1, <2>2, <2>3 DEF SnapCreate
<1>4. (\A w \in Workers : Handler(w))'
  BY <1>1, <1>3, TickRow, MishapsGrow, HandlersWait
<1>5. CASE tick'.pc = "idle" /\ row'.mode = "live_disk"
           /\ row'.name = row.name /\ row'.snapped = row.snapped /\ row'.gmt_deleted = row.gmt_deleted
           /\ row'.pending \in {"none", "snapshotting"} /\ row'.status \in {row.status, "stopped"}
  <2>1. OnTick'
    BY <1>5 DEF OnTick
  <2>2. Binding'
    BY <1>1, <1>2, <1>5, TickRow DEF Core, Binding
  <2>3. Whereabouts'
    BY <1>1, <1>2, <1>5, MishapsGrow DEF Core, Whereabouts, Fresh, Taking
  <2> QED BY <1>4, <2>1, <2>2, <2>3 DEF Core
<1>6. CASE cr.st = "stopped" /\ tick' = [tick EXCEPT !.pc = "post"] /\ UNCHANGED <<row, used>>
  <2>1. tick'.pc = "post" /\ tick'.base = tick.base /\ tick'.obj = tick.obj
    BY <1>1, <1>6, TickRow DEF Ticks
  <2>2. OnTick'
    BY <1>1, <1>2, <1>6, <2>1, TickRow DEF OnTick, Releasing
  <2>3. Binding'
    BY <1>1, <1>6 DEF Core, Binding
  <2>4. Whereabouts'
    BY <1>1, <1>6, <2>1 DEF Core, Whereabouts, Fresh, Saved, Taking
  <2> QED BY <1>4, <2>2, <2>3, <2>4 DEF Core
<1> QED BY <1>3, <1>5, <1>6

\* The snapshot is taken of a disk that nobody writes to any more.
LEMMA PostCore == ASSUME TypeOK, Core, ~doomed, SnapPost PROVE Core'
<1>1. /\ UNCHANGED <<ledger, cr, disk, newest, wk, doomed>>
      /\ tick.pc = "post" /\ tick.pc # "idle" /\ Tick
  BY DEF SnapPost, usr, Tick
<1>2. tick.obj = tick.base /\ row.mode = "live_disk" /\ ~row.name /\ row.snapped # "old"
  BY <1>1, TickRow DEF Core, OnTick, Binding, Releasing
<1>2a. /\ tick.obj \in Rows /\ tick.obj.pending = row.pending /\ tick.obj.mode = row.mode
       /\ tick.obj.name = row.name /\ tick.obj.snapped = row.snapped
       /\ tick.obj.gmt_deleted = row.gmt_deleted /\ tick.obj.status = tick.base.status
  BY <1>1, <1>2, TickObject
<1>3. \/ /\ row'.pending = "snapshotting" /\ row'.mode = "live_disk" /\ row'.name
         /\ row'.snapped = row.snapped /\ row'.gmt_deleted = row.gmt_deleted
         /\ row'.status = row.status /\ tick'.pc = "idle"
         /\ vs' = [phase |-> "pending", data |-> disk.data, content |-> FALSE]
      \/ /\ row'.pending = "none" /\ row'.mode = "live_disk" /\ row'.name = row.name
         /\ row'.snapped = row.snapped /\ row'.gmt_deleted = row.gmt_deleted
         /\ row'.status \in {row.status, "stopped"} /\ tick'.pc = "idle"
  <2>1. CASE Commit(fail_snapshot(tick.obj))
    <3> DEFINE o == fail_snapshot(tick.obj)
    <3>1. o \in Rows /\ o.pending = "none" /\ o.mode = "live_disk" /\ o.name = row.name /\ o.snapped = row.snapped
          /\ o.gmt_deleted = row.gmt_deleted /\ o.status = "stopped"
      BY <1>2, <1>2a, FailedRow
    <3>2. Commit(o)
      BY <2>1
    <3> HIDE DEF o
    <3> QED BY <1>1, <3>1, <3>2, TickCommit
  <2>2. CASE /\ vs' = [phase |-> "pending", data |-> disk.data, content |-> FALSE]
             /\ Commit([tick.obj EXCEPT !.name = TRUE])
    <3> DEFINE o == [tick.obj EXCEPT !.name = TRUE]
    <3>1. o \in Rows /\ o.pending = "snapshotting" /\ o.mode = "live_disk" /\ o.name = TRUE
          /\ o.snapped = row.snapped /\ o.gmt_deleted = row.gmt_deleted /\ o.status = tick.base.status
      BY <1>1, <1>2, TickRow DEF Rows
    <3>2. Commit(o)
      BY <2>2
    <3> HIDE DEF o
    <3> QED BY <1>1, <2>2, <3>1, <3>2, TickCommit
  <2> QED BY <2>1, <2>2 DEF SnapPost
<1>4. (\A w \in Workers : Handler(w))'
  BY <1>1, <1>3, TickRow, MishapsGrow, HandlersWait
<1>5. OnTick'
  BY <1>3 DEF OnTick
<1>6. Binding'
  BY <1>1, <1>2, <1>3, TickRow DEF Core, Binding
<1>7. Whereabouts'
  BY <1>1, <1>2, <1>3, MishapsGrow DEF Core, Whereabouts, Fresh, Taking
<1> QED BY <1>4, <1>5, <1>6, <1>7 DEF Core

\* The tick waits for readyToUse.
LEMMA AwaitCore == ASSUME TypeOK, Core, ~doomed, SnapAwait PROVE Core'
<1>1. /\ UNCHANGED <<ledger, cr, disk, vs, newest, wk, doomed>>
      /\ tick.pc = "await" /\ tick.pc # "idle" /\ Tick
  BY DEF SnapAwait, usr, k8s, Tick
<1>2. tick.obj = tick.base /\ row.mode = "live_disk" /\ row.name /\ row.snapped # "old"
  BY <1>1, TickRow DEF Core, OnTick, Releasing
<1>2a. /\ tick.obj \in Rows /\ tick.obj.pending = row.pending /\ tick.obj.mode = row.mode
       /\ tick.obj.name = row.name /\ tick.obj.snapped = row.snapped
       /\ tick.obj.gmt_deleted = row.gmt_deleted /\ tick.obj.status = tick.base.status
  BY <1>1, <1>2, TickObject
<1>3. \/ /\ Raises(vs.phase = "absent")
         /\ row'.pending = "none" /\ row'.mode = "live_disk" /\ row'.name = row.name
         /\ row'.snapped = row.snapped /\ row'.gmt_deleted = row.gmt_deleted
         /\ row'.status \in {row.status, "stopped"} /\ tick'.pc = "idle"
      \/ /\ row'.pending = row.pending /\ row'.mode = "live_disk" /\ row'.name = row.name
         /\ row'.snapped = row.snapped /\ row'.gmt_deleted = row.gmt_deleted
         /\ row'.status = row.status /\ tick'.pc = "idle"
      \/ /\ vs.phase = "ready" /\ UNCHANGED <<row, used>>
         /\ tick' = [tick EXCEPT !.pc = "release_cr", !.obj.content = TRUE, !.obj.snapped = "new"]
  <2>1. CASE Raises(vs.phase = "absent") /\ Commit(fail_snapshot(tick.obj))
    <3> DEFINE o == fail_snapshot(tick.obj)
    <3>1. o \in Rows /\ o.pending = "none" /\ o.mode = "live_disk" /\ o.name = row.name /\ o.snapped = row.snapped
          /\ o.gmt_deleted = row.gmt_deleted /\ o.status = "stopped"
      BY <1>2, <1>2a, FailedRow
    <3>2. Commit(o)
      BY <2>1
    <3> HIDE DEF o
    <3> QED BY <1>1, <2>1, <3>1, <3>2, TickCommit
  <2>2. CASE Commit([tick.obj EXCEPT !.content = @ \/ vs.content])
    <3> DEFINE c == tick.obj.content \/ vs.content
               o == [tick.obj EXCEPT !.content = c]
    <3>1. c \in BOOLEAN
      OBVIOUS
    <3>2. Commit(o)
      BY <2>2
    <3> HIDE DEF c
    <3>3. o \in Rows /\ o.pending = row.pending /\ o.mode = "live_disk" /\ o.name = row.name
          /\ o.snapped = row.snapped /\ o.gmt_deleted = row.gmt_deleted /\ o.status = tick.base.status
      BY <1>2, <1>2a, <3>1, NamedRow
    <3> HIDE DEF o
    <3> QED BY <1>1, <3>2, <3>3, TickCommit
  <2>3. CASE /\ vs.phase = "ready" /\ UNCHANGED <<row, used>>
             /\ tick' = [tick EXCEPT !.pc = "release_cr", !.obj.content = TRUE, !.obj.snapped = "new"]
    BY <2>3
  <2> QED BY <2>1, <2>2, <2>3 DEF SnapAwait
<1>4. (\A w \in Workers : Handler(w))'
  BY <1>1, <1>3, TickRow, MishapsGrow, HandlersWait
<1>5. CASE tick'.pc = "idle"
  <2>1. OnTick'
    BY <1>5 DEF OnTick
  <2>2. /\ row'.mode = "live_disk" /\ row'.name = row.name /\ row'.snapped = row.snapped
        /\ row'.gmt_deleted = row.gmt_deleted /\ row'.status \in {row.status, "stopped"}
        /\ row'.pending \in {row.pending, "none"}
        /\ row'.pending # row.pending => Raises(vs.phase = "absent")
    BY <1>1, <1>2, <1>3, <1>5, TickRow DEF Ticks
  <2>3. Binding'
    BY <1>1, <1>2, <2>2, TickRow DEF Core, Binding
  <2>4. ASSUME used'.faults = 0 PROVE row'.pending = row.pending
    <3>1. used.faults = 0
      BY <1>1, <2>4, MishapsGrow
    <3>2. vs.phase # "absent"
      BY <1>2, <3>1 DEF Core, Whereabouts, Taking
    <3>3. ~Fault
      BY <2>4, TypeParts, FaultCounts DEF ActorTypes
    <3> QED BY <2>2, <3>2, <3>3 DEF Raises
  <2>5. Whereabouts'
    BY <1>1, <1>2, <1>5, <2>2, <2>4, MishapsGrow DEF Core, Whereabouts, Fresh, Saved, Taking
  <2> QED BY <1>4, <2>1, <2>3, <2>5 DEF Core
<1>6. CASE /\ vs.phase = "ready" /\ UNCHANGED <<row, used>>
           /\ tick' = [tick EXCEPT !.pc = "release_cr", !.obj.content = TRUE, !.obj.snapped = "new"]
  <2>1. tick'.pc = "release_cr" /\ tick'.base = tick.base
        /\ tick'.obj = [tick.base EXCEPT !.content = TRUE, !.snapped = "new"]
    BY <1>1, <1>2, <1>6, TickRow DEF Ticks, Rows
  <2>2. OnTick'
    BY <1>1, <1>2, <1>6, <2>1, TickRow, ReleasingOnTick DEF Releasing
  <2>3. Binding'
    BY <1>1, <1>6 DEF Core, Binding
  <2>4. Whereabouts'
    BY <1>1, <1>6, <2>1 DEF Core, Whereabouts, Fresh, Saved, Taking
  <2> QED BY <1>4, <2>2, <2>3, <2>4 DEF Core
<1>7. tick'.pc = "idle" \/ (vs.phase = "ready" /\ UNCHANGED <<row, used>>
           /\ tick' = [tick EXCEPT !.pc = "release_cr", !.obj.content = TRUE, !.obj.snapped = "new"])
  BY <1>3
<1> QED BY <1>5, <1>6, <1>7

\* The live assets are released: the CR first, then the disk.
LEMMA ReleaseCore == ASSUME TypeOK, Core, ~doomed, SnapReleaseCR \/ SnapReleasePVC PROVE Core'
<1>0. ClusterTypes /\ used \in Counts
  BY TypeParts DEF ActorTypes
<1>1. /\ UNCHANGED <<row, ledger, vs, newest, wk, doomed>>
      /\ tick.pc \in {"release_cr", "release_pvc"} /\ tick.pc # "idle" /\ Tick
      /\ tick' \in {[tick EXCEPT !.pc = "release_pvc"], [tick EXCEPT !.pc = "undo"], [tick EXCEPT !.pc = "check"]}
  BY DEF SnapReleaseCR, SnapReleasePVC, usr, db, Tick
<1>2. /\ row.mode = "live_disk" /\ row.name /\ row.snapped # "old" /\ vs.phase = "ready"
      /\ tick.obj = [tick.base EXCEPT !.content = TRUE, !.snapped = "new"]
  BY <1>1, TickRow DEF Core, OnTick, Releasing
<1>3. tick'.pc \in {"release_pvc", "undo", "check"} /\ tick'.base = tick.base /\ tick'.obj = tick.obj
  BY <1>1, TickRow DEF Ticks
<1>4. (\A w \in Workers : Handler(w))'
  BY <1>1, TickRow, MishapsGrow, HandlersWait
<1>5. tick'.pc = "undo" => used'.faults > 0
  BY <1>0, <1>1, TickRow, FaultCounts DEF SnapReleaseCR, SnapReleasePVC, Ticks
<1>6. OnTick'
  BY <1>1, <1>2, <1>3, <1>5, TickRow, ReleasingOnTick DEF Releasing
<1>7. Binding'
  BY <1>1, MishapsGrow DEF Core, Binding
<1>8. ASSUME used'.faults = 0
      PROVE  tick'.pc \in {"release_pvc", "check"} /\ cr'.phase # "live" /\ used.faults = 0
  <2>1. used.faults = 0 /\ ~Fault
    BY <1>0, <1>1, <1>8, MishapsGrow, FaultCounts
  <2>2. tick.pc = "release_pvc" => cr.phase # "live"
    BY <2>1 DEF Core, Whereabouts
  <2>3. cr'.phase # "live"
    BY <1>0, <2>1, <2>2 DEF SnapReleaseCR, SnapReleasePVC, ClusterTypes, CRs
  <2>4. tick'.pc # "undo"
    BY <1>5, <1>8
  <2> QED BY <1>3, <2>1, <2>3, <2>4
<1>9. Whereabouts'
  BY <1>1, <1>2, <1>8, TickRow DEF Core, Whereabouts, Fresh, Saved, Taking
<1> QED BY <1>4, <1>6, <1>7, <1>9 DEF Core

\* A release that raised is undone; nothing is promised after a failed call but
\* that the row is not bound to what is gone.
LEMMA UndoCore == ASSUME TypeOK, Core, ~doomed, SnapUndo PROVE Core'
<1>1. /\ UNCHANGED <<ledger, cr, disk, newest, wk, doomed>>
      /\ tick.pc = "undo" /\ tick.pc # "idle" /\ Tick
  BY DEF SnapUndo, usr, Tick
<1>2. /\ row.mode = "live_disk" /\ row.name /\ row.snapped # "old" /\ used.faults > 0
      /\ tick.obj = [tick.base EXCEPT !.content = TRUE, !.snapped = "new"]
  BY <1>1, TickRow DEF Core, OnTick, Releasing
<1>3. /\ row'.pending \in {"none", row.pending} /\ row'.mode = "live_disk"
      /\ row'.snapped # "old" /\ row'.gmt_deleted = row.gmt_deleted
      /\ row'.status \in {row.status, "stopped"} /\ tick'.pc = "idle"
  <2>1. CASE Commit(fail_snapshot(clear_snapshot_binding(tick.obj)))
    <3> DEFINE o == fail_snapshot(clear_snapshot_binding(tick.obj))
    <3>0. tick.obj \in Rows /\ tick.obj.mode = "live_disk" /\ tick.obj.gmt_deleted = row.gmt_deleted
      BY <1>1, <1>2, TickRow DEF Rows
    <3>1. o \in Rows /\ o.pending = "none" /\ o.mode = "live_disk" /\ o.snapped = "none"
          /\ o.gmt_deleted = row.gmt_deleted /\ o.status = "stopped"
      BY <3>0 DEF fail_snapshot, clear_snapshot_binding, Rows, SandboxStatus
    <3>2. Commit(o)
      BY <2>1
    <3> HIDE DEF o
    <3> QED BY <1>1, <3>1, <3>2, TickCommit
  <2>2. CASE tick' = [tick EXCEPT !.pc = "idle"] /\ UNCHANGED row
    BY <1>1, <1>2, <2>2, TickRow DEF Ticks
  <2> QED BY <2>1, <2>2 DEF SnapUndo
<1>4. (\A w \in Workers : Handler(w))'
  BY <1>1, <1>3, TickRow, MishapsGrow, HandlersWait
<1>5. OnTick'
  BY <1>3 DEF OnTick
<1>6. Binding'
  BY <1>1, <1>2, <1>3, TickRow DEF Binding
<1>7. Whereabouts'
  BY <1>1, <1>2, MishapsGrow DEF Whereabouts
<1> QED BY <1>4, <1>5, <1>6, <1>7 DEF Core

\* The cutover.
LEMMA CheckCore == ASSUME TypeOK, Core, ~doomed, SnapCheck PROVE Core'
<1>0. DbTypes /\ ClusterTypes /\ used \in Counts
  BY TypeParts DEF ActorTypes
<1>1. /\ UNCHANGED <<cr, disk, vs, newest, wk, doomed>>
      /\ tick.pc = "check" /\ tick.pc # "idle" /\ Tick
  BY DEF SnapCheck, usr, k8s, Tick
<1>2. /\ row.mode = "live_disk" /\ row.name /\ row.snapped # "old" /\ vs.phase = "ready"
      /\ tick.obj = [tick.base EXCEPT !.content = TRUE, !.snapped = "new"]
      /\ tick.base.status # "cold"
  BY <1>1, TickRow DEF Core, OnTick, Releasing
<1>3. tick.obj.name = row.name /\ tick.obj.snapped = "new" /\ tick.obj.mode = "live_disk"
      /\ tick.obj.pending = row.pending /\ tick.obj.gmt_deleted = row.gmt_deleted
      /\ tick.obj.status = tick.base.status
  <2>1. /\ tick.base \in Rows /\ row.pending = tick.base.pending /\ row.mode = tick.base.mode
        /\ row.name = tick.base.name /\ row.gmt_deleted = tick.base.gmt_deleted
    BY <1>1, TickRow
  <2> DEFINE b == tick.base
             f == [b EXCEPT !.content = TRUE, !.snapped = "new"]
  <2>2. /\ f.pending = b.pending /\ f.status = b.status /\ f.mode = b.mode
        /\ f.name = b.name /\ f.snapped = "new" /\ f.gmt_deleted = b.gmt_deleted
    BY <2>1, ReleasedRow
  <2>3. tick.obj = f /\ row.mode = "live_disk"
    BY <1>2
  <2> HIDE DEF b, f
  <2>4. tick.base = b
    BY DEF b
  <2> QED BY <2>1, <2>2, <2>3, <2>4
<1>4. CASE /\ Raises(cr.phase = "absent" /\ disk.phase = "absent")
           /\ ledger' = IF ledger = "none" THEN ledger ELSE "standard_snapshot"
           /\ Commit([tick.obj EXCEPT !.status = "cold", !.pending = "none", !.mode = "standard_snapshot"])
  <2>1. /\ row'.pending = "none" /\ row'.mode = "standard_snapshot" /\ row'.name = row.name
        /\ row'.snapped = "new" /\ row'.gmt_deleted = row.gmt_deleted
        /\ row'.status = "cold" /\ tick'.pc = "idle"
    <3> DEFINE o == [tick.obj EXCEPT !.status = "cold", !.pending = "none", !.mode = "standard_snapshot"]
    <3>1. o \in Rows /\ o.pending = "none" /\ o.mode = "standard_snapshot" /\ o.snapped = "new"
          /\ o.name = row.name /\ o.gmt_deleted = row.gmt_deleted /\ o.status = "cold"
      BY <1>1, <1>3, TickRow, CutoverRow
    <3>2. Commit(o)
      BY <1>4
    <3> HIDE DEF o
    <3> QED BY <1>1, <1>2, <3>1, <3>2, TickCommit
  <2>2. (\A w \in Workers : Handler(w))'
    BY <1>1, <2>1, TickRow, MishapsGrow, HandlersWait
  <2>3. OnTick'
    BY <2>1 DEF OnTick
  <2>4. Binding'
    BY <1>1, <1>2, <1>4, <2>1, TickRow DEF Binding
  <2>5. ASSUME used'.faults = 0 PROVE used.faults = 0 /\ cr.phase = "absent" /\ disk.phase = "absent"
    <3>1. ~Fault
      BY <1>0, <2>5, FaultCounts
    <3> QED BY <1>1, <1>4, <2>5, <3>1, MishapsGrow DEF Raises
  <2>6. Whereabouts'
    BY <1>1, <1>2, <2>1, <2>5 DEF Core, Whereabouts, Fresh, Saved, Taking
  <2> QED BY <2>2, <2>3, <2>4, <2>6 DEF Core
<1>5. CASE Commit(tick.obj) /\ UNCHANGED <<ledger, used>>
  <2>1. /\ row'.pending = row.pending /\ row'.mode = "live_disk" /\ row'.name = row.name
        /\ row'.snapped = "new" /\ row'.gmt_deleted = row.gmt_deleted
        /\ row'.status = row.status /\ tick'.pc = "idle"
    BY <1>1, <1>3, <1>5, TickCommit, TickRow
  <2>2. (\A w \in Workers : Handler(w))'
    BY <1>1, <2>1, TickRow, MishapsGrow, HandlersWait
  <2>3. OnTick'
    BY <2>1 DEF OnTick
  <2>4. Binding'
    BY <1>1, <1>2, <1>5, <2>1, TickRow DEF Core, Binding
  <2>5. Whereabouts'
    BY <1>1, <1>2, <1>5, <2>1 DEF Core, Whereabouts, Fresh, Saved, Taking
  <2> QED BY <2>2, <2>3, <2>4, <2>5 DEF Core
<1> QED BY <1>4, <1>5 DEF SnapCheck

\* A restore creates the CR and waits; without a failed call it is never given up.
LEMMA RestoreCore == ASSUME TypeOK, Core, ~doomed, ~EarlyErrors, Restore PROVE Core'
<1>0. DbTypes /\ ClusterTypes /\ used \in Counts
  BY TypeParts DEF ActorTypes
<1>1. /\ UNCHANGED <<ledger, disk, vs, newest, wk, doomed>>
      /\ tick.pc = "restore" /\ tick.pc # "idle" /\ Tick
  BY DEF Restore, usr, Tick
<1>2. tick.obj = tick.base /\ row.pending = "restoring" /\ row.mode = "standard_snapshot" /\ row.name
  BY <1>1, TickRow DEF Core, OnTick, Binding, Releasing
<1>3. tick.obj \in Rows /\ tick.obj.name
  BY <1>1, <1>2, TickRow
<1>4. CASE Fault /\ Commit(fail_restore(tick.obj))
  <2>1. /\ row'.pending = "none" /\ row'.mode = row.mode /\ row'.name = row.name
        /\ row'.snapped = row.snapped /\ row'.gmt_deleted = row.gmt_deleted
        /\ row'.status \in {row.status, "cold"} /\ tick'.pc = "idle"
    <3> DEFINE o == fail_restore(tick.obj)
    <3>0. /\ tick.obj.mode = row.mode /\ tick.obj.snapped = row.snapped /\ tick.obj.name = row.name
          /\ tick.obj.gmt_deleted = row.gmt_deleted
      BY <1>1, <1>2, TickRow
    <3>1. o \in Rows /\ o.pending = "none" /\ o.mode = row.mode /\ o.snapped = row.snapped
          /\ o.name = row.name /\ o.gmt_deleted = row.gmt_deleted /\ o.status = "cold"
      BY <1>3, <3>0 DEF fail_restore, Rows, SandboxStatus
    <3>2. Commit(o)
      BY <1>4
    <3> HIDE DEF o
    <3> QED BY <1>1, <3>1, <3>2, TickCommit
  <2>2. (\A w \in Workers : Handler(w))'
    BY <1>1, <1>2, <2>1, MishapsGrow, HandlersWait
  <2>3. OnTick'
    BY <2>1 DEF OnTick
  <2>4. Binding'
    BY <1>1, <1>2, <2>1, TickRow, MishapsGrow DEF Core, Binding
  <2>5. used'.faults # 0
    BY <1>0, <1>4, FaultCounts DEF Counts
  <2> QED BY <2>2, <2>3, <2>4, <2>5 DEF Core, Whereabouts
<1>5. CASE /\ Commit(tick.obj) /\ UNCHANGED used
           /\ \/ cr.phase = "absent" /\ cr' = [phase |-> "live", st |-> "creating"]
              \/ UNCHANGED cr
  <2>1. /\ row'.pending = row.pending /\ row'.mode = row.mode /\ row'.name = row.name
        /\ row'.snapped = row.snapped /\ row'.gmt_deleted = row.gmt_deleted
        /\ row'.status = row.status /\ tick'.pc = "idle"
    BY <1>1, <1>2, <1>5, TickCommit, TickRow
  <2>2. (\A w \in Workers : Handler(w))'
    BY <1>1, <1>2, <2>1, MishapsGrow, HandlersWait
  <2>3. OnTick'
    BY <2>1 DEF OnTick
  <2>4. Binding'
    BY <1>1, <1>2, <1>5, <2>1 DEF Core, Binding
  <2>5. Whereabouts'
    BY <1>1, <1>2, <1>5, <2>1 DEF Core, Whereabouts, Fresh, Saved, Taking
  <2> QED BY <2>2, <2>3, <2>4, <2>5 DEF Core
<1>6. ASSUME NEW s \in {"ready", "stopped"},
             cr.phase # "absent", Derived = "error" \/ (disk.phase = "bound" /\ Derived = "ready"),
             UNCHANGED <<row, used, cr>>,
             tick' = [tick EXCEPT !.pc = "complete", !.obj.status = s]
      PROVE  Core'
  <2>1. tick'.pc = "complete" /\ tick'.base = tick.base /\ tick'.obj = [tick.base EXCEPT !.status = s]
    BY <1>1, <1>2, <1>6, TickRow DEF Ticks, Rows
  <2>2. tick'.obj.status = s
    BY <1>1, <2>1, TickRow DEF Rows
  <2>3. (\A w \in Workers : Handler(w))'
    BY <1>1, <1>2, <1>6, MishapsGrow, HandlersWait
  <2>4. OnTick'
    <3>1. /\ row.pending = tick.base.pending /\ row.mode = tick.base.mode /\ row.name = tick.base.name
          /\ row.content = tick.base.content /\ row.snapped = tick.base.snapped
          /\ row.gmt_deleted = tick.base.gmt_deleted
          /\ row.status = "cold" => tick.base.status = "cold"
          /\ tick.base.status = "cold" => row.mode = "standard_snapshot"
      BY <1>1, TickRow
    <3> QED BY <1>1, <1>2, <1>6, <2>1, <2>2, <3>1 DEF OnTick, Releasing
  <2>5. Binding'
    BY <1>1, <1>6 DEF Core, Binding
  <2>6. cr.st \in {"error", "ready", "stopping"}
    BY <1>0, <1>6 DEF Derived, ClusterTypes, CRs
  <2>7. used.faults = 0 => Fresh
    BY <1>2, <1>6, <2>6 DEF Core, Whereabouts
  <2>8. Whereabouts'
    BY <1>1, <1>6, <2>1, <2>7 DEF Core, Whereabouts, Fresh, Saved, Taking
  <2> QED BY <2>3, <2>4, <2>5, <2>8 DEF Core
<1> QED BY <1>3, <1>4, <1>5, <1>6 DEF Restore

\* The row is back on its disk, and the snapshot goes or is left behind, outdated.
LEMMA CompleteCore == ASSUME TypeOK, Core, ~doomed, RestoreComplete PROVE Core'
<1>0. DbTypes /\ ClusterTypes /\ used \in Counts
  BY TypeParts DEF ActorTypes
<1>1. /\ UNCHANGED <<cr, disk, newest, wk, doomed>>
      /\ tick.pc = "complete" /\ tick.pc # "idle" /\ Tick
  BY DEF RestoreComplete, usr, Tick
<1>2. /\ row.pending = "restoring" /\ row.mode = "standard_snapshot" /\ row.name
      /\ tick.obj.status \in {"ready", "stopped"}
      /\ tick.obj = [tick.base EXCEPT !.status = tick.obj.status]
  BY <1>1, TickRow DEF Core, OnTick, Binding, Releasing
<1>3. /\ tick.obj \in Rows /\ tick.obj.name = row.name /\ tick.obj.snapped = row.snapped
      /\ tick.obj.gmt_deleted = row.gmt_deleted
  <2> DEFINE b == tick.base
             f == [b EXCEPT !.status = tick.obj.status]
  <2>1. /\ b \in Rows /\ tick.obj.status \in SandboxStatus /\ row.name = b.name
        /\ row.snapped = b.snapped /\ row.gmt_deleted = b.gmt_deleted
    BY <1>1, <1>2, TickRow DEF SandboxStatus
  <2>2. f \in Rows /\ f.name = b.name /\ f.snapped = b.snapped /\ f.gmt_deleted = b.gmt_deleted
    BY <2>1, RestoredRow
  <2>3. tick.obj = f
    BY <1>2
  <2> HIDE DEF b, f
  <2> QED BY <2>1, <2>2, <2>3
<1> DEFINE o == [tick.obj EXCEPT !.pending = "none", !.mode = "live_disk",
                                 !.snapped = IF @ = "none" THEN @ ELSE "old"]
<1>4. (CleanupOk(o) /\ Commit(clear_snapshot_binding(o))) \/ (CleanupRaises(o) /\ Commit(o))
  BY DEF RestoreComplete
<1>5. o \in Rows /\ o.pending = "none" /\ o.mode = "live_disk" /\ o.name = row.name
      /\ o.snapped = (IF row.snapped = "none" THEN "none" ELSE "old")
      /\ o.gmt_deleted = row.gmt_deleted /\ o.status = tick.obj.status
  BY <1>3 DEF Rows
<1> HIDE DEF o
<1>6. /\ row'.pending = "none" /\ row'.mode = "live_disk"
      /\ \/ ~row'.name /\ row'.snapped = "none"
         \/ row'.name /\ row'.snapped = (IF row.snapped = "none" THEN "none" ELSE "old")
      /\ row'.gmt_deleted = row.gmt_deleted /\ tick'.pc = "idle"
      /\ row'.status = IF tick.obj.status # tick.base.status THEN tick.obj.status ELSE row.status
  <2>1. CASE Commit(o)
    <3>1. /\ row'.pending = "none" /\ row'.mode = "live_disk" /\ row'.name = o.name
          /\ row'.snapped = o.snapped /\ row'.gmt_deleted = row.gmt_deleted /\ tick'.pc = "idle"
          /\ row'.status = IF o.status # tick.base.status THEN o.status ELSE row.status
      BY <1>1, <1>5, <2>1, TickCommit
    <3>2. row'.name
      BY <1>2, <1>5, <3>1, Zenon
    <3> QED BY <1>5, <3>1, <3>2
  <2>2. CASE Commit(clear_snapshot_binding(o))
    <3> DEFINE c == clear_snapshot_binding(o)
    <3>1. c \in Rows /\ c.pending = "none" /\ c.mode = "live_disk" /\ c.name = FALSE /\ c.snapped = "none"
          /\ c.gmt_deleted = row.gmt_deleted /\ c.status = tick.obj.status
      BY <1>5 DEF clear_snapshot_binding, Rows
    <3>2. Commit(c)
      BY <2>2
    <3> HIDE DEF c
    <3> QED BY <1>1, <3>1, <3>2, TickCommit
  <2> QED BY <1>4, <2>1, <2>2
<1>7. row'.status \notin {"cold", "deleting", "deleted"}
  BY <1>1, <1>2, <1>6, TickRow
<1>8. (\A w \in Workers : Handler(w))'
  BY <1>1, <1>2, <1>6, MishapsGrow, HandlersWait
<1>9. OnTick'
  BY <1>6 DEF OnTick
<1>10. Binding'
  BY <1>1, <1>6, <1>7, TickRow DEF Binding
<1>11. used.faults = 0 => row.snapped = "new" /\ Fresh
  BY <1>1, <1>2 DEF Core, Whereabouts
<1>12. Whereabouts'
  BY <1>1, <1>6, <1>11, MishapsGrow DEF Whereabouts, Fresh, Taking
<1> QED BY <1>8, <1>9, <1>10, <1>12 DEF Core

\* A tick that is cut off leaves what it did to the cluster.
LEMMA CrashCore == ASSUME TypeOK, Core, ~doomed, TickCrash PROVE Core'
<1>0. DbTypes /\ ClusterTypes /\ used \in Counts
  BY TypeParts DEF ActorTypes
<1>1. /\ UNCHANGED <<row, ledger, cr, disk, newest, wk, doomed>>
      /\ tick.pc # "idle" /\ used'.faults = used.faults /\ used'.crashes > 0
  BY <1>0 DEF TickCrash, db, usr, Counts
<1>2. tick'.pc = "idle"
  BY <1>1, TickRow DEF TickCrash, Ticks
<1>3. (\A w \in Workers : Handler(w))'
  BY <1>1, TickRow, HandlersWait
<1>4. OnTick'
  BY <1>2 DEF OnTick
<1>5. Binding'
  BY <1>1 DEF Core, Binding
<1>6. ASSUME used.faults = 0 
      PROVE  \/ vs' = vs
             \/ /\ Fresh /\ ~(row.mode = "live_disk" /\ Taking)
                /\ row.mode = "standard_snapshot" => tick.pc = "complete"
  <2>1. CASE tick.pc = "post"
    BY <1>6, <2>1, TickRow DEF Core, OnTick, Whereabouts, Taking
  <2>2. CASE tick.pc = "stale"
    BY <1>6, <2>2, TickRow DEF Core, OnTick, Whereabouts, Taking, Stale
  <2>3. CASE tick.pc = "complete"
    BY <1>6, <2>3, TickRow DEF Core, OnTick, Binding, Whereabouts, Taking
  <2>4. CASE tick.pc = "undo"
    BY <1>6, <2>4 DEF Core, OnTick
  <2> QED BY <2>1, <2>2, <2>3, <2>4 DEF TickCrash
<1>7. ASSUME used.faults = 0, tick.pc = "complete" PROVE row.pending = "restoring"
  BY <1>1, <1>7, TickRow
<1>8. Whereabouts'
  BY <1>0, <1>1, <1>2, <1>6, <1>7 DEF Core, Whereabouts, Fresh, Saved, Taking
<1> QED BY <1>3, <1>4, <1>5, <1>8 DEF Core

-----------------------------------------------------------------------------
(* The theorems.                                                           *)

\* The invariant holds when requests come one after the other and no pod fails
\* before its disk is there.
LEMMA ColdInvariant ==
    ASSUME OneHandler, ~EarlyErrors
    PROVE  Spec => []ColdInv
<1>1. Init => ColdInv
  <2> SUFFICES ASSUME Init PROVE ColdInv
    OBVIOUS
  <2>1. TypeOK
    BY InitTypes
  <2>2. ASSUME NEW w \in Workers PROVE Handler(w)
    BY DEF Init, IdleWorker, Handler
  <2>3. OnTick /\ Binding /\ Whereabouts
    BY DEF Init, IdleTick, OnTick, Binding, Whereabouts, Taking, Fresh
  <2> QED BY <2>1, <2>2, <2>3 DEF ColdInv, Core
<1>2. ColdInv /\ [Next]_vars => ColdInv'
  <2> SUFFICES ASSUME TypeOK, Core, [Next]_vars PROVE TypeOK' /\ Core'
    BY DEF ColdInv
  <2>1. CASE UNCHANGED vars
    <3>1. TypeOK'
      BY <2>1 DEF TypeOK, vars
    <3>2. Core'
      BY <2>1 DEF Core, Handler, OnTick, Binding, Whereabouts, Fresh, Saved, Taking, vars
    <3> QED BY <3>1, <3>2
  <2>2. ASSUME NEW w \in Workers, Request(w) \/ \E op \in Ops : RequestRead(w, op) PROVE TypeOK' /\ Core'
    BY <2>2, RequestTypes, ReadCore, CommitCore, RunCore, SuspendCore, QueueCore, DeleteCore DEF Request
  <2>3. CASE Tick \/ TickCrash
    <3>1. TypeOK'
      BY <2>3, TickTypes
    <3>2. CASE doomed
      BY <2>3, <3>1, <3>2, TickDoomed
    <3>3. CASE ~doomed
      BY <2>3, <3>1, <3>3, LoadCore, StaleCore, AlreadyCore, CreateCore, PostCore, AwaitCore, ReleaseCore,
         UndoCore, CheckCore, RestoreCore, CompleteCore, CrashCore DEF Tick
    <3> QED BY <3>2, <3>3
  <2>4. CASE Sync
    BY <2>4, SyncTypes, SyncCore
  <2>5. CASE Controller \/ ControllerError \/ UserWrites
    BY <2>5, ClusterStepTypes, ClusterStepCore
  <2> QED BY <2>1, <2>2, <2>3, <2>4, <2>5 DEF Next
<1> QED BY <1>1, <1>2, PTL DEF Spec

\* The newest workspace survives every snapshot, restore and cut-off tick until
\* somebody asks to delete the sandbox or a Kubernetes call fails
\* (StorageSnapshotOrchestrator), when requests come one after the other and no
\* pod fails before its disk is there.
THEOREM WorkspaceSurvives ==
    ASSUME OneHandler, ~EarlyErrors
    PROVE  Spec => []WorkspaceKept
<1>1. ColdInv => WorkspaceKept
  <2> SUFFICES ASSUME TypeOK, Core, ~doomed, used.faults = 0
               PROVE  Fresh \/ Saved
    BY DEF ColdInv, WorkspaceKept, Fresh, Saved
  <2>1. row.mode \in {"live_disk", "standard_snapshot"} /\ row.pending \in {"none", "snapshotting", "restoring"}
    BY TypeParts DEF DbTypes, Rows
  <2> QED BY <2>1 DEF Core, Whereabouts, Saved
<1> QED BY <1>1, ColdInvariant, PTL

\* A sandbox that rests in cold storage is bound to a ready snapshot and not
\* billed for a disk, unless a tick was cut off and a call failed too
\* (_process_snapshotting, _fail_restore), under the same hypotheses.
THEOREM ColdBound ==
    ASSUME OneHandler, ~EarlyErrors
    PROVE  Spec => []ColdIsBound
<1>1. ColdInv => ColdIsBound
  BY DEF ColdInv, Core, Binding, Whereabouts, Saved, ColdIsBound, Cold
<1> QED BY <1>1, ColdInvariant, PTL

\* As long as no call fails, a cold sandbox has neither a CR nor a disk
\* (_release_live_workspace_assets), under the same hypotheses.
THEOREM ColdGone ==
    ASSUME OneHandler, ~EarlyErrors
    PROVE  Spec => []ColdReleased
<1>1. ColdInv => ColdReleased
  BY DEF ColdInv, Core, Binding, Whereabouts, ColdReleased, Cold
<1> QED BY <1>1, ColdInvariant, PTL
=============================================================================
