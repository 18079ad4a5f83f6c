------------------------ MODULE SandboxLifecycleProofs ------------------------
(***************************************************************************)
(* Theorems about SandboxLifecycle, for any number of workers and any      *)
(* bounds: its variables keep their types, and the row of a sandbox that   *)
(* exists is soft-deleted only after its CR is gone.                       *)
(***************************************************************************)
EXTENDS SandboxLifecycle, SequenceTheorems, TLAPS

-----------------------------------------------------------------------------
(* Types of the parts that several actions share.                          *)

K8sOK == cr \in CRs /\ k8sRv \in Nat /\ queue \in Seq(Events)

Calls == {"create", "Running", "Suspended", "delete"}

\* A status derived from a CR is one that a live row can have.
LEMMA DeriveType ==
    ASSUME NEW c \in CRs
    PROVE  derive_status_from_sandbox_cr(c) \in {"creating", "ready", "stopped", "error"}
BY DEF derive_status_from_sandbox_cr

\* A change of the CR leaves a CR, a resource version and typed Watch events.
LEMMA PutType ==
    ASSUME K8sOK, NEW c \in CRs, NEW type \in {"ADDED", "MODIFIED", "DELETED"}, Put(c, type)
    PROVE  K8sOK'
<1>1. k8sRv + 1 \in Nat
  BY DEF K8sOK
<1>2. [type |-> type, rv |-> k8sRv + 1, status |-> derive_status_from_sandbox_cr(c)] \in Events
  BY <1>1, DeriveType DEF Events, Live
<1>3. queue' \in Seq(Events)
  BY <1>2 DEF K8sOK, Put
<1>4. QED
  BY <1>1, <1>3 DEF K8sOK, Put

\* So does every call that a request or the tick makes.
LEMMA CallType ==
    ASSUME K8sOK, NEW call \in Calls, CallEffect(call)
    PROVE  K8sOK'
<1>1. CASE UNCHANGED k8s
  BY <1>1 DEF K8sOK, k8s
<1>2. CASE call = "create"
  <2>1. [phase |-> "live", mode |-> "Running", cond |-> "none"] \in CRs
    BY DEF CRs, Conds
  <2>2. Put([phase |-> "live", mode |-> "Running", cond |-> "none"], "ADDED")
    BY <1>2 DEF CallEffect
  <2>3. QED
    BY <2>1, <2>2, PutType
<1>3. CASE call \in {"Running", "Suspended"} /\ ~UNCHANGED k8s
  <2>1. [cr EXCEPT !.mode = call] \in CRs
    BY <1>3 DEF K8sOK, CRs
  <2>2. Put([cr EXCEPT !.mode = call], "MODIFIED")
    BY <1>3 DEF CallEffect
  <2>3. QED
    BY <2>1, <2>2, PutType
<1>4. CASE call = "delete" /\ ~UNCHANGED k8s
  <2>1. [cr EXCEPT !.phase = "terminating"] \in CRs
    BY DEF K8sOK, CRs
  <2>2. Put([cr EXCEPT !.phase = "terminating"], "MODIFIED")
    BY <1>4 DEF CallEffect
  <2>3. QED
    BY <2>1, <2>2, PutType
<1>5. QED
  BY <1>1, <1>2, <1>3, <1>4 DEF Calls

-----------------------------------------------------------------------------
(* TypeOK by the parts that actions leave alone or change together.        *)

DbOK == row \in Rows /\ session \in BOOLEAN /\ ledger \in BOOLEAN

LoopOK ==
    /\ sync \in {"down", "relisted", "watching"}
    /\ watch \in [pc: {"idle", "apply"}, ev: Events, snap: Rows]
    /\ rec \in [pc: {"idle", "listed", "loaded", "compute", "open", "close", "storage"},
                cr: CRs, rv: Nat, snap: Rows]

WorkersOK ==
    /\ wk \in [Workers -> Requests]
    /\ \A w \in Workers : /\ wk[w].pc = "commit" => wk[w].op \in Ops
                          /\ wk[w].pc = "call" => wk[w].op # "none"

TickOK ==
    /\ tick \in [pc: {"idle", "call", "commit"}, op: {"none", "auto_stop", "auto_delete"}, version: Nat]
    /\ tick.pc = "call" => tick.op # "none"

UsedOK == used \in [ops: Nat, ticks: Nat, faults: Nat, mishaps: Nat]

LEMMA TypeParts == TypeOK <=> DbOK /\ K8sOK /\ LoopOK /\ WorkersOK /\ TickOK /\ UsedOK
BY DEF TypeOK, DbOK, K8sOK, LoopOK, WorkersOK, TickOK, UsedOK

LEMMA TypePartsNext ==
    TypeOK' <=> DbOK' /\ K8sOK' /\ LoopOK' /\ WorkersOK' /\ TickOK' /\ UsedOK'
BY DEF TypeOK, DbOK, K8sOK, LoopOK, WorkersOK, TickOK, UsedOK

\* What a step leaves alone keeps its type.
LEMMA Frames ==
    /\ DbOK /\ UNCHANGED db => DbOK'
    /\ K8sOK /\ UNCHANGED k8s => K8sOK'
    /\ LoopOK /\ UNCHANGED loop => LoopOK'
    /\ WorkersOK /\ UNCHANGED wk => WorkersOK'
    /\ TickOK /\ UNCHANGED tick => TickOK'
    /\ UsedOK /\ UNCHANGED used => UsedOK'
BY DEF DbOK, K8sOK, LoopOK, WorkersOK, TickOK, UsedOK, db, k8s, loop

\* A bound that is spent stays a number.
LEMMA UsedType ==
    ASSUME UsedOK,
           \/ UNCHANGED used
           \/ used' = [used EXCEPT !.ops = @ + 1]
           \/ used' = [used EXCEPT !.ticks = @ + 1]
           \/ used' = [used EXCEPT !.faults = @ + 1]
           \/ used' = [used EXCEPT !.mishaps = @ + 1]
    PROVE  UsedOK'
BY DEF UsedOK

\* The constants that idle actors and missing objects are made of.
LEMMA ConstantTypes ==
    /\ NoRow \in Rows /\ NoCR \in CRs /\ NoEvent \in Events /\ IdleWorker \in Requests
    /\ IdleTick \in [pc: {"idle", "call", "commit"}, op: {"none", "auto_stop", "auto_delete"}, version: Nat]
    /\ IdleWatch \in [pc: {"idle", "apply"}, ev: Events, snap: Rows]
    /\ IdleRec \in [pc: {"idle", "listed", "loaded", "compute", "open", "close", "storage"},
                    cr: CRs, rv: Nat, snap: Rows]
<1>1. NoRow \in Rows /\ NoCR \in CRs /\ NoEvent \in Events /\ IdleWorker \in Requests
  BY DEF NoRow, Rows, SandboxStatus, Live, NoCR, CRs, Conds, NoEvent, Events, IdleWorker, Requests
<1>2. QED
  BY <1>1 DEF IdleTick, IdleWatch, IdleRec

\* A request that moves on to a step after its Kubernetes call, or ends.
LEMMA GotoType ==
    ASSUME WorkersOK, NEW w \in Workers,
           NEW pc \in {"idle", "fail", "ledger", "close", "get", "fast"}, Goto(w, pc)
    PROVE  WorkersOK'
<1> DEFINE r == IF pc = "idle" THEN IdleWorker ELSE [wk[w] EXCEPT !.pc = pc]
<1>1. r \in Requests /\ r.pc \notin {"commit", "call"}
  BY ConstantTypes DEF WorkersOK, Requests, IdleWorker
<1>2. wk' = [wk EXCEPT ![w] = r]
  BY DEF Goto
<1> HIDE DEF r
<1>3. QED
  BY <1>1, <1>2 DEF WorkersOK

\* The writes of the row.
LEMMA OrmWriteType ==
    ASSUME NEW r \in Rows, NEW status \in SandboxStatus, NEW read \in Nat
    PROVE  OrmWrite(r, status, read) \in Rows
<1> DEFINE r1 == [r EXCEPT !.status = status]
<1>1. r1 \in Rows
  BY DEF Rows
<1>2. [r1 EXCEPT !.version = read + 1] \in Rows
  <2> HIDE DEF r1
  <2> QED BY <1>1 DEF Rows
<1>3. QED
  BY <1>2 DEF OrmWrite

LEMMA SyncWriteType ==
    ASSUME DbOK, NEW snap \in Rows, NEW status \in SandboxStatus, NEW rv \in Nat
    PROVE  /\ OptimisticUpdate(snap, status, rv) \in Rows
           /\ SyncMetadata(row, rv) \in Rows
           /\ DeleteRow(row) \in Rows
<1>1. OptimisticUpdate(snap, status, rv) \in Rows
  <2> DEFINE r == OrmWrite(row, status, snap.version)
  <2>1. r \in Rows
    BY OrmWriteType DEF DbOK, Rows
  <2>2. [r EXCEPT !.rv = rv] \in Rows
    <3> HIDE DEF r
    <3> QED BY <2>1 DEF Rows
  <2>3. QED
    BY <2>2 DEF OptimisticUpdate, OrmWrite, DbOK
<1>2. SyncMetadata(row, rv) \in Rows
  BY DEF DbOK, SyncMetadata, Rows
<1>3. DeleteRow(row) \in Rows
  BY DEF DbOK, DeleteRow, Rows, SandboxStatus
<1>4. QED
  BY <1>1, <1>2, <1>3

\* The metering observers leave two flags and a count.
LEMMA ObserversType ==
    ASSUME DbOK, UsedOK, NEW s \in BOOLEAN, NEW l \in BOOLEAN, Observers(s, l)
    PROVE  session' \in BOOLEAN /\ ledger' \in BOOLEAN /\ UsedOK'
BY UsedType DEF DbOK, Observers

LEMMA ApplyStatusType ==
    ASSUME DbOK, UsedOK, NEW snap \in Rows, NEW status \in SandboxStatus, NEW rv \in Nat,
           ApplyStatus(snap, status, rv)
    PROVE  DbOK' /\ UsedOK'
<1>1. row' \in Rows
  BY SyncWriteType DEF ApplyStatus
<1>2. SessionAfter(snap.status, status) \in BOOLEAN
  BY DEF SessionAfter, DbOK
<1>3. session' \in BOOLEAN /\ ledger' \in BOOLEAN /\ UsedOK'
  BY <1>2, ObserversType, UsedType DEF ApplyStatus, DbOK
<1>4. QED
  BY <1>1, <1>3 DEF DbOK

LEMMA ApplyDeletedType ==
    ASSUME DbOK, UsedOK, ApplyDeleted
    PROVE  DbOK' /\ UsedOK'
<1>1. row' \in Rows
  BY SyncWriteType, ConstantTypes DEF ApplyDeleted, DbOK, SandboxStatus
<1>2. (IF Persist THEN FALSE ELSE ledger) \in BOOLEAN
  BY DEF DbOK
<1>3. session' \in BOOLEAN /\ ledger' \in BOOLEAN /\ UsedOK'
  BY <1>2, ObserversType DEF ApplyDeleted
<1>4. QED
  BY <1>1, <1>3 DEF DbOK

-----------------------------------------------------------------------------
(* Each action keeps the types.                                            *)

\* The steps of a request.
LEMMA WorkerType ==
    ASSUME TypeOK, NEW w \in Workers, Worker(w) \/ WorkerCrash(w) \/ \E op \in Ops : RequestRead(w, op)
    PROVE  TypeOK'
<1> USE TypeParts, TypePartsNext, Frames
<1> wk[w] \in Requests /\ wk[w].version \in Nat /\ row.version \in Nat
  BY DEF WorkersOK, Requests, DbOK, Rows
<1>1. CASE CreatePersist(w)
  <2>1. DbOK'
    <3>1. row' = OrmWrite(row, "creating", 0)
      BY <1>1 DEF CreatePersist, OrmWrite
    <3>2. row' \in Rows
      BY <3>1, OrmWriteType DEF DbOK, SandboxStatus, Live
    <3>3. QED
      BY <1>1, <3>2 DEF DbOK, CreatePersist
  <2>2. WorkersOK'
    <3> DEFINE r == [pc |-> "call", op |-> "create", version |-> 1, rv |-> 0]
    <3>1. r \in Requests /\ r.pc = "call" /\ r.op = "create"
      BY DEF Requests
    <3>2. wk' = [wk EXCEPT ![w] = r]
      BY <1>1 DEF CreatePersist
    <3> HIDE DEF r
    <3>3. QED
      BY <3>1, <3>2 DEF WorkersOK
  <2>3. QED
    BY <1>1, <2>1, <2>2 DEF CreatePersist
<1>2. ASSUME NEW op \in Ops, RequestRead(w, op)
      PROVE  TypeOK'
  <2>1. WorkersOK'
    <3> DEFINE r == [pc |-> "commit", op |-> op, version |-> row.version, rv |-> 0]
    <3>1. r \in Requests /\ r.pc = "commit" /\ r.op \in Ops
      BY DEF Requests
    <3>2. wk' = [wk EXCEPT ![w] = r]
      BY <1>2 DEF RequestRead
    <3> HIDE DEF r
    <3>3. QED
      BY <3>1, <3>2 DEF WorkersOK
  <2>2. UsedOK'
    BY <1>2, UsedType DEF RequestRead
  <2>3. QED
    BY <1>2, <2>1, <2>2 DEF RequestRead
<1>3. CASE RequestCommit(w)
  <2>1. CASE row.status = "absent"
    <3>1. WorkersOK'
      BY <1>3, <2>1, GotoType DEF RequestCommit
    <3>2. DbOK'
      BY <1>3, <2>1 DEF RequestCommit, DbOK
    <3>3. QED
      BY <1>3, <3>1, <3>2 DEF RequestCommit
  <2>2. CASE row.status # "absent"
    <3>1. wk[w].op \in Ops
      BY <1>3 DEF WorkersOK, RequestCommit
    <3>2. FirstStatus[wk[w].op] \in SandboxStatus
      BY <3>1 DEF Ops, FirstStatus, SandboxStatus, Live
    <3>3. DbOK'
      BY <1>3, <2>2, <3>2, OrmWriteType DEF RequestCommit, DbOK
    <3>4. WorkersOK'
      <4> DEFINE q == [wk[w] EXCEPT !.pc = "call"]
                 r == [q EXCEPT !.version = wk[w].version + 1]
      <4>1. r \in Requests /\ r.pc = "call" /\ r.op \in Ops
        <5>1. q \in Requests /\ q.pc = "call" /\ q.op \in Ops
          BY <3>1 DEF Requests
        <5> HIDE DEF q
        <5>2. QED
          BY <5>1 DEF Requests
      <4>2. wk' = [wk EXCEPT ![w] = r]
        BY <1>3, <2>2 DEF RequestCommit, WorkersOK
      <4> HIDE DEF r
      <4>3. QED
        BY <4>1, <4>2 DEF WorkersOK, Ops
    <3>5. QED
      BY <1>3, <3>3, <3>4 DEF RequestCommit
  <2>3. QED
    BY <2>1, <2>2
<1>4. ASSUME wk[w].pc = "call"
      PROVE  K8sCall[wk[w].op] \in Calls /\ AfterCall(wk[w].op) \in {"ledger", "idle", "get", "close"}
  <2>1. wk[w].op \in {"create", "start", "stop", "delete"}
    BY <1>4 DEF WorkersOK, Requests, Ops
  <2>2. QED
    BY <2>1 DEF K8sCall, Calls, AfterCall
<1>5. CASE RequestCallOk(w)
  <2>1. K8sOK'
    BY <1>4, <1>5, CallType DEF RequestCallOk
  <2>2. WorkersOK'
    BY <1>4, <1>5, GotoType DEF RequestCallOk
  <2>3. QED
    BY <1>5, <2>1, <2>2 DEF RequestCallOk
<1>6. CASE RequestCallFails(w)
  <2>1. K8sOK'
    BY <1>4, <1>6, CallType DEF RequestCallFails, k8s
  <2>2. WorkersOK'
    BY <1>6, GotoType DEF RequestCallFails
  <2>3. UsedOK'
    BY <1>6, UsedType DEF RequestCallFails
  <2>4. QED
    BY <1>6, <2>1, <2>2, <2>3 DEF RequestCallFails
<1>7. CASE RequestFail(w)
  <2>1. DbOK'
    BY <1>7, OrmWriteType DEF RequestFail, DbOK, SandboxStatus, Live
  <2>2. WorkersOK'
    BY <1>7, GotoType DEF RequestFail
  <2>3. QED
    BY <1>7, <2>1, <2>2 DEF RequestFail
<1>8. CASE CreateTemplateGone(w)
  <2>1. DbOK'
    BY <1>8 DEF CreateTemplateGone, DbOK, Rows, SandboxStatus
  <2>2. WorkersOK'
    BY <1>8, GotoType DEF CreateTemplateGone
  <2>3. UsedOK'
    BY <1>8, UsedType DEF CreateTemplateGone
  <2>4. QED
    BY <1>8, <2>1, <2>2, <2>3 DEF CreateTemplateGone
<1>9. CASE CreateRecordMetering(w)
  <2>1. DbOK'
    BY <1>9 DEF CreateRecordMetering, DbOK
  <2>2. WorkersOK'
    BY <1>9, GotoType DEF CreateRecordMetering
  <2>3. UsedOK'
    BY <1>9, UsedType DEF CreateRecordMetering
  <2>4. QED
    BY <1>9, <2>1, <2>2, <2>3 DEF CreateRecordMetering
<1>10. CASE StopCloseSession(w)
  <2>1. DbOK'
    BY <1>10 DEF StopCloseSession, DbOK
  <2>2. WorkersOK'
    BY <1>10, GotoType DEF StopCloseSession
  <2>3. UsedOK'
    BY <1>10, UsedType DEF StopCloseSession
  <2>4. QED
    BY <1>10, <2>1, <2>2, <2>3 DEF StopCloseSession
<1>11. CASE StartGet(w)
  <2>1. CASE Goto(w, "idle")
    <3>1. WorkersOK'
      BY <2>1, GotoType
    <3>2. QED
      BY <1>11, <3>1 DEF StartGet
  <2>2. CASE wk' = [wk EXCEPT ![w].pc = "fast", ![w].rv = k8sRv]
    <3> DEFINE r == [wk[w] EXCEPT !.pc = "fast", !.rv = k8sRv]
    <3>1. r \in Requests /\ r.pc = "fast"
      BY DEF Requests, K8sOK
    <3>2. wk' = [wk EXCEPT ![w] = r]
      BY <2>2 DEF WorkersOK
    <3>3. WorkersOK'
      <4> HIDE DEF r
      <4> QED BY <3>1, <3>2 DEF WorkersOK
    <3>4. QED
      BY <1>11, <3>3 DEF StartGet
  <2>3. QED
    BY <1>11, <2>1, <2>2 DEF StartGet
<1>12. CASE StartFastReady(w)
  <2>1. DbOK'
    <3> DEFINE r == OrmWrite(row, "ready", wk[w].version)
    <3>1. r \in Rows
      BY OrmWriteType DEF DbOK, SandboxStatus, Live
    <3>2. [r EXCEPT !.rv = wk[w].rv] \in Rows
      <4> HIDE DEF r
      <4> QED BY <3>1 DEF Rows, Requests
    <3>3. QED
      BY <1>12, <3>2 DEF StartFastReady, DbOK
  <2>2. WorkersOK'
    BY <1>12, GotoType DEF StartFastReady
  <2>3. QED
    BY <1>12, <2>1, <2>2 DEF StartFastReady
<1>13. CASE WorkerCrash(w)
  <2>1. WorkersOK'
    BY <1>13, GotoType DEF WorkerCrash
  <2>2. UsedOK'
    BY <1>13, UsedType DEF WorkerCrash
  <2>3. QED
    BY <1>13, <2>1, <2>2 DEF WorkerCrash
<1>14. QED
  BY <1>1, <1>2, <1>3, <1>5, <1>6, <1>7, <1>8, <1>9, <1>10, <1>11, <1>12, <1>13 DEF Worker

\* The steps of the lifecycle tick.
LEMMA TickType ==
    ASSUME TypeOK, Tick \/ \E op \in {"auto_stop", "auto_delete"} : TickSelect(op)
    PROVE  TypeOK'
<1> USE TypeParts, TypePartsNext, Frames, ConstantTypes
<1> row.version \in Nat /\ tick.version \in Nat
  BY DEF DbOK, Rows, TickOK
<1>1. ASSUME NEW op \in {"auto_stop", "auto_delete"}, TickSelect(op)
      PROVE  TypeOK'
  <2>1. TickOK' /\ UsedOK'
    BY <1>1, UsedType DEF TickSelect, TickOK
  <2>2. QED
    BY <1>1, <2>1 DEF TickSelect
<1>2. CASE TickCallK8s
  <2>1. TickCall[tick.op] \in Calls
    BY <1>2 DEF TickCallK8s, TickOK, TickCall, Calls
  <2>2. K8sOK'
    BY <1>2, <2>1, CallType DEF TickCallK8s, k8s
  <2>3. TickOK'
    BY <1>2 DEF TickCallK8s, TickOK, IdleTick
  <2>4. UsedOK'
    BY <1>2, UsedType DEF TickCallK8s
  <2>5. QED
    BY <1>2, <2>2, <2>3, <2>4 DEF TickCallK8s
<1>3. CASE TickCommit
  <2>1. DbOK'
    <3>1. /\ OrmWrite(row, "stopped", tick.version) \in Rows
          /\ OrmWrite(row, "deleting", tick.version) \in Rows
      BY OrmWriteType DEF DbOK, SandboxStatus, Live
    <3>2. row' \in Rows
      BY <1>3, <3>1 DEF TickCommit, DbOK
    <3>3. session' \in BOOLEAN /\ ledger' \in BOOLEAN
      BY <1>3 DEF TickCommit, DbOK
    <3>4. QED
      BY <3>2, <3>3 DEF DbOK
  <2>2. TickOK'
    BY <1>3 DEF TickCommit, TickOK, IdleTick
  <2>3. QED
    BY <1>3, <2>1, <2>2 DEF TickCommit
<1>4. QED
  BY <1>1, <1>2, <1>3 DEF Tick

\* What the controller, or somebody else, does to the CR.
LEMMA ControllerType ==
    ASSUME TypeOK, ControllerConverge \/ ControllerDisturb \/ ControllerRemove \/ ForeignDelete
    PROVE  TypeOK'
<1> USE TypeParts, TypePartsNext, Frames
<1>1. K8sOK'
  <2>1. \E c \in CRs, type \in {"ADDED", "MODIFIED", "DELETED"} : Put(c, type)
    <3>1. /\ \A cond \in Conds : [cr EXCEPT !.cond = cond] \in CRs
          /\ [cr EXCEPT !.phase = "terminating"] \in CRs
      BY DEF K8sOK, CRs
    <3>2. CASE ControllerConverge
      BY <3>1, <3>2 DEF ControllerConverge, Conds
    <3>3. CASE ControllerDisturb
      BY <3>1, <3>3 DEF ControllerDisturb, Conds
    <3>4. CASE ControllerRemove
      BY <3>4, ConstantTypes DEF ControllerRemove
    <3>5. CASE ForeignDelete
      BY <3>1, <3>5 DEF ForeignDelete
    <3>6. QED
      BY <3>2, <3>3, <3>4, <3>5
  <2>2. QED
    BY <2>1, PutType
<1>2. UsedOK'
  BY UsedType DEF ControllerConverge, ControllerDisturb, ControllerRemove, ForeignDelete
<1>3. QED
  BY <1>1, <1>2 DEF ControllerConverge, ControllerDisturb, ControllerRemove, ForeignDelete

\* The steps of the Watch handler.
LEMMA WatchType ==
    ASSUME TypeOK, Watch
    PROVE  TypeOK'
<1> USE TypeParts, TypePartsNext, Frames, ConstantTypes
<1>1. CASE WatchLoad
  <2>1. Head(queue) \in Events /\ Tail(queue) \in Seq(Events)
    BY <1>1 DEF WatchLoad, K8sOK
  <2>2. K8sOK'
    BY <1>1, <2>1 DEF WatchLoad, K8sOK
  <2>3. LoopOK'
    BY <1>1, <2>1 DEF WatchLoad, LoopOK, DbOK
  <2>4. QED
    BY <1>1, <2>2, <2>3 DEF WatchLoad
<1>2. CASE WatchApply
  <2> DEFINE snap == watch.snap
             ev == watch.ev
  <2>1. snap \in Rows /\ ev.rv \in Nat /\ ev.status \in SandboxStatus
    BY DEF LoopOK, Events, SandboxStatus
  <2>2. DbOK' /\ UsedOK'
    <3> HIDE DEF snap, ev
    <3>1. CASE UNCHANGED db
      BY <1>2, <3>1, UsedType DEF WatchApply, WatchDeleted, WatchChanged, ApplyDeleted, ApplyStatus,
                                  Observers
    <3>2. CASE WatchDeleted(snap, ev)
      <4>1. CASE snap.status = "deleting"
        BY <3>2, <4>1, ApplyDeletedType DEF WatchDeleted
      <4>2. CASE snap.status # "deleting"
        <5>1. row' \in Rows
          <6>1. row' = OptimisticUpdate(snap, "error", ev.rv)
            BY <3>2, <4>2 DEF WatchDeleted
          <6>2. "error" \in SandboxStatus
            BY DEF SandboxStatus, Live
          <6>3. QED
            BY <2>1, <6>1, <6>2, SyncWriteType
        <5>2. (IF Persist THEN FALSE ELSE ledger) \in BOOLEAN
          BY DEF DbOK
        <5>3. session' \in BOOLEAN /\ ledger' \in BOOLEAN /\ UsedOK'
          BY <3>2, <4>2, <5>2, ObserversType, UsedType DEF WatchDeleted, DbOK
        <5>4. QED
          BY <5>1, <5>3 DEF DbOK
      <4>3. QED
        BY <4>1, <4>2
    <3>3. CASE WatchChanged(snap, ev)
      <4>1. CASE ev.status = snap.status
        BY <2>1, <3>3, <4>1, SyncWriteType DEF WatchChanged, DbOK, UsedOK
      <4>2. CASE ev.status # snap.status
        BY <2>1, <3>3, <4>2, ApplyStatusType DEF WatchChanged
      <4>3. QED
        BY <4>1, <4>2
    <3>4. QED
      BY <1>2, <3>1, <3>2, <3>3 DEF WatchApply, snap, ev
  <2>3. LoopOK'
    BY <1>2 DEF WatchApply, LoopOK
  <2>4. QED
    BY <1>2, <2>2, <2>3 DEF WatchApply
<1>3. QED
  BY <1>1, <1>2 DEF Watch

\* The steps of reconcile, and the end of a round or of the stream.
LEMMA ReconcileType ==
    ASSUME TypeOK, Reconcile \/ ReconcileFails \/ WatchDrop
    PROVE  TypeOK'
<1> USE TypeParts, TypePartsNext, Frames, ConstantTypes
<1> DEFINE RecRecords == [pc: {"idle", "listed", "loaded", "compute", "open", "close", "storage"},
                          cr: CRs, rv: Nat, snap: Rows]
<1>0. <<>> \in Seq(Events)
  OBVIOUS
<1>1. CASE RecList
  <2>1. rec' \in RecRecords
    BY <1>1 DEF RecList, K8sOK, IdleRec
  <2>2. LoopOK' /\ K8sOK'
    BY <1>0, <1>1, <2>1 DEF RecList, LoopOK, K8sOK
  <2>3. QED
    BY <1>1, <2>2 DEF RecList
<1>2. CASE RecLoad
  <2>1. rec' \in RecRecords
    BY <1>2 DEF RecLoad, LoopOK, DbOK, IdleRec
  <2>2. LoopOK'
    BY <1>2, <2>1 DEF RecLoad, LoopOK
  <2>3. QED
    BY <1>2, <2>2 DEF RecLoad
<1>3. CASE RecApply
  <2> DEFINE snap == rec.snap
             status == derive_status_from_sandbox_cr(rec.cr)
  <2>1. snap \in Rows /\ rec.rv \in Nat /\ status \in SandboxStatus
    BY DeriveType DEF LoopOK, SandboxStatus, Live
  <2>2. DbOK' /\ UsedOK'
    <3> HIDE DEF snap, status
    <3>1. CASE UNCHANGED <<db, used>>
      BY <3>1
    <3>2. CASE RecMissing(snap)
      BY <3>1, <3>2, ApplyDeletedType DEF RecMissing
    <3>3. CASE RecPresent(snap, status)
      <4>1. CASE ApplyStatus(snap, status, rec.rv)
        BY <2>1, <4>1, ApplyStatusType
      <4>2. CASE /\ row' = IF rec.rv # snap.rv THEN SyncMetadata(row, rec.rv) ELSE row
                 /\ UNCHANGED <<session, ledger, used>>
        BY <2>1, <4>2, SyncWriteType DEF DbOK, UsedOK
      <4>3. QED
        BY <3>1, <3>3, <4>1, <4>2 DEF RecPresent
    <3>4. QED
      BY <1>3, <3>2, <3>3 DEF RecApply, snap, status
  <2>3. LoopOK'
    <3>1. rec' \in RecRecords
      BY <1>3 DEF RecApply, IdleRec
    <3>2. QED
      BY <1>3, <3>1 DEF RecApply, LoopOK
  <2>4. QED
    BY <1>3, <2>2, <2>3 DEF RecApply
<1>4. CASE HookLoad
  <2>1. rec' \in RecRecords
    BY <1>4 DEF HookLoad, LoopOK
  <2>2. LoopOK'
    BY <1>4, <2>1 DEF HookLoad, LoopOK
  <2>3. QED
    BY <1>4, <2>2 DEF HookLoad
<1>5. CASE HookCompute
  <2>1. rec' \in RecRecords
    BY <1>5 DEF HookCompute, IdleRec
  <2>2. LoopOK' /\ DbOK' /\ UsedOK'
    BY <1>5, <2>1, UsedType DEF HookCompute, LoopOK, DbOK
  <2>3. QED
    BY <1>5, <2>2 DEF HookCompute
<1>6. CASE HookStorage
  BY <1>6, UsedType DEF HookStorage, LoopOK, DbOK
<1>7. CASE ReconcileFails
  BY <1>0, <1>7, UsedType DEF ReconcileFails, LoopOK, K8sOK
<1>8. CASE WatchDrop
  BY <1>0, <1>8, UsedType DEF WatchDrop, LoopOK, K8sOK
<1>9. QED
  BY <1>1, <1>2, <1>3, <1>4, <1>5, <1>6, <1>7, <1>8 DEF Reconcile

LEMMA TypeInit == Init => TypeOK
<1> SUFFICES ASSUME Init PROVE TypeOK
  OBVIOUS
<1>1. DbOK
  <2>1. [status |-> "ready", version |-> 2, rv |-> 2, gmt_deleted |-> FALSE] \in Rows
    BY DEF Rows, SandboxStatus, Live
  <2>2. row \in Rows
    BY <2>1, ConstantTypes DEF Init
  <2>3. Persist \in BOOLEAN
    BY LifecycleAssumption
  <2>4. session \in BOOLEAN /\ ledger \in BOOLEAN
    BY <2>3 DEF Init
  <2>5. QED
    BY <2>2, <2>4 DEF DbOK
<1>2. K8sOK
  BY ConstantTypes DEF Init, K8sOK, CRs, Conds
<1>3. LoopOK /\ UsedOK
  BY ConstantTypes DEF Init, LoopOK, UsedOK
<1>4. WorkersOK
  BY ConstantTypes DEF Init, WorkersOK, IdleWorker
<1>5. TickOK
  BY ConstantTypes DEF Init, TickOK, IdleTick
<1>6. QED
  BY <1>1, <1>2, <1>3, <1>4, <1>5, TypeParts

LEMMA TypeStep == TypeOK /\ [Next]_vars => TypeOK'
<1> SUFFICES ASSUME TypeOK, [Next]_vars PROVE TypeOK'
  OBVIOUS
<1>1. CASE Next
  BY <1>1, WorkerType, TickType, ControllerType, WatchType, ReconcileType DEF Next
<1>2. CASE UNCHANGED vars
  BY <1>2, TypeParts, TypePartsNext, Frames DEF vars, db, k8s, loop
<1>3. QED
  BY <1>1, <1>2

\* Every variable of the lifecycle keeps its type; in particular no interleaving
\* of requests, tick, Watch and reconcile stores a status the code does not know.
THEOREM LifecycleTypes == Spec => []TypeOK
BY TypeInit, TypeStep, PTL DEF Spec

-----------------------------------------------------------------------------
(* A row outlives its CR.  Once the create is over no request can bring a  *)
(* CR back, so whatever says that the CR is gone stays true until it is    *)
(* used: a DELETED event in the queue or in the handler, and a LIST.  The  *)
(* premise ~Fresh is needed: a LIST from before the create's POST says     *)
(* "gone" of a CR that is about to appear (run lifecycle_orphan).          *)

CRGone == cr.phase = "absent"

Told(q) == \A i \in 1..Len(q) : q[i].type = "DELETED" => CRGone

GInv ==
    /\ TypeOK
    /\ row.version > 0
    /\ \A w \in Workers : wk[w].op # "create"
    /\ Told(queue)
    /\ watch.ev.type = "DELETED" => CRGone
    /\ rec.pc \in {"listed", "loaded"} /\ rec.cr.phase = "absent" => CRGone
    /\ row.gmt_deleted => CRGone

\* A change of a CR that exists, told as a deletion only when it is one.
Change ==
    \E c \in CRs, type \in {"ADDED", "MODIFIED", "DELETED"} :
        Put(c, type) /\ ~CRGone /\ (type = "DELETED" => c.phase = "absent")

\* Nothing but the create's POST changes a CR that is gone.
LEMMA CallIsChange ==
    ASSUME K8sOK, NEW call \in Calls \ {"create"}, CallPossible(call), CallEffect(call)
    PROVE  UNCHANGED k8s \/ Change
<1>1. ~CRGone
  BY DEF CallPossible, CRGone
<1>2. CASE call \in {"Running", "Suspended"} /\ ~UNCHANGED k8s
  <2>1. [cr EXCEPT !.mode = call] \in CRs
    BY <1>2 DEF K8sOK, CRs
  <2>2. Put([cr EXCEPT !.mode = call], "MODIFIED")
    BY <1>2 DEF CallEffect
  <2>3. QED
    BY <1>1, <2>1, <2>2 DEF Change
<1>3. CASE call = "delete" /\ ~UNCHANGED k8s
  <2>1. [cr EXCEPT !.phase = "terminating"] \in CRs
    BY DEF K8sOK, CRs
  <2>2. Put([cr EXCEPT !.phase = "terminating"], "MODIFIED")
    BY <1>3 DEF CallEffect
  <2>3. QED
    BY <1>1, <2>1, <2>2 DEF Change
<1>4. QED
  BY <1>2, <1>3 DEF Calls

\* What has been told stays true when the CR changes.
LEMMA ChangeTold ==
    ASSUME GInv, UNCHANGED k8s \/ Change
    PROVE  Told(queue)' /\ (CRGone => CRGone')
<1>0. queue \in Seq(Events) /\ Told(queue)
  BY DEF GInv, TypeOK
<1>1. CASE UNCHANGED k8s
  BY <1>0, <1>1 DEF k8s, Told, CRGone
<1>2. CASE Change
  <2>1. PICK c \in CRs, type \in {"ADDED", "MODIFIED", "DELETED"} :
            Put(c, type) /\ ~CRGone /\ (type = "DELETED" => c.phase = "absent")
    BY <1>2 DEF Change
  <2> DEFINE e == [type |-> type, rv |-> k8sRv + 1, status |-> derive_status_from_sandbox_cr(c)]
  <2>2. e.type = "DELETED" => CRGone'
    BY <2>1 DEF Put, CRGone
  <2>3. queue' = queue \/ queue' = Append(queue, e)
    BY <2>1 DEF Put
  <2> HIDE DEF e
  <2>4. CASE queue' = queue
    BY <1>0, <2>1, <2>4 DEF Told
  <2>5. CASE queue' = Append(queue, e)
    <3>1. Len(queue') = Len(queue) + 1 /\ Len(queue) \in Nat
      BY <1>0, <2>5
    <3>2. ASSUME NEW i \in 1..Len(queue'), queue'[i].type = "DELETED"
          PROVE  CRGone'
      <4>1. CASE i \in 1..Len(queue)
        BY <1>0, <2>1, <2>5, <3>2, <4>1 DEF Told
      <4>2. CASE i = Len(queue) + 1
        BY <1>0, <2>2, <2>5, <3>2, <4>2
      <4>3. QED
        BY <3>1, <4>1, <4>2
    <3>3. QED
      BY <2>1, <3>2 DEF Told
  <2>6. QED
    BY <2>1, <2>3, <2>4, <2>5
<1>3. QED
  BY <1>1, <1>2

\* The rows that the writers leave keep a version and, unless the CR is known to
\* be gone, are not soft-deleted by them.
LEMMA OrmKeeps ==
    ASSUME NEW r \in Rows, NEW status \in SandboxStatus, NEW read \in Nat
    PROVE  /\ OrmWrite(r, status, read).version > 0
           /\ OrmWrite(r, status, read).gmt_deleted = r.gmt_deleted
<1>1. OrmWrite(r, status, read).version = read + 1
  BY DEF OrmWrite, Rows
<1>2. OrmWrite(r, status, read).gmt_deleted = r.gmt_deleted
  BY DEF OrmWrite, Rows
<1>3. QED
  BY <1>1, <1>2

LEMMA SyncKeeps ==
    ASSUME TypeOK, row.version > 0, NEW snap \in Rows, NEW status \in SandboxStatus, NEW rv \in Nat
    PROVE  /\ OptimisticUpdate(snap, status, rv).version > 0
           /\ OptimisticUpdate(snap, status, rv).gmt_deleted = row.gmt_deleted
           /\ SyncMetadata(row, rv).version > 0
           /\ SyncMetadata(row, rv).gmt_deleted = row.gmt_deleted
           /\ DeleteRow(row).version > 0
<1>0. row \in Rows /\ snap.version \in Nat
  BY DEF TypeOK, Rows
<1>1. /\ OptimisticUpdate(snap, status, rv).version > 0
      /\ OptimisticUpdate(snap, status, rv).gmt_deleted = row.gmt_deleted
  <2>1. CASE row.version # snap.version
    BY <2>1 DEF OptimisticUpdate
  <2>2. CASE row.version = snap.version
    <3>1. OptimisticUpdate(snap, status, rv).version = snap.version + 1
      BY <1>0, <2>2 DEF OptimisticUpdate, Rows
    <3>2. OptimisticUpdate(snap, status, rv).gmt_deleted = row.gmt_deleted
      BY <1>0, <2>2 DEF OptimisticUpdate, Rows
    <3>3. QED
      BY <1>0, <3>1, <3>2
  <2>3. QED
    BY <2>1, <2>2
<1>2. SyncMetadata(row, rv).version > 0 /\ SyncMetadata(row, rv).gmt_deleted = row.gmt_deleted
  BY <1>0 DEF SyncMetadata, Rows
<1>3. DeleteRow(row).version > 0
  BY <1>0 DEF DeleteRow, Rows
<1>4. QED
  BY <1>1, <1>2, <1>3

\* What remains to be shown of a step outside the sync loop ...
LEMMA OutsideKeeps ==
    ASSUME GInv, [Next]_vars, UNCHANGED loop, UNCHANGED k8s \/ Change,
           row'.version > 0, row'.gmt_deleted => row.gmt_deleted,
           \A w \in Workers : wk'[w].op # "create"
    PROVE  GInv' /\ (row'.gmt_deleted => CRGone)
<1>1. TypeOK'
  BY TypeStep DEF GInv
<1>2. Told(queue)' /\ (CRGone => CRGone')
  BY ChangeTold
<1>3. QED
  BY <1>1, <1>2 DEF GInv, loop

\* ... and of a step of the sync loop.
LEMMA LoopKeeps ==
    ASSUME GInv, [Next]_vars, UNCHANGED <<cr, k8sRv, wk>>, Told(queue)',
           row'.version > 0, row'.gmt_deleted => row.gmt_deleted \/ CRGone,
           watch'.ev.type = "DELETED" => CRGone,
           rec'.pc \in {"listed", "loaded"} /\ rec'.cr.phase = "absent" => CRGone
    PROVE  GInv' /\ (row'.gmt_deleted => CRGone)
<1>1. TypeOK'
  BY TypeStep DEF GInv
<1>2. CRGone' <=> CRGone
  BY DEF CRGone
<1>3. QED
  BY <1>1, <1>2 DEF GInv

LEMMA GInvWorker ==
    ASSUME GInv, NEW w \in Workers, Worker(w) \/ WorkerCrash(w) \/ \E op \in Ops : RequestRead(w, op)
    PROVE  GInv' /\ (row'.gmt_deleted => CRGone)
<1> USE TypeParts
<1>0. /\ TypeOK /\ row \in Rows /\ row.version > 0 /\ wk \in [Workers -> Requests]
      /\ wk[w] \in Requests /\ wk[w].op # "create" /\ wk[w].version \in Nat
  BY DEF GInv, TypeOK, Requests
<1>1. [Next]_vars
  BY DEF Next
<1>2. ASSUME wk[w].pc = "call"
      PROVE  K8sCall[wk[w].op] \in Calls \ {"create"}
  <2>1. wk[w].op \in {"start", "stop", "delete"}
    BY <1>0, <1>2 DEF TypeOK, Requests, Ops
  <2>2. QED
    BY <2>1 DEF K8sCall, Calls
<1>3. UNCHANGED k8s \/ Change
  <2>1. CASE RequestCallOk(w)
    BY <1>0, <1>2, <2>1, CallIsChange DEF RequestCallOk
  <2>2. CASE RequestCallFails(w)
    BY <1>0, <1>2, <2>2, CallIsChange DEF RequestCallFails
  <2>3. QED
    BY <2>1, <2>2 DEF Worker, CreatePersist, RequestCommit, RequestFail, CreateTemplateGone,
       CreateRecordMetering, StopCloseSession, StartGet, StartFastReady, WorkerCrash, RequestRead
<1>4. row'.version > 0 /\ row'.gmt_deleted = row.gmt_deleted
  <2>1. CASE RequestCommit(w)
    <3>1. CASE row.status # "absent"
      <4>1. FirstStatus[wk[w].op] \in SandboxStatus
        <5>1. wk[w].op \in Ops
          BY <1>0, <2>1 DEF RequestCommit, TypeOK
        <5>2. QED
          BY <5>1 DEF Ops, FirstStatus, SandboxStatus, Live
      <4>2. row' = OrmWrite(row, FirstStatus[wk[w].op], wk[w].version)
        BY <2>1, <3>1 DEF RequestCommit
      <4>3. QED
        BY <1>0, <4>1, <4>2, OrmKeeps
    <3>2. QED
      BY <1>0, <2>1, <3>1 DEF RequestCommit
  <2>2. CASE RequestFail(w)
    <3>1. "error" \in SandboxStatus
      BY DEF SandboxStatus, Live
    <3>2. QED
      BY <1>0, <2>2, <3>1, OrmKeeps DEF RequestFail
  <2>3. CASE StartFastReady(w)
    <3> DEFINE r == OrmWrite(row, "ready", wk[w].version)
    <3>1. "ready" \in SandboxStatus
      BY DEF SandboxStatus, Live
    <3>2. r \in Rows /\ r.version > 0 /\ r.gmt_deleted = row.gmt_deleted
      BY <1>0, <3>1, OrmKeeps, OrmWriteType
    <3>3. row' = row \/ row' = [r EXCEPT !.rv = wk[w].rv]
      BY <2>3 DEF StartFastReady
    <3> HIDE DEF r
    <3>4. QED
      BY <1>0, <3>2, <3>3 DEF Rows
  <2>4. CASE CreatePersist(w) \/ CreateTemplateGone(w)
    BY <1>0, <2>4 DEF CreatePersist, CreateTemplateGone
  <2>5. QED
    BY <1>0, <2>1, <2>2, <2>3, <2>4 DEF Worker, RequestCallOk, RequestCallFails,
       CreateRecordMetering, StopCloseSession, StartGet, WorkerCrash, RequestRead, db
<1>5. \A v \in Workers : wk'[v].op # "create"
  <2>1. \A v \in Workers : wk[v].op # "create"
    BY DEF GInv
  <2>2. ASSUME NEW pc, Goto(w, pc)
        PROVE  \A v \in Workers : wk'[v].op # "create"
    BY <1>0, <2>1, <2>2 DEF Goto, IdleWorker, Requests
  <2>3. CASE CreatePersist(w)
    BY <1>0, <2>3 DEF CreatePersist
  <2>4. CASE \E op \in Ops : RequestRead(w, op)
    BY <1>0, <2>1, <2>4 DEF RequestRead, Ops
  <2>5. CASE RequestCommit(w)
    <3>1. CASE wk' = [wk EXCEPT ![w].pc = "call", ![w].version = @ + 1]
      BY <1>0, <2>1, <3>1 DEF Requests
    <3>2. QED
      BY <2>2, <2>5, <3>1 DEF RequestCommit
  <2>6. CASE StartGet(w)
    <3>1. CASE wk' = [wk EXCEPT ![w].pc = "fast", ![w].rv = k8sRv]
      BY <1>0, <2>1, <3>1 DEF Requests
    <3>2. QED
      BY <2>2, <2>6, <3>1 DEF StartGet
  <2>7. QED
    BY <2>2, <2>3, <2>4, <2>5, <2>6 DEF Worker, RequestCallOk, RequestCallFails, RequestFail,
       CreateTemplateGone, CreateRecordMetering, StopCloseSession, StartFastReady, WorkerCrash
<1>6. UNCHANGED loop
  BY DEF Worker, CreatePersist, RequestCommit, RequestCallOk, RequestCallFails, RequestFail,
     CreateTemplateGone, CreateRecordMetering, StopCloseSession, StartGet, StartFastReady,
     WorkerCrash, RequestRead
<1>7. QED
  BY <1>1, <1>3, <1>4, <1>5, <1>6, OutsideKeeps

LEMMA GInvTick ==
    ASSUME GInv, Tick \/ \E op \in {"auto_stop", "auto_delete"} : TickSelect(op)
    PROVE  GInv' /\ (row'.gmt_deleted => CRGone)
<1> USE TypeParts
<1>0. TypeOK /\ row \in Rows /\ row.version > 0 /\ tick.version \in Nat
  BY DEF GInv, TypeOK
<1>1. [Next]_vars
  BY DEF Next
<1>2. UNCHANGED k8s \/ Change
  <2>1. CASE TickCallK8s
    <3>1. TickCall[tick.op] \in Calls \ {"create"}
      BY <1>0, <2>1 DEF TickCallK8s, TypeOK, TickCall, Calls
    <3>2. QED
      BY <1>0, <2>1, <3>1, CallIsChange DEF TickCallK8s
  <2>2. QED
    BY <2>1 DEF Tick, TickCommit, TickSelect
<1>3. row'.version > 0 /\ row'.gmt_deleted = row.gmt_deleted
  <2>1. CASE TickCommit
    <3>1. "stopped" \in SandboxStatus /\ "deleting" \in SandboxStatus
      BY DEF SandboxStatus, Live
    <3>2. \/ row' = row
          \/ row' = OrmWrite(row, "stopped", tick.version)
          \/ row' = OrmWrite(row, "deleting", tick.version)
      BY <2>1 DEF TickCommit
    <3>3. QED
      BY <1>0, <3>1, <3>2, OrmKeeps
  <2>2. QED
    BY <1>0, <2>1 DEF Tick, TickCallK8s, TickSelect, db
<1>4. UNCHANGED <<loop, wk>>
  BY DEF Tick, TickCallK8s, TickCommit, TickSelect
<1>5. QED
  BY <1>1, <1>2, <1>3, <1>4, OutsideKeeps DEF GInv

LEMMA GInvController ==
    ASSUME GInv, ControllerConverge \/ ControllerDisturb \/ ControllerRemove \/ ForeignDelete
    PROVE  GInv' /\ (row'.gmt_deleted => CRGone)
<1>0. cr \in CRs /\ row.version > 0
  BY DEF GInv, TypeOK
<1>1. [Next]_vars
  BY DEF Next
<1>2. Change
  <2>1. /\ \A cond \in Conds : [cr EXCEPT !.cond = cond] \in CRs
        /\ [cr EXCEPT !.phase = "terminating"] \in CRs
    BY <1>0 DEF CRs
  <2>2. CASE ControllerConverge
    <3>1. \E cond \in Conds : Put([cr EXCEPT !.cond = cond], "MODIFIED")
      BY <2>2 DEF ControllerConverge, Conds
    <3>2. QED
      BY <2>1, <2>2, <3>1 DEF ControllerConverge, Change, CRGone
  <2>3. CASE ControllerDisturb
    <3>1. \E cond \in Conds : Put([cr EXCEPT !.cond = cond], "MODIFIED")
      BY <2>3 DEF ControllerDisturb, Conds
    <3>2. QED
      BY <2>1, <2>3, <3>1 DEF ControllerDisturb, Change, CRGone
  <2>4. CASE ControllerRemove
    BY <2>4, ConstantTypes DEF ControllerRemove, Change, CRGone, NoCR
  <2>5. CASE ForeignDelete
    BY <2>1, <2>5 DEF ForeignDelete, Change, CRGone
  <2>6. QED
    BY <2>2, <2>3, <2>4, <2>5
<1>3. UNCHANGED <<db, loop, wk>>
  BY DEF ControllerConverge, ControllerDisturb, ControllerRemove, ForeignDelete
<1>4. QED
  BY <1>0, <1>1, <1>2, <1>3, OutsideKeeps DEF GInv, db

\* The writes of the sync loop: a row is soft-deleted only where its caller knows
\* that the CR is gone.
LEMMA GInvWrites ==
    ASSUME GInv, NEW snap \in Rows, NEW status \in SandboxStatus, NEW rv \in Nat,
           \/ row' = row
           \/ row' = OptimisticUpdate(snap, status, rv)
           \/ row' = SyncMetadata(row, rv)
           \/ row' = DeleteRow(row) /\ CRGone
    PROVE  row'.version > 0 /\ (row'.gmt_deleted => row.gmt_deleted \/ CRGone)
BY SyncKeeps DEF GInv

LEMMA GInvWatch ==
    ASSUME GInv, Watch
    PROVE  GInv' /\ (row'.gmt_deleted => CRGone)
<1>0. TypeOK /\ Told(queue) /\ row.version > 0
  BY DEF GInv
<1>1. [Next]_vars
  BY DEF Next
<1>2. CASE WatchLoad
  <2>1. queue \in Seq(Events) /\ queue # <<>>
    BY <1>0, <1>2 DEF WatchLoad, TypeOK
  <2>2. Head(queue).type = "DELETED" => CRGone
    BY <1>0, <2>1 DEF Told
  <2>3. /\ Len(Tail(queue)) = Len(queue) - 1 /\ Len(queue) \in Nat
        /\ \A i \in 1..Len(Tail(queue)) : Tail(queue)[i] = queue[i + 1]
    BY <2>1
  <2>4. Told(queue)'
    <3>1. ASSUME NEW i \in 1..Len(Tail(queue)), Tail(queue)[i].type = "DELETED"
          PROVE  CRGone
      <4>1. i + 1 \in 1..Len(queue)
        BY <2>3
      <4>2. QED
        BY <1>0, <2>3, <3>1, <4>1 DEF Told
    <3>2. QED
      BY <1>2, <3>1 DEF WatchLoad, Told, CRGone
  <2>5. watch'.ev.type = "DELETED" => CRGone
    BY <1>2, <2>2 DEF WatchLoad, GInv
  <2>6. UNCHANGED <<cr, k8sRv, wk, row, rec>>
    BY <1>2 DEF WatchLoad, db
  <2>7. QED
    BY <1>0, <1>1, <2>4, <2>5, <2>6, LoopKeeps DEF GInv
<1>3. CASE WatchApply
  <2> DEFINE snap == watch.snap
             ev == watch.ev
  <2>1. snap \in Rows /\ ev.rv \in Nat /\ ev.status \in SandboxStatus /\ "error" \in SandboxStatus
    BY <1>0 DEF TypeOK, Events, SandboxStatus, Live
  <2>2. ev.type = "DELETED" => CRGone
    BY DEF GInv
  <2> HIDE DEF snap, ev
  <2>3. \/ row' = row
        \/ row' = OptimisticUpdate(snap, "error", ev.rv)
        \/ row' = OptimisticUpdate(snap, ev.status, ev.rv)
        \/ row' = SyncMetadata(row, ev.rv)
        \/ row' = DeleteRow(row) /\ CRGone
    <3>1. CASE UNCHANGED db
      BY <3>1 DEF db
    <3>2. CASE ev.type = "DELETED" /\ WatchDeleted(snap, ev)
      BY <2>2, <3>2 DEF WatchDeleted, ApplyDeleted
    <3>3. CASE WatchChanged(snap, ev)
      BY <3>1, <3>3 DEF WatchChanged, ApplyStatus
    <3>4. QED
      BY <1>3, <3>1, <3>2, <3>3 DEF WatchApply, snap, ev
  <2>4. row'.version > 0 /\ (row'.gmt_deleted => row.gmt_deleted \/ CRGone)
    BY <2>1, <2>3, GInvWrites
  <2>5. Told(queue)'
    BY <1>0, <1>3 DEF WatchApply, Told, CRGone, k8s
  <2>6. watch'.ev.type # "DELETED"
    BY <1>3 DEF WatchApply, IdleWatch, NoEvent
  <2>7. UNCHANGED <<cr, k8sRv, wk, rec>>
    BY <1>3 DEF WatchApply, k8s
  <2>8. QED
    BY <1>1, <2>4, <2>5, <2>6, <2>7, LoopKeeps DEF GInv
<1>4. QED
  BY <1>2, <1>3 DEF Watch

LEMMA GInvReconcile ==
    ASSUME GInv, Reconcile \/ ReconcileFails \/ WatchDrop
    PROVE  GInv' /\ (row'.gmt_deleted => CRGone)
<1>0. TypeOK /\ Told(queue) /\ row.version > 0
  BY DEF GInv
<1>1. [Next]_vars
  BY DEF Next
<1>2. UNCHANGED <<cr, k8sRv, wk>>
  BY DEF Reconcile, RecList, RecLoad, RecApply, HookLoad, HookCompute, HookStorage, ReconcileFails,
     WatchDrop, k8s
<1>3. Told(queue)'
  <2>1. queue' = queue \/ queue' = <<>>
    BY DEF Reconcile, RecList, RecLoad, RecApply, HookLoad, HookCompute, HookStorage, ReconcileFails,
       WatchDrop, k8s
  <2>2. CASE queue' = <<>>
    BY <2>2 DEF Told
  <2>3. CASE queue' = queue
    BY <1>0, <1>2, <2>3 DEF Told, CRGone
  <2>4. QED
    BY <2>1, <2>2, <2>3
<1>4. watch'.ev.type = "DELETED" => CRGone
  <2>1. watch' = watch \/ watch' = IdleWatch
    BY DEF Reconcile, RecList, RecLoad, RecApply, HookLoad, HookCompute, HookStorage, ReconcileFails,
       WatchDrop
  <2>2. QED
    BY <2>1 DEF GInv, IdleWatch, NoEvent
<1>5. rec'.pc \in {"listed", "loaded"} /\ rec'.cr.phase = "absent" => CRGone
  <2>1. CASE RecList
    BY <2>1 DEF RecList, IdleRec, CRGone
  <2>2. CASE RecLoad
    BY <1>0, <2>2 DEF RecLoad, IdleRec, GInv, TypeOK
  <2>3. CASE HookLoad
    BY <1>0, <2>3 DEF HookLoad, TypeOK
  <2>4. CASE RecApply \/ HookCompute
    <3>1. rec'.pc \in {"compute", "storage"}
      BY <2>4 DEF RecApply, HookCompute, IdleRec
    <3>2. QED
      BY <3>1
  <2>5. CASE HookStorage \/ ReconcileFails \/ WatchDrop
    <3>1. rec'.pc = "idle"
      <4>1. rec' = IdleRec
        BY <2>5 DEF HookStorage, ReconcileFails, WatchDrop
      <4>2. QED
        BY <4>1 DEF IdleRec
    <3>2. QED
      BY <3>1
  <2>6. QED
    BY <2>1, <2>2, <2>3, <2>4, <2>5 DEF Reconcile
<1>6. row'.version > 0 /\ (row'.gmt_deleted => row.gmt_deleted \/ CRGone)
  <2>1. CASE RecApply
    <3> DEFINE snap == rec.snap
               status == derive_status_from_sandbox_cr(rec.cr)
    <3>1. snap \in Rows /\ rec.rv \in Nat /\ status \in SandboxStatus
      BY <1>0, DeriveType DEF TypeOK, SandboxStatus, Live
    <3>2. rec.cr.phase = "absent" => CRGone
      BY <2>1 DEF RecApply, GInv
    <3> HIDE DEF snap, status
    <3>3. \/ row' = row
          \/ row' = OptimisticUpdate(snap, status, rec.rv)
          \/ row' = SyncMetadata(row, rec.rv)
          \/ row' = DeleteRow(row) /\ CRGone
      <4>1. CASE rec.cr.phase = "absent" /\ RecMissing(snap)
        BY <3>2, <4>1 DEF RecMissing, ApplyDeleted, db
      <4>2. CASE RecPresent(snap, status)
        BY <4>2 DEF RecPresent, ApplyStatus, db
      <4>3. QED
        BY <2>1, <4>1, <4>2 DEF RecApply, snap, status
    <3>4. QED
      BY <3>1, <3>3, GInvWrites
  <2>2. QED
    BY <1>0, <2>1 DEF Reconcile, RecList, RecLoad, HookLoad, HookCompute, HookStorage,
       ReconcileFails, WatchDrop, db
<1>7. QED
  BY <1>1, <1>2, <1>3, <1>4, <1>5, <1>6, LoopKeeps

LEMMA GInvInit == ASSUME ~Fresh, Init PROVE GInv
<1>1. TypeOK
  BY TypeInit
<1>2. Told(queue)
  BY DEF Init, Told
<1>3. QED
  BY <1>1, <1>2 DEF Init, GInv, IdleWatch, NoEvent, IdleRec, IdleWorker

LEMMA GInvStep ==
    ASSUME GInv, [Next]_vars
    PROVE  GInv' /\ (row'.gmt_deleted => CRGone)
<1>1. CASE Next
  BY <1>1, GInvWorker, GInvTick, GInvController, GInvWatch, GInvReconcile DEF Next
<1>2. CASE UNCHANGED vars
  <2>1. UNCHANGED <<loop, k8s, wk, row>>
    BY <1>2 DEF vars, loop, k8s
  <2>2. QED
    BY <2>1, OutsideKeeps DEF GInv
<1>3. QED
  BY <1>1, <1>2

\* Once a sandbox exists, its row is soft-deleted only in a step that finds its CR
\* gone, whatever requests, ticks, Watch events, reconcile rounds, failed calls and
\* crashes come in between (_delete_sandbox_row).
THEOREM RowOutlivesTheorem ==
    ASSUME ~Fresh
    PROVE  Spec => RowOutlivesCR
<1>1. Init => GInv
  BY GInvInit
<1>2. GInv /\ [Next]_vars => GInv'
  BY GInvStep
<1>3. GInv /\ [Next]_vars => [row'.gmt_deleted /\ ~row.gmt_deleted => cr.phase = "absent"]_vars
  BY GInvStep DEF CRGone
<1>4. QED
  BY <1>1, <1>2, <1>3, PTL DEF Spec, RowOutlivesCR

\* Hence such a sandbox, once soft-deleted, has no CR ever after: the orphan of run
\* lifecycle_orphan can only come from the create that a delete overtakes.
THEOREM NoOrphanTheorem ==
    ASSUME ~Fresh
    PROVE  Spec => NoOrphan /\ [](row.gmt_deleted => cr.phase = "absent")
<1>1. Init => GInv
  BY GInvInit
<1>2. GInv /\ [Next]_vars => GInv'
  BY GInvStep
<1>3. GInv => (row.gmt_deleted => cr.phase = "absent")
  BY DEF GInv, CRGone
<1>4. QED
  BY <1>1, <1>2, <1>3, PTL DEF Spec, NoOrphan
=============================================================================
