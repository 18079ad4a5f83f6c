--------------------------- MODULE AdmissionProofs ---------------------------
(***************************************************************************)
(* For every number of sandboxes, replicas, caps and limits: the types of  *)
(* Admission, the two limits of a user that the lock on his plan protects, *)
(* and the order in which a replica sees the platform's limits.            *)
(***************************************************************************)
EXTENDS Admission, FiniteSetTheorems, TLAPS

-----------------------------------------------------------------------------
(* The parts of the inductive invariant.                                   *)

\* Only a create works on a sandbox that has no row yet; whatever else writes has
\* found a row, which may have been deleted since.  A restore is alive, and no
\* other request is under way with it.
RequestOnRow ==
    \A s \in Sandboxes :
       /\ pc[s] \in {"create", "persist"} => row[s] = "none"
       /\ pc[s] \notin {"idle", "create", "persist"} \/ erase[s] # "none" => row[s] # "none"
       /\ s \in restoring => s \in Alive /\ pc[s] = "idle"

\* Whoever has the lock has been counted against the running sandboxes ...
RoomKept == plan # None => Cardinality((Running \ returned) \ {plan}) < MaxRunning

\* ... and, if he creates one and saw them all in the ledger, the stored ones.
QuotaKept ==
    \A s \in Sandboxes : pc[s] = "persist" /\ s \notin blind => Cardinality(Alive \ blind) + 1 <= Quota

AInv == TypeOK /\ RequestOnRow /\ RoomKept /\ QuotaKept /\ ConcurrentBound /\ StorageBound

\* A replica refreshes once at a time, with limits that have been committed,
\* a PATCH handler with its own, and the loop with none older than the snapshot's.
RefreshOrder ==
    \A p \in Replicas :
       /\ refresh[p]["loop"] = None \/ refresh[p]["patch"] = None
       /\ refresh[p]["patch"] # None => refresh[p]["patch"] = patching[p]
       /\ refresh[p]["loop"] # None => snap[p].version <= refresh[p]["loop"].version
       /\ refresh[p]["loop"] # None => refresh[p]["loop"].version <= config.version
       /\ patching[p] # None => patching[p].version <= config.version
       /\ snap[p].version <= config.version
-----------------------------------------------------------------------------
(* Types.                                                                  *)

Pcs == {"idle", "create", "start", "thaw", "persist", "resume", "restore", "provision", "call", "record"}

\* What a refresh or a PATCH does.
LimitStep ==
    \/ \E p \in Replicas \cup {None} : PatchCommit(p)
    \/ \E p \in Replicas, w \in Refreshers : Refresh(p, w) \/ RefreshFails(p, w)

\* What a request, a loop or a call does to a sandbox.
SandboxStep(s) ==
    \/ \E p \in Replicas : CreateBegin(s, p)
    \/ StartBegin(s) \/ Check(s) \/ CheckFails(s) \/ CheckedCommit(s)
    \/ CallOk(s) \/ CallFails(s) \/ Record(s) \/ Delete(s)
    \/ Sync(s) \/ RestoreEnds(s)

LEMMA NextSteps == Next => LimitStep \/ (\E s \in Sandboxes : SandboxStep(s)) \/ Reconcile
  BY DEF Next, LimitStep, SandboxStep

LEMMA AliveFinite ==
    /\ IsFiniteSet(Alive) /\ Cardinality(Alive) \in 0..Cardinality(Sandboxes)
    /\ IsFiniteSet(Running)
<1>1. Alive \subseteq Sandboxes /\ Running \subseteq Sandboxes
  BY DEF Alive, Running
<1>2. QED
  BY <1>1, AdmissionAssumption, FS_Subset, FS_CardinalityType

LEMMA RoomInBound ==
    ASSUME NEW S, RoomForChange(S), config.version \in Nat
    PROVE  config.version < MaxChanges
<1> DEFINE D == {s \in Sandboxes \ S : erase[s] # "none" \/ s \in gone}
<1>1. Cardinality(D) \in Nat
  BY AdmissionAssumption, FS_Subset, FS_CardinalityType, D \subseteq Sandboxes
<1>2. config.version + Cardinality(D) < MaxChanges /\ MaxChanges \in Nat
  BY AdmissionAssumption DEF RoomForChange
<1>3. QED
  BY <1>1, <1>2

\* The types of the limits.
LimitTypes ==
    /\ config \in Limits
    /\ snap \in [Replicas -> [cap : Caps, version : 0..MaxChanges, used : 0..Cardinality(Sandboxes)]]
    /\ patching \in [Replicas -> Limits \cup {None}]
    /\ refresh \in [Replicas -> [Refreshers -> Limits \cup {None}]]

LEMMA LimitTypesStep ==
    ASSUME LimitTypes, LimitStep
    PROVE  LimitTypes'
<1> USE AdmissionAssumption DEF LimitTypes, Limits
<1>1. ASSUME NEW p \in Replicas \cup {None}, PatchCommit(p) PROVE LimitTypes'
  <2>0. config.version \in Nat /\ config.version < MaxChanges
    BY <1>1, RoomInBound DEF PatchCommit
  <2>1. config' \in Limits
    BY <1>1, <2>0 DEF PatchCommit
  <2>2. QED
    BY <1>1, <2>1 DEF PatchCommit
<1>2. ASSUME NEW p \in Replicas, NEW w \in Refreshers, RefreshRead(p, w) PROVE LimitTypes'
  <2>1. PICK l \in Limits \cup {None} : refresh' = [refresh EXCEPT ![p] = [refresh[p] EXCEPT ![w] = l]]
    BY <1>2 DEF RefreshRead
  <2>2. refresh' \in [Replicas -> [Refreshers -> Limits \cup {None}]]
    BY <2>1
  <2>3. QED
    BY <1>2, <2>2 DEF RefreshRead
<1>3. ASSUME NEW p \in Replicas, NEW w \in Refreshers, RefreshOver(p, w)
      PROVE  /\ patching' \in [Replicas -> Limits \cup {None}]
             /\ refresh' \in [Replicas -> [Refreshers -> Limits \cup {None}]]
  <2>1. refresh' = [refresh EXCEPT ![p] = [refresh[p] EXCEPT ![w] = None]]
    BY <1>3 DEF RefreshOver
  <2>2. QED
    BY <1>3, <2>1 DEF RefreshOver
<1>4. ASSUME NEW p \in Replicas, NEW w \in Refreshers, RefreshWrite(p, w) PROVE LimitTypes'
  <2>1. refresh[p][w] \in Limits
    BY <1>4 DEF RefreshWrite
  <2>2. snap' \in [Replicas -> [cap : Caps, version : 0..MaxChanges, used : 0..Cardinality(Sandboxes)]]
    BY <1>4, <2>1, AliveFinite DEF RefreshWrite
  <2>3. QED
    BY <1>3, <1>4, <2>2 DEF RefreshWrite
<1>5. ASSUME NEW p \in Replicas, NEW w \in Refreshers, RefreshFails(p, w) PROVE LimitTypes'
  BY <1>3, <1>5 DEF RefreshFails
<1>6. QED
  BY <1>1, <1>2, <1>4, <1>5 DEF LimitStep, Refresh

\* The types of the rest.
RequestTypes ==
    /\ row \in [Sandboxes -> Status] /\ erase \in [Sandboxes -> {"none", "CR", "snapshot"}]
    /\ {gone, restoring, ledger, returned, blind} \subseteq SUBSET Sandboxes
    /\ pc \in [Sandboxes -> Pcs]
    /\ HoldsLock = {plan} \ {None}
    /\ faults \in 0..MaxFaults

LEMMA TypeParts == TypeOK <=> LimitTypes /\ RequestTypes
  BY DEF TypeOK, LimitTypes, RequestTypes, Pcs

LEMMA RequestTypesStep ==
    ASSUME RequestTypes, NEW s \in Sandboxes, SandboxStep(s)
    PROVE  RequestTypes'
<1> USE AdmissionAssumption DEF RequestTypes, HoldsLock, Pcs, Status, Written, ReturnedAs
<1>1. CASE \E p \in Replicas : CreateBegin(s, p)
  BY <1>1 DEF CreateBegin, rows, limits
<1>2. CASE StartBegin(s)
  BY <1>2 DEF StartBegin, rows, limits
<1>3. CASE Check(s)
  BY <1>3 DEF Check, Checked, PlanFree, rows, limits
<1>4. CASE CheckFails(s)
  BY <1>4 DEF CheckFails, Fault, rows, limits
<1>5. CASE CheckedCommit(s)
  BY <1>5 DEF CheckedCommit, limits
<1>6. CASE CallOk(s)
  BY <1>6 DEF CallOk, rows, limits
<1>7. CASE CallFails(s)
  BY <1>7 DEF CallFails, Fault, limits
<1>8. CASE Record(s)
  BY <1>8 DEF Record, Fault, rows, limits
<1>9. CASE Delete(s)
  BY <1>9 DEF Delete, DeleteBegin, DeleteCold, DeleteFails, SoftDelete, Fault, requests, limits
<1>10. CASE Sync(s)
  BY <1>10 DEF Sync, Moves, Alive, requests, limits
<1>11. CASE RestoreEnds(s)
  BY <1>11 DEF RestoreEnds, requests, limits
<1>12. QED
  BY <1>1, <1>2, <1>3, <1>4, <1>5, <1>6, <1>7, <1>8, <1>9, <1>10, <1>11 DEF SandboxStep

LEMMA TypeInit == Init => TypeOK
<1> SUFFICES ASSUME Init PROVE LimitTypes /\ RequestTypes
  BY TypeParts
<1> USE AdmissionAssumption
<1>1. config \in Limits
  BY DEF Init, Limits
<1>2. Cardinality(Sandboxes) \in Nat
  BY FS_CardinalityType
<1>3. LimitTypes
  BY <1>1, <1>2 DEF Init, LimitTypes, Limits, NotRefreshing
<1>4. RequestTypes
  BY DEF Init, RequestTypes, HoldsLock, Pcs, Status
<1>5. QED
  BY <1>3, <1>4

LEMMA LimitsAlone ==
    ASSUME NEW s \in Sandboxes, SandboxStep(s)
    PROVE  UNCHANGED limits
  BY DEF SandboxStep, CreateBegin, StartBegin, Check, CheckFails, CheckedCommit, CallOk, CallFails, Record,
     Delete, DeleteBegin, DeleteCold, DeleteFails, SoftDelete, Sync, RestoreEnds, limits

LEMMA RequestsAlone ==
    ASSUME LimitStep
    PROVE  /\ UNCHANGED <<row, gone, erase, restoring, returned, ledger, pc, plan, blind>>
           /\ faults' = faults \/ Fault
  BY DEF LimitStep, PatchCommit, Refresh, RefreshRead, RefreshWrite, RefreshFails, requests, rows

LEMMA TypeNext == TypeOK /\ [Next]_vars => TypeOK'
<1> SUFFICES ASSUME TypeOK, [Next]_vars PROVE TypeOK'
  OBVIOUS
<1>1. CASE LimitStep
  <2>1. RequestTypes'
    BY <1>1, RequestsAlone, TypeParts, AdmissionAssumption DEF RequestTypes, HoldsLock, Fault
  <2>2. QED
    <3>1. LimitTypes'
      BY <1>1, LimitTypesStep, TypeParts
    <3>2. QED
      BY <2>1, <3>1 DEF TypeOK, LimitTypes, RequestTypes, Pcs
<1>2. ASSUME NEW s \in Sandboxes, SandboxStep(s) PROVE TypeOK'
  <2>1. LimitTypes'
    BY <1>2, LimitsAlone, TypeParts DEF LimitTypes, limits
  <2>2. QED
    <3>1. RequestTypes'
      BY <1>2, RequestTypesStep, TypeParts
    <3>2. QED
      BY <2>1, <3>1 DEF TypeOK, LimitTypes, RequestTypes, Pcs
<1>3. CASE Reconcile
  BY <1>3 DEF Reconcile, TypeOK, HoldsLock, Alive, requests, rows, limits
<1>4. CASE UNCHANGED vars
  BY <1>4 DEF vars, requests, rows, limits, TypeOK, HoldsLock
<1>5. QED
  BY <1>1, <1>2, <1>3, <1>4, NextSteps

\* No interleaving of requests, refreshes and background loops takes a variable
\* out of its type, and the plan's row lock belongs to exactly the one request
\* that was checked and has not committed (check_concurrent_limit FOR UPDATE).
THEOREM AdmissionTypes == Spec => []TypeOK
  BY TypeInit, TypeNext, PTL DEF Spec

-----------------------------------------------------------------------------
(* The limits of a user.                                                   *)

LEMMA RowsStep ==
    ASSUME TypeOK, RequestOnRow, NEW s \in Sandboxes, SandboxStep(s)
    PROVE  RequestOnRow'
<1> USE AdmissionAssumption DEF TypeOK, RequestOnRow, Alive, HoldsLock, Status, Written
<1>1. CASE \E p \in Replicas : CreateBegin(s, p)
  BY <1>1 DEF CreateBegin, rows
<1>2. CASE StartBegin(s)
  BY <1>2 DEF StartBegin, rows
<1>3. CASE Check(s)
  BY <1>3 DEF Check, Checked, rows
<1>4. CASE CheckFails(s)
  BY <1>4 DEF CheckFails, rows
<1>5. CASE CheckedCommit(s)
  BY <1>5 DEF CheckedCommit
<1>6. CASE CallOk(s)
  BY <1>6 DEF CallOk, rows
<1>7. CASE CallFails(s)
  BY <1>7 DEF CallFails
<1>8. CASE Record(s)
  BY <1>8 DEF Record, rows
<1>9. CASE Delete(s)
  BY <1>9 DEF Delete, DeleteBegin, DeleteCold, DeleteFails, SoftDelete, requests
<1>10. CASE Sync(s)
  BY <1>10 DEF Sync, Moves, requests
<1>11. CASE RestoreEnds(s)
  BY <1>11 DEF RestoreEnds, requests
<1>12. QED
  BY <1>1, <1>2, <1>3, <1>4, <1>5, <1>6, <1>7, <1>8, <1>9, <1>10, <1>11 DEF SandboxStep

\* Only the commit of a checked request adds to what the two limits count.
LEMMA OnlyCommitAdds ==
    ASSUME TypeOK, RequestOnRow, NEW s \in Sandboxes, SandboxStep(s), ~CheckedCommit(s)
    PROVE  /\ Running' \ returned' \subseteq Running \ returned
           /\ Alive' \ blind' \subseteq Alive \ blind
<1> USE AdmissionAssumption DEF TypeOK, RequestOnRow, Alive, Running, Status, Written, ReturnedAs
<1>1. CASE (\E p \in Replicas : CreateBegin(s, p)) \/ StartBegin(s) \/ CallOk(s) \/ Record(s)
  BY <1>1 DEF CreateBegin, StartBegin, CallOk, Record, rows
<1>2. CASE Check(s)
  BY <1>2 DEF Check, rows
<1>3. CASE CheckFails(s)
  BY <1>3 DEF CheckFails, rows
<1>4. CASE CallFails(s)
  BY <1>4 DEF CallFails
<1>5. CASE Delete(s)
  BY <1>5 DEF Delete, DeleteBegin, DeleteCold, DeleteFails, SoftDelete, requests
<1>6. CASE Sync(s)
  BY <1>6 DEF Sync, Moves, requests
<1>7. CASE RestoreEnds(s)
  BY <1>7 DEF RestoreEnds, requests
<1>8. QED
  BY <1>1, <1>2, <1>3, <1>4, <1>5, <1>6, <1>7 DEF SandboxStep

\* And the commit adds the one sandbox, to the stored ones only if it is new.
LEMMA CommitAdds ==
    ASSUME TypeOK, RequestOnRow, NEW s \in Sandboxes, CheckedCommit(s)
    PROVE  /\ Running' \ returned' \subseteq ((Running \ returned) \ {s}) \cup {s}
           /\ Alive' \ blind' \subseteq (Alive \ blind) \cup {s}
           /\ pc[s] # "persist" \/ s \in blind => Alive' \ blind' \subseteq Alive \ blind
           /\ plan = s /\ plan' = None
           /\ \A t \in Sandboxes : pc'[t] # "persist"
<1> USE AdmissionAssumption DEF TypeOK, HoldsLock
<1>1. /\ row' = row \/ row' = Written(s, "up")
      /\ pc[s] = "restore" => row' = row
      /\ gone' = gone
      /\ returned' = returned \ {s} /\ blind' = blind
      /\ pc[s] \in {"persist", "resume", "restore"} /\ plan' = None
      /\ pc' \in [Sandboxes -> Pcs] /\ pc'[s] # "persist"
      /\ \A t \in Sandboxes : t # s => pc'[t] = pc[t]
  BY DEF CheckedCommit, Pcs
<1>2. plan = s /\ \A t \in Sandboxes : t # s => pc[t] # "persist"
  BY <1>1
<1>3. Running' \ returned' \subseteq ((Running \ returned) \ {s}) \cup {s}
  BY <1>1 DEF Running, Written
<1>4. Alive' \ blind' \subseteq (Alive \ blind) \cup {s}
  BY <1>1 DEF Alive, Written
<1>5. pc[s] # "persist" \/ s \in blind => Alive' \ blind' \subseteq Alive \ blind
  BY <1>1 DEF Alive, RequestOnRow, Written
<1>6. QED
  BY <1>1, <1>2, <1>3, <1>4, <1>5

\* A subset of a finite set is no larger.
LEMMA SmallerSet ==
    ASSUME NEW T, IsFiniteSet(T), NEW S \in SUBSET T
    PROVE  /\ IsFiniteSet(S) /\ Cardinality(S) \in Nat /\ Cardinality(T) \in Nat
           /\ Cardinality(S) <= Cardinality(T)
  BY FS_Subset, FS_CardinalityType

LEMMA PlusOne ==
    ASSUME NEW T, IsFiniteSet(T), NEW x
    PROVE  IsFiniteSet(T \cup {x}) /\ Cardinality(T \cup {x}) <= Cardinality(T) + 1
<1>1. Cardinality(T) \in Nat
  BY FS_CardinalityType
<1>2. /\ IsFiniteSet(T \cup {x})
      /\ Cardinality(T \cup {x}) = IF x \in T THEN Cardinality(T) ELSE Cardinality(T) + 1
  BY FS_AddElement
<1>3. QED
  BY <1>1, <1>2

LEMMA LimitsStep ==
    ASSUME AInv, NEW s \in Sandboxes, SandboxStep(s)
    PROVE  RoomKept' /\ QuotaKept' /\ ConcurrentBound' /\ StorageBound'
<1> DEFINE R == Running \ returned
           A == Alive \ blind
<1> USE AdmissionAssumption
<1>1. /\ IsFiniteSet(R) /\ IsFiniteSet(A) /\ IsFiniteSet(R \ {s})
      /\ Cardinality(R) \in Nat /\ Cardinality(A) \in Nat
  BY AliveFinite, SmallerSet, R \subseteq Running, A \subseteq Alive, R \ {s} \subseteq Running
<1>2. /\ TypeOK /\ RequestOnRow
      /\ Cardinality(R) <= MaxRunning /\ Cardinality(A) <= Quota
      /\ plan # None => Cardinality(R \ {plan}) < MaxRunning
      /\ \A t \in Sandboxes : pc[t] = "persist" /\ t \notin blind => Cardinality(A) + 1 <= Quota
  BY DEF AInv, RoomKept, QuotaKept, ConcurrentBound, StorageBound
<1>3. CASE CheckedCommit(s)
  <2>1. Cardinality(R') <= MaxRunning
    <3>1. /\ R' \subseteq (R \ {s}) \cup {s} /\ plan = s /\ plan # None
      BY <1>2, <1>3, CommitAdds
    <3>2. /\ IsFiniteSet((R \ {s}) \cup {s})
          /\ Cardinality((R \ {s}) \cup {s}) <= Cardinality(R \ {s}) + 1
      BY <1>1, PlusOne
    <3>3. Cardinality(R') \in Nat /\ Cardinality(R') <= Cardinality((R \ {s}) \cup {s})
      BY <3>1, <3>2, SmallerSet
    <3>4. Cardinality(R \ {s}) \in Nat /\ Cardinality(R \ {s}) < MaxRunning
      BY <1>1, <1>2, <3>1, FS_CardinalityType
    <3>5. Cardinality((R \ {s}) \cup {s}) \in Nat
      BY <3>2, FS_CardinalityType
    <3>6. QED
      BY <3>2, <3>3, <3>4, <3>5
  <2>2. Cardinality(A') <= Quota
    <3>1. CASE pc[s] # "persist" \/ s \in blind
      <4>1. A' \subseteq A
        BY <1>2, <1>3, <3>1, CommitAdds
      <4>2. QED
        BY <1>1, <1>2, <4>1, SmallerSet
    <3>2. CASE pc[s] = "persist" /\ s \notin blind
      <4>1. A' \subseteq A \cup {s}
        BY <1>2, <1>3, CommitAdds
      <4>2. IsFiniteSet(A \cup {s}) /\ Cardinality(A \cup {s}) <= Cardinality(A) + 1
        BY <1>1, PlusOne
      <4>3. /\ Cardinality(A') \in Nat /\ Cardinality(A \cup {s}) \in Nat
            /\ Cardinality(A') <= Cardinality(A \cup {s})
        BY <4>1, <4>2, SmallerSet
      <4>4. QED
        <5>1. Cardinality(A) + 1 <= Quota
          BY <1>2, <3>2
        <5>2. Cardinality(A) \in Nat /\ Quota \in Nat
          BY <1>1
        <5>3. QED
          BY <4>2, <4>3, <5>1, <5>2
    <3>3. QED
      BY <3>1, <3>2
  <2>3. plan' = None /\ \A t \in Sandboxes : pc'[t] # "persist"
    BY <1>2, <1>3, CommitAdds
  <2>4. QED
    BY <2>1, <2>2, <2>3 DEF RoomKept, QuotaKept, ConcurrentBound, StorageBound
<1>4. CASE ~CheckedCommit(s)
  <2>1. R' \subseteq R /\ A' \subseteq A
    BY <1>2, <1>4, OnlyCommitAdds
  <2>2. /\ Cardinality(R') \in Nat /\ Cardinality(R') <= Cardinality(R)
        /\ Cardinality(A') \in Nat /\ Cardinality(A') <= Cardinality(A)
    BY <1>1, <2>1, SmallerSet
  <2>3. ConcurrentBound' /\ StorageBound'
    BY <1>1, <1>2, <2>2 DEF ConcurrentBound, StorageBound
  <2>4. CASE Check(s) /\ plan' # None
    <3>1. /\ plan = None /\ plan' = s /\ Cardinality(Running) < MaxRunning
          /\ pc[s] \in {"create", "start", "thaw"}
          /\ pc' = [pc EXCEPT ![s] = Checked[pc[s]]]
          /\ blind' = IF pc[s] = "create" /\ Alive \ ledger # {} THEN blind \cup {s} ELSE blind
          /\ pc[s] = "create" => Cardinality(ledger) + 1 <= Quota
      BY <2>4 DEF Check, PlanFree, RoomToRun, RoomInQuota
    <3>2. R' \ {s} \subseteq Running
      BY <2>1
    <3>3. Cardinality(R' \ {s}) < MaxRunning
      <4>1. /\ Cardinality(R' \ {s}) \in Nat /\ Cardinality(Running) \in Nat
            /\ Cardinality(R' \ {s}) <= Cardinality(Running)
        BY <3>2, AliveFinite, SmallerSet
      <4>2. QED
        BY <3>1, <4>1
    <3>4. ASSUME NEW t \in Sandboxes, pc'[t] = "persist", t \notin blind'
          PROVE  Cardinality(A') + 1 <= Quota
      <4>1. pc[t] # "persist"
        BY <1>2, <3>1 DEF TypeOK, HoldsLock
      <4>2. t = s /\ pc[s] = "create"
        BY <1>2, <3>1, <3>4, <4>1 DEF TypeOK, Checked
      <4>3. A' \subseteq ledger
        BY <2>1, <3>1, <3>4, <4>2
      <4>4. IsFiniteSet(ledger)
        BY <1>2, FS_Subset DEF TypeOK
      <4>5. /\ Cardinality(A') \in Nat /\ Cardinality(ledger) \in Nat
            /\ Cardinality(A') <= Cardinality(ledger)
        BY <4>3, <4>4, SmallerSet
      <4>6. QED
        BY <3>1, <4>2, <4>5
    <3>5. QED
      BY <2>3, <3>1, <3>3, <3>4 DEF RoomKept, QuotaKept
  <2>5. CASE ~(Check(s) /\ plan' # None)
    <3>1. plan' # None => plan' = plan
      BY <1>4, <2>5 DEF SandboxStep, CreateBegin, StartBegin, Check, CheckFails, CallOk, CallFails, Record,
         Delete, DeleteBegin, DeleteCold, DeleteFails, SoftDelete, Sync, RestoreEnds, requests
    <3>2. \A t \in Sandboxes : pc'[t] = "persist" => pc[t] = "persist"
      <4>1. CASE Check(s)
        BY <1>2, <2>5, <4>1, AdmissionAssumption DEF Check, TypeOK
      <4>2. CASE (\E p \in Replicas : CreateBegin(s, p)) \/ StartBegin(s) \/ CheckFails(s)
        BY <1>2, <4>2 DEF TypeOK, CreateBegin, StartBegin, CheckFails
      <4>3. CASE CallOk(s) \/ CallFails(s) \/ Record(s) \/ Delete(s) \/ Sync(s) \/ RestoreEnds(s)
        BY <1>2, <4>3 DEF TypeOK, CallOk, CallFails, Record, Delete, DeleteBegin, DeleteCold,
           DeleteFails, SoftDelete, Sync, RestoreEnds, requests
      <4>4. QED
        BY <1>4, <4>1, <4>2, <4>3 DEF SandboxStep
    <3>3. \A t \in Sandboxes : t \in blind /\ pc[t] = "persist" /\ pc'[t] = "persist" => t \in blind'
      BY <1>2, <1>4 DEF TypeOK, RequestOnRow, Alive, SandboxStep, CreateBegin, StartBegin, Check, CheckFails, CallOk, CallFails, Record,
         Delete, DeleteBegin, DeleteCold, DeleteFails, SoftDelete, Sync, RestoreEnds, requests
    <3>4. RoomKept'
      <4>1. /\ R' \ {plan} \subseteq R \ {plan} /\ IsFiniteSet(R \ {plan})
        BY <1>1, <2>1, SmallerSet
      <4>2. /\ Cardinality(R' \ {plan}) \in Nat /\ Cardinality(R \ {plan}) \in Nat
            /\ Cardinality(R' \ {plan}) <= Cardinality(R \ {plan})
        BY <4>1, SmallerSet
      <4>3. QED
        BY <1>2, <3>1, <4>2 DEF RoomKept
    <3>5. QuotaKept'
      <4>1. ASSUME NEW t \in Sandboxes, pc'[t] = "persist", t \notin blind'
            PROVE  Cardinality(A') + 1 <= Quota
        <5>1. Cardinality(A) + 1 <= Quota
          BY <1>2, <3>2, <3>3, <4>1
        <5>2. Cardinality(A) \in Nat /\ Quota \in Nat
          BY <1>1
        <5>3. QED
          BY <2>2, <5>1, <5>2
      <4>2. QED
        BY <4>1 DEF QuotaKept
    <3>6. QED
      BY <2>3, <3>4, <3>5
  <2>6. QED
    BY <2>4, <2>5
<1>5. QED
  BY <1>3, <1>4

LEMMA LimitsInit == Init => AInv
<1> SUFFICES ASSUME Init PROVE AInv
  OBVIOUS
<1>1. Alive = {} /\ Running = {} /\ plan = None /\ restoring = {}
      /\ \A s \in Sandboxes : pc[s] = "idle" /\ erase[s] = "none"
  BY DEF Init, Alive, Running
<1>2. Cardinality(Alive \ blind) = 0 /\ Cardinality(Running \ returned) = 0
  BY <1>1, FS_EmptySet
<1>3. QED
  BY <1>1, <1>2, TypeInit, AdmissionAssumption
     DEF AInv, RequestOnRow, RoomKept, QuotaKept, ConcurrentBound, StorageBound

LEMMA LimitsNext == AInv /\ [Next]_vars => AInv'
<1> SUFFICES ASSUME AInv, [Next]_vars PROVE AInv'
  OBVIOUS
<1>1. TypeOK'
  BY TypeNext DEF AInv
<1>2. ASSUME NEW s \in Sandboxes, SandboxStep(s) PROVE AInv'
  BY <1>1, <1>2, RowsStep, LimitsStep DEF AInv
<1>3. CASE UNCHANGED <<row, gone, erase, restoring, returned, pc, plan, blind>>
  BY <1>1, <1>3 DEF AInv, RequestOnRow, RoomKept, QuotaKept, ConcurrentBound, StorageBound, Alive, Running
<1>4. CASE LimitStep
  BY <1>3, <1>4, RequestsAlone
<1>5. CASE Reconcile \/ UNCHANGED vars
  BY <1>3, <1>5 DEF Reconcile, vars, requests, rows
<1>6. QED
  BY <1>2, <1>4, <1>5, NextSteps

\* Whatever a user's requests, the sync loop and restores do at the same time,
\* he runs no more sandboxes than his plan allows, those apart that came back
\* without asking (check_concurrent_limit, the FOR UPDATE on the plan).
THEOREM RunningBounded == Spec => []ConcurrentBound
<1>1. AInv => ConcurrentBound
  BY DEF AInv
<1>2. QED
  BY <1>1, LimitsInit, LimitsNext, PTL DEF Spec

\* Nor do his sandboxes need more storage than his quota, those apart that were
\* admitted while an earlier one had no ledger entry (check_storage_quota,
\* _record_metering, reconcile_storage_metering).
THEOREM StorageBounded == Spec => []StorageBound
<1>1. AInv => StorageBound
  BY DEF AInv
<1>2. QED
  BY <1>1, LimitsInit, LimitsNext, PTL DEF Spec

-----------------------------------------------------------------------------
(* The platform's limits.                                                  *)

RInv == TypeOK /\ RefreshOrder

LEMMA OrderInit == Init => RefreshOrder
<1> SUFFICES ASSUME Init PROVE RefreshOrder
  OBVIOUS
<1>1. /\ config.version = 0
      /\ \A p \in Replicas : /\ snap[p].version = 0 /\ patching[p] = None
                             /\ refresh[p]["loop"] = None /\ refresh[p]["patch"] = None
  BY DEF Init, NotRefreshing, Refreshers
<1>2. QED
  BY <1>1 DEF RefreshOrder

\* What a PATCH handler, and each step of a refresh of replica p, changes.
LEMMA OrderPatch ==
    ASSUME RInv, NEW p \in Replicas \cup {None}, PatchCommit(p)
    PROVE  RefreshOrder'
<1> USE AdmissionAssumption DEF RInv, TypeOK, RefreshOrder, Limits, Refreshers
<1>1. /\ config.version \in Nat /\ config'.version = config.version + 1
      /\ snap' = snap /\ refresh' = refresh
      /\ \A q \in Replicas : patching'[q] = IF q = p THEN config' ELSE patching[q]
      /\ p \in Replicas => patching[p] = None
  BY DEF PatchCommit
<1>2. SUFFICES ASSUME NEW q \in Replicas
               PROVE  /\ refresh[q]["patch"] # None => refresh[q]["patch"] = patching'[q]
                      /\ refresh[q]["loop"] # None => refresh[q]["loop"].version <= config'.version
                      /\ patching'[q] # None => patching'[q].version <= config'.version
                      /\ snap[q].version <= config'.version
  BY <1>1
<1>3. /\ snap[q].version \in Nat
      /\ refresh[q]["loop"] # None => refresh[q]["loop"].version \in Nat
      /\ patching[q] # None => patching[q].version \in Nat
  OBVIOUS
<1>4. QED
  BY <1>1, <1>3

LEMMA OrderRead ==
    ASSUME RInv, NEW p \in Replicas, NEW w \in Refreshers, RefreshRead(p, w)
    PROVE  RefreshOrder' /\ snap' = snap
<1> USE AdmissionAssumption DEF RInv, TypeOK, RefreshOrder, Limits, Refreshers
<1>1. /\ snap' = snap /\ config' = config /\ patching' = patching
      /\ refresh[p]["loop"] = None /\ refresh[p]["patch"] = None
  BY DEF RefreshRead, RefreshLockFree
<1>2. CASE w = "patch"
  <2>1. refresh' = [refresh EXCEPT ![p] = [refresh[p] EXCEPT !["patch"] = patching[p]]]
    BY <1>2 DEF RefreshRead
  <2>2. QED
    BY <1>1, <2>1
<1>3. CASE w = "loop"
  <2>1. refresh' = [refresh EXCEPT ![p] = [refresh[p] EXCEPT !["loop"] = config]]
    BY <1>3 DEF RefreshRead
  <2>2. QED
    BY <1>1, <2>1
<1>4. QED
  BY <1>2, <1>3

LEMMA OrderWrite ==
    ASSUME RInv, NEW p \in Replicas, NEW w \in Refreshers, RefreshWrite(p, w) \/ RefreshFails(p, w)
    PROVE  /\ RefreshOrder'
           /\ \A q \in Replicas : \/ snap'[q].version >= snap[q].version
                                 \/ /\ patching[q] # None /\ patching'[q] = None
                                    /\ snap'[q].version = patching[q].version
<1> USE AdmissionAssumption DEF RInv, TypeOK, RefreshOrder, Limits, Refreshers
<1>1. /\ config' = config /\ refresh[p][w] # None
      /\ refresh' = [refresh EXCEPT ![p] = [refresh[p] EXCEPT ![w] = None]]
      /\ patching' = IF w = "patch" THEN [patching EXCEPT ![p] = None] ELSE patching
  BY DEF RefreshWrite, RefreshFails, RefreshOver
<1>2. refresh'[p]["loop"] = None /\ refresh'[p]["patch"] = None
  BY <1>1
<1>3. \A q \in Replicas : q # p => refresh'[q] = refresh[q] /\ patching'[q] = patching[q]
  BY <1>1
<1>4. patching'[p] # None => patching'[p] = patching[p]
  BY <1>1
<1>5. \A q \in Replicas : q # p => snap'[q] = snap[q]
  BY DEF RefreshWrite, RefreshFails
<1>6. snap'[p].version = snap[p].version \/ snap'[p].version = refresh[p][w].version
  BY DEF RefreshWrite, RefreshFails
<1>7. /\ snap[p].version \in Nat /\ refresh[p][w].version \in Nat /\ config.version \in Nat
      /\ refresh[p][w].version <= config.version
  BY <1>1
<1>8. RefreshOrder'
  BY <1>1, <1>2, <1>3, <1>4, <1>5, <1>6, <1>7
<1>9. \/ snap'[p].version >= snap[p].version
      \/ /\ patching[p] # None /\ patching'[p] = None
         /\ snap'[p].version = patching[p].version
  <2>1. CASE w = "loop"
    BY <1>1, <1>6, <1>7, <2>1
  <2>2. CASE w = "patch"
    BY <1>1, <1>6, <1>7, <2>2
  <2>3. QED
    BY <2>1, <2>2
<1>10. \A q \in Replicas : q # p => snap'[q].version >= snap[q].version
  <2>1. \A q \in Replicas : snap[q].version \in Nat
    OBVIOUS
  <2>2. QED
    BY <1>5, <2>1
<1> HIDE DEF RInv, TypeOK, RefreshOrder, Limits, Refreshers
<1>11. QED
  BY <1>8, <1>9, <1>10

LEMMA OrderNext ==
    ASSUME RInv, [Next]_vars
    PROVE  /\ RefreshOrder'
           /\ \A p \in Replicas : \/ snap'[p].version >= snap[p].version
                                 \/ /\ patching[p] # None /\ patching'[p] = None
                                    /\ snap'[p].version = patching[p].version
<1>1. \A p \in Replicas : snap[p].version >= snap[p].version
  BY AdmissionAssumption DEF RInv, TypeOK
<1>2. CASE UNCHANGED limits
  BY <1>1, <1>2 DEF RInv, RefreshOrder, limits
<1>3. CASE LimitStep
  <2>1. ASSUME NEW p \in Replicas \cup {None}, PatchCommit(p) PROVE RefreshOrder' /\ snap' = snap
    BY <2>1, OrderPatch DEF PatchCommit
  <2>2. QED
    BY <1>1, <1>3, <2>1, OrderRead, OrderWrite DEF LimitStep, Refresh
<1>4. CASE (\E s \in Sandboxes : SandboxStep(s)) \/ Reconcile \/ UNCHANGED vars
  BY <1>2, <1>4, LimitsAlone DEF Reconcile, vars
<1>5. QED
  BY <1>3, <1>4, NextSteps

\* The refresh loop of a replica never takes its snapshot back to older limits;
\* only a PATCH handler that a later change overtook does (PlatformLimitsRuntime
\* ._lock, refresh_from_session).
THEOREM SnapshotsOrdered == Spec => SnapshotMonotone
<1>1. Init => RInv
  BY TypeInit, OrderInit DEF RInv
<1>2. RInv /\ [Next]_vars => RInv'
  BY TypeNext, OrderNext DEF RInv
<1>3. RInv /\ [Next]_vars =>
         [\A p \in Replicas :
             \/ snap'[p].version >= snap[p].version
             \/ patching[p] # None /\ patching'[p] = None /\ snap'[p].version = patching[p].version]_vars
  BY OrderNext
<1>4. QED
  BY <1>1, <1>2, <1>3, PTL DEF Spec, SnapshotMonotone

==============================================================================
