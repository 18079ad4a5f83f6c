------------------------ MODULE LeaderElectionProofs ------------------------
(***************************************************************************)
(* OnlyHolderRuns for every set of replicas and all intervals, as long as  *)
(* a lease outlives one renewal interval, two attempts and the clock skew, *)
(* no shutdown begins while an attempt runs, and nobody deletes the Lease. *)
(***************************************************************************)
EXTENDS LeaderElection, TLAPS

\* The condition on the deployment under which the protocol is safe.
Timely ==
    /\ RenewInterval + 2 * MaxLatency + ClockSkew < LeaseDuration
    /\ ~ShutdownMidAttempt
    /\ MaxLosses = 0

-----------------------------------------------------------------------------
(* The inductive invariant.                                                *)

\* No bounded step is overdue.
InTime(r) ==
    /\ run[r] \in Attempt => timer[r] <= MaxLatency
    /\ shut[r] = "stop" => grace[r] <= MaxLatency

\* A shutdown begins in a sleep, and run() makes no attempt after that; the
\* loops are stopped before the lease is released.
Orderly(r) ==
    /\ shut[r] # "none" => run[r] \in {"asleep", "ended"}
    /\ shut[r] \in {"get", "put", "done"} => ~loops[r]
    /\ run[r] = "ended" => shut[r] # "none"
    /\ run[r] = "dead" => ~loops[r]

\* How old the lease can be while r relies on it.
Budget(r) ==
    RenewInterval + MaxLatency +
        (IF shut[r] = "stop" THEN grace[r]
         ELSE IF run[r] = "asleep" THEN -timer[r]
         ELSE timer[r])

\* A replica that runs the loops, or is about to, holds a lease that is young
\* enough not to expire before the replica's next decision.
Covered(r) ==
    /\ loops[r] => lease.holder = r /\ lease.age <= Budget(r)
    /\ run[r] = "won" => lease.holder = r /\ lease.age <= timer[r]

\* What a read that is still current says about the lease.
Informed(r) ==
    /\ run[r] = "renew" /\ <<r, "run">> \in current => lease.holder = r
    /\ run[r] = "takeover" /\ <<r, "run">> \in current =>
          lease.holder = None \/ lease.age >= LeaseDuration - ClockSkew
    /\ shut[r] = "put" /\ <<r, "shut">> \in current => lease.holder = r

TInv == TypeOK /\ \A r \in Replicas : InTime(r)

Safe(r) == Orderly(r) /\ Covered(r) /\ Informed(r)

IInv == TInv /\ \A r \in Replicas : Safe(r)


-----------------------------------------------------------------------------
(* Types and deadlines, for any intervals.                                 *)

\* The steps of one replica keep types and deadlines.
LEMMA TypeReplica ==
    ASSUME TInv, NEW r \in Replicas,
           \/ Step(r) \/ AttemptFails(r) \/ ReleaseFails(r)
           \/ ShutdownBegin(r) \/ Crash(r) \/ Restart(r)
    PROVE  TInv'
<1> USE ElectorAssumption DEF TInv, TypeOK, InTime, Attempt, MaxAge
<1>1. CASE Wake(r)
  BY <1>1 DEF Wake
<1>2. CASE GetLease(r)
  BY <1>2 DEF GetLease
<1>3. CASE WriteLease(r)
  BY <1>3 DEF WriteLease, PutLease
<1>4. CASE WriteRefused(r)
  BY <1>4 DEF WriteRefused
<1>5. CASE Lead(r)
  BY <1>5 DEF Lead, Sleep
<1>6. CASE Follow(r)
  BY <1>6 DEF Follow, Sleep
<1>7. CASE ShutdownStop(r)
  BY <1>7 DEF ShutdownStop
<1>8. CASE ReleaseGet(r)
  BY <1>8 DEF ReleaseGet
<1>9. CASE ReleasePut(r)
  BY <1>9 DEF ReleasePut, PutLease
<1>10. CASE Cancel(r)
  BY <1>10 DEF Cancel
<1>11. CASE Exit(r)
  BY <1>11 DEF Exit, Gone
<1>12. CASE AttemptFails(r)
  BY <1>12 DEF AttemptFails, Spend
<1>13. CASE ReleaseFails(r)
  BY <1>13 DEF ReleaseFails, Spend
<1>14. CASE ShutdownBegin(r)
  BY <1>14 DEF ShutdownBegin, Spend
<1>15. CASE Crash(r)
  BY <1>15 DEF Crash, Gone, Spend
<1>16. CASE Restart(r)
  BY <1>16 DEF Restart
<1> QED
  BY <1>1, <1>2, <1>3, <1>4, <1>5, <1>6, <1>7, <1>8, <1>9, <1>10, <1>11, <1>12,
     <1>13, <1>14, <1>15, <1>16 DEF Step

\* So do the loss of the Lease, the passing of time, and stuttering.
LEMMA TypeWorld ==
    ASSUME TInv, LeaseLost \/ Tick \/ UNCHANGED vars
    PROVE  TInv'
<1> USE ElectorAssumption DEF TInv, TypeOK, InTime, Attempt, MaxAge
<1>1. CASE LeaseLost
  BY <1>1 DEF LeaseLost, PutLease, Spend
<1>2. CASE Tick
  BY <1>2 DEF Tick
<1>3. CASE UNCHANGED vars
  BY <1>3 DEF vars
<1> QED
  BY <1>1, <1>2, <1>3

\* Every variable keeps its type and no bounded step is ever overdue, whatever
\* the intervals, latencies and bounds are.
THEOREM TypeCorrect == Spec => []TypeOK
<1>1. Init => TInv
  BY ElectorAssumption DEF Init, TInv, TypeOK, InTime, Attempt, MaxAge
<1>2. TInv /\ [Next]_vars => TInv'
  BY TypeReplica, TypeWorld DEF Next
<1>3. TInv => TypeOK
  BY DEF TInv
<1> QED
  BY <1>1, <1>2, <1>3, PTL DEF Spec

-----------------------------------------------------------------------------
(* Only the holder runs the loops, under Timely.                           *)

\* The lease of a replica that runs the loops, or is about to, is not expired
\* for anybody.
LEMMA CoveredIsYoung ==
    ASSUME Timely, IInv, NEW r \in Replicas, loops[r] \/ run[r] = "won"
    PROVE  lease.holder = r /\ lease.age < LeaseDuration - ClockSkew
<1> USE ElectorAssumption DEF Timely, IInv, TInv, TypeOK, Safe, InTime, Orderly, Covered, Budget, Attempt
<1>1. CASE run[r] = "won"
  BY <1>1
<1>2. CASE loops[r] /\ shut[r] = "stop"
  BY <1>2
<1>3. CASE loops[r] /\ shut[r] = "none"
  BY <1>3
<1> QED
  BY <1>1, <1>2, <1>3

\* An accepted write takes the lease from nobody who relies on it.
LEMMA WriteTakesNothing ==
    ASSUME Timely, IInv, NEW r \in Replicas, WriteLease(r), NEW q \in Replicas, q # r
    PROVE  ~loops[q] /\ run[q] # "won"
<1> SUFFICES ASSUME loops[q] \/ run[q] = "won" PROVE FALSE
  OBVIOUS
<1>1. lease.holder = q /\ lease.age < LeaseDuration - ClockSkew
  BY CoveredIsYoung
<1>2. q # None /\ q # Absent
  BY ElectorAssumption
<1>3. CASE run[r] = "create"
  BY <1>1, <1>2, <1>3 DEF WriteLease, Accepted
<1>4. CASE run[r] = "renew"
  BY <1>1, <1>4 DEF WriteLease, Accepted, IInv, Safe, Informed
<1>5. CASE run[r] = "takeover"
  <2>1. lease.age >= LeaseDuration - ClockSkew
    BY <1>1, <1>2, <1>5 DEF WriteLease, Accepted, IInv, Safe, Informed
  <2> QED
    BY <1>1, <2>1, ElectorAssumption DEF IInv, TInv, TypeOK
<1> QED
  BY <1>3, <1>4, <1>5 DEF WriteLease

\* A step of one replica keeps that replica safe.
LEMMA SafeSelf ==
    ASSUME Timely, IInv, NEW r \in Replicas,
           \/ Step(r) \/ AttemptFails(r) \/ ReleaseFails(r)
           \/ ShutdownBegin(r) \/ Crash(r) \/ Restart(r)
    PROVE  Safe(r)'
<1>0. TypeOK /\ InTime(r) /\ Orderly(r) /\ Covered(r) /\ Informed(r)
  BY DEF IInv, TInv, Safe
<1> USE <1>0, ElectorAssumption DEF TypeOK, InTime, Attempt, Orderly
<1>1. CASE Wake(r)
  <2>1. Orderly(r)' /\ Informed(r)'
    BY <1>1 DEF Wake, Informed
  <2>2. Covered(r)'
    BY <1>1 DEF Wake, Covered, Budget
  <2> QED
    BY <2>1, <2>2 DEF Safe
<1>2. CASE GetLease(r)
  <2>1. Orderly(r)'
    BY <1>2 DEF GetLease
  <2>2. Covered(r)'
    BY <1>2 DEF GetLease, Covered, Budget
  <2>3. Informed(r)'
    BY <1>2 DEF GetLease, Expired, Informed
  <2> QED
    BY <2>1, <2>2, <2>3 DEF Safe
<1>3. CASE WriteLease(r)
  <2>1. Orderly(r)' /\ Informed(r)'
    BY <1>3 DEF WriteLease, PutLease, Informed
  <2>2. Covered(r)'
    BY <1>3 DEF WriteLease, PutLease, Covered, Budget
  <2> QED
    BY <2>1, <2>2 DEF Safe
<1>4. CASE WriteRefused(r)
  <2>1. Orderly(r)' /\ Informed(r)'
    BY <1>4 DEF WriteRefused, Informed
  <2>2. Covered(r)'
    BY <1>4 DEF WriteRefused, Covered, Budget
  <2> QED
    BY <2>1, <2>2 DEF Safe
<1>5. CASE Lead(r)
  <2>1. Orderly(r)' /\ Informed(r)'
    BY <1>5 DEF Lead, Sleep, Informed
  <2>2. Covered(r)'
    BY <1>5 DEF Lead, Sleep, Covered, Budget
  <2> QED
    BY <2>1, <2>2 DEF Safe
<1>6. CASE Follow(r)
  BY <1>6 DEF Follow, Sleep, Safe, Covered, Informed
<1>7. CASE ShutdownStop(r)
  BY <1>7 DEF ShutdownStop, Safe, Covered, Informed
<1>8. CASE ReleaseGet(r)
  BY <1>8 DEF ReleaseGet, Safe, Covered, Informed
<1>9. CASE ReleasePut(r)
  BY <1>9 DEF ReleasePut, PutLease, Safe, Covered, Informed
<1>10. CASE Cancel(r)
  BY <1>10 DEF Cancel, Safe, Covered, Informed
<1>11. CASE Exit(r) \/ Crash(r)
  BY <1>11 DEF Exit, Crash, Gone, Safe, Covered, Informed
<1>12. CASE AttemptFails(r)
  <2>1. Orderly(r)' /\ Informed(r)'
    BY <1>12 DEF AttemptFails, Informed
  <2>2. Covered(r)'
    BY <1>12 DEF AttemptFails, Covered, Budget
  <2> QED
    BY <2>1, <2>2 DEF Safe
<1>13. CASE ReleaseFails(r)
  BY <1>13 DEF ReleaseFails, Safe, Covered, Informed
<1>14. CASE ShutdownBegin(r)
  <2>1. run[r] = "asleep"
    BY <1>14 DEF ShutdownBegin, Timely
  <2>2. Orderly(r)' /\ Informed(r)'
    BY <1>14, <2>1 DEF ShutdownBegin, Informed
  <2>3. Covered(r)'
    BY <1>14, <2>1 DEF ShutdownBegin, Covered, Budget
  <2> QED
    BY <2>2, <2>3 DEF Safe
<1>15. CASE Restart(r)
  BY <1>15 DEF Restart, Safe, Covered, Informed
<1> QED
  BY <1>1, <1>2, <1>3, <1>4, <1>5, <1>6, <1>7, <1>8, <1>9, <1>10, <1>11, <1>12,
     <1>13, <1>14, <1>15 DEF Step

\* A step of one replica keeps every other replica safe: it can only disturb
\* them through the lease.
LEMMA SafeOthers ==
    ASSUME Timely, IInv, NEW r \in Replicas, NEW q \in Replicas, q # r,
           \/ Step(r) \/ AttemptFails(r) \/ ReleaseFails(r)
           \/ ShutdownBegin(r) \/ Crash(r) \/ Restart(r)
    PROVE  Safe(q)'
<1>0. TypeOK /\ Orderly(q) /\ Covered(q) /\ Informed(q) /\ Informed(r)
  BY DEF IInv, TInv, Safe
<1>1. /\ run'[q] = run[q] /\ timer'[q] = timer[q] /\ shut'[q] = shut[q]
      /\ grace'[q] = grace[q] /\ loops'[q] = loops[q]
  BY <1>0 DEF TypeOK, Step, Wake, GetLease, WriteLease, WriteRefused, Lead, Follow, Sleep, ShutdownStop,
     ReleaseGet, ReleasePut, Cancel, Exit, Gone, AttemptFails, ReleaseFails, ShutdownBegin, Crash, Restart
<1>2. CASE WriteLease(r)
  <2>1. ~loops[q] /\ run[q] # "won"
    BY <1>2, WriteTakesNothing
  <2> QED
    BY <1>0, <1>1, <1>2, <2>1 DEF WriteLease, PutLease, Safe, Orderly, Covered, Informed
<1>3. CASE ReleasePut(r) /\ <<r, "shut">> \in current
  <2>1. lease.holder = r
    BY <1>0, <1>3 DEF ReleasePut, Informed
  <2>2. ~loops[q] /\ run[q] # "won"
    BY <1>0, <2>1 DEF Covered
  <2> QED
    BY <1>0, <1>1, <1>3, <2>2 DEF ReleasePut, PutLease, Safe, Orderly, Covered, Informed
<1>4. CASE ~WriteLease(r) /\ ~(ReleasePut(r) /\ <<r, "shut">> \in current)
  <2>1. lease' = lease
    BY <1>4 DEF Step, Wake, GetLease, WriteRefused, Lead, Follow, ShutdownStop, ReleaseGet,
       ReleasePut, Cancel, Exit, Gone, AttemptFails, ReleaseFails, ShutdownBegin, Crash, Restart
  <2>2. \A k \in {"run", "shut"} : <<q, k>> \in current' => <<q, k>> \in current
    BY <1>4 DEF Step, Wake, GetLease, WriteRefused, Lead, Follow, ShutdownStop, ReleaseGet,
       ReleasePut, Cancel, Exit, Gone, AttemptFails, ReleaseFails, ShutdownBegin, Crash, Restart
  <2> QED
    BY <1>0, <1>1, <2>1, <2>2 DEF Safe, Orderly, Covered, Budget, Informed
<1> QED
  BY <1>2, <1>3, <1>4

\* Time keeps every replica safe: an age and the budget for it grow together.
LEMMA SafeTick ==
    ASSUME Timely, IInv, Tick, NEW q \in Replicas
    PROVE  Safe(q)'
<1>0. TypeOK /\ InTime(q) /\ Orderly(q) /\ Covered(q) /\ Informed(q)
  BY DEF IInv, TInv, Safe
<1>1. /\ lease'.holder = lease.holder /\ lease.age \in Nat /\ lease'.age \in Nat
      /\ lease.age <= lease'.age /\ lease'.age <= lease.age + 1
  BY <1>0, ElectorAssumption DEF TypeOK, Tick, MaxAge
<1>2. /\ run' = run /\ shut' = shut /\ loops' = loops /\ current' = current
      /\ timer[q] \in Nat /\ grace[q] \in Nat
      /\ run[q] \in Attempt \cup {"asleep", "ended", "dead"}
      /\ shut[q] \in {"none", "stop", "get", "put", "done"}
      /\ run[q] = "asleep" => timer'[q] = timer[q] - 1
      /\ run[q] \in Attempt => timer'[q] = timer[q] + 1
      /\ shut[q] = "stop" => grace'[q] = grace[q] + 1
  BY <1>0 DEF TypeOK, Tick, Attempt
<1>3. Orderly(q)' /\ Informed(q)'
  BY <1>0, <1>1, <1>2, ElectorAssumption DEF Orderly, Informed
<1>4. Covered(q)'
  BY <1>0, <1>1, <1>2, ElectorAssumption DEF Covered, Budget, Orderly, Attempt
<1> QED
  BY <1>3, <1>4 DEF Safe

\* IInv is an invariant of a timely deployment.
LEMMA Inductive ==
    ASSUME Timely
    PROVE  Spec => []IInv
<1>1. Init => IInv
  BY ElectorAssumption
     DEF Init, IInv, TInv, TypeOK, InTime, Attempt, MaxAge, Safe, Orderly, Covered, Informed
<1>2. IInv /\ [Next]_vars => IInv'
  <2> SUFFICES ASSUME IInv, [Next]_vars PROVE IInv'
    OBVIOUS
  <2>1. TInv'
    BY TypeReplica, TypeWorld DEF Next, IInv
  <2>2. ASSUME NEW r \in Replicas,
               \/ Step(r) \/ AttemptFails(r) \/ ReleaseFails(r)
               \/ ShutdownBegin(r) \/ Crash(r) \/ Restart(r)
        PROVE  \A q \in Replicas : Safe(q)'
    BY <2>2, SafeSelf, SafeOthers
  <2>3. ~LeaseLost
    BY ElectorAssumption DEF Timely, LeaseLost, IInv, TInv, TypeOK
  <2>4. ASSUME UNCHANGED vars
        PROVE  \A q \in Replicas : Safe(q)'
    BY <2>4 DEF vars, IInv, Safe, Orderly, Covered, Budget, Informed
  <2>5. \A q \in Replicas : Safe(q)'
    BY <2>2, <2>3, <2>4, SafeTick DEF Next, IInv
  <2> QED
    BY <2>1, <2>5 DEF IInv
<1> QED
  BY <1>1, <1>2, PTL DEF Spec

\* Only the replica that the Lease names runs the background loops, for any
\* number of replicas and any intervals that are Timely.
THEOREM HolderTheorem ==
    ASSUME Timely
    PROVE  Spec => []OnlyHolderRuns
<1>1. IInv => OnlyHolderRuns
  BY DEF IInv, Safe, Covered, OnlyHolderRuns
<1> QED
  BY <1>1, Inductive, PTL

\* Hence the loops run in at most one replica.
THEOREM LeaderTheorem ==
    ASSUME Timely
    PROVE  Spec => []AtMostOneLeader
<1>1. IInv => AtMostOneLeader
  BY DEF IInv, Safe, Covered, AtMostOneLeader
<1> QED
  BY <1>1, Inductive, PTL

-----------------------------------------------------------------------------
(* A clean shutdown releases the lease, whatever the intervals are.        *)

\* Once r's shutdown has read the lease, either that read is still current or
\* somebody else has taken the lease; after the release r never holds it.
Released(r) ==
    used.faults = 0 =>
        /\ shut[r] = "put" /\ <<r, "shut">> \notin current => lease.holder # r
        /\ shut[r] = "done" => lease.holder # r

RInv == TInv /\ \A r \in Replicas : Orderly(r) /\ Released(r)

\* A step of r keeps r's own shutdown in order.
LEMMA ReleasedSelf ==
    ASSUME ~ShutdownMidAttempt, RInv, NEW r \in Replicas,
           \/ Step(r) \/ AttemptFails(r) \/ ReleaseFails(r)
           \/ ShutdownBegin(r) \/ Crash(r) \/ Restart(r)
    PROVE  Orderly(r)' /\ Released(r)'
<1>0. TypeOK /\ Orderly(r) /\ Released(r)
  BY DEF RInv, TInv
<1>1. Orderly(r)'
  BY <1>0 DEF TypeOK, Orderly, Attempt, Step, Wake, GetLease, WriteLease, WriteRefused, Lead, Follow, Sleep,
     ShutdownStop, ReleaseGet, ReleasePut, Cancel, Exit, Gone, AttemptFails, ReleaseFails, ShutdownBegin,
     Crash, Restart
<1>2. CASE AttemptFails(r) \/ ReleaseFails(r)
  BY <1>0, <1>1, <1>2 DEF TypeOK, Released, AttemptFails, ReleaseFails, Spend
<1>3. CASE ReleaseGet(r)
  BY <1>0, <1>1, <1>3 DEF TypeOK, Released, ReleaseGet
<1>4. CASE ReleasePut(r)
  <2>1. r # None
    BY ElectorAssumption
  <2> QED
    BY <1>0, <1>1, <1>4, <2>1 DEF TypeOK, Released, ReleasePut, PutLease
<1>5. CASE Crash(r) \/ Exit(r) \/ ShutdownBegin(r) \/ ShutdownStop(r)
  BY <1>0, <1>1, <1>5 DEF TypeOK, Released, Crash, Exit, Gone, ShutdownBegin, ShutdownStop
<1>6. CASE Cancel(r) \/ Wake(r) \/ Restart(r)
  BY <1>0, <1>1, <1>6 DEF TypeOK, Released, Cancel, Wake, Restart
<1>7. CASE GetLease(r) \/ WriteLease(r) \/ WriteRefused(r) \/ Lead(r) \/ Follow(r)
  BY <1>0, <1>1, <1>7
     DEF TypeOK, Orderly, Released, GetLease, WriteLease, WriteRefused, Lead, Follow, Sleep
<1> QED
  BY <1>2, <1>3, <1>4, <1>5, <1>6, <1>7 DEF Step

\* A step of r leaves the shutdown of every other replica in order: it gives
\* the lease to nobody but r.
LEMMA ReleasedOthers ==
    ASSUME RInv, NEW r \in Replicas, NEW q \in Replicas, q # r,
           \/ Step(r) \/ AttemptFails(r) \/ ReleaseFails(r)
           \/ ShutdownBegin(r) \/ Crash(r) \/ Restart(r)
    PROVE  Orderly(q)' /\ Released(q)'
<1>0. TypeOK /\ Orderly(q) /\ Released(q)
  BY DEF RInv, TInv
<1>1. run'[q] = run[q] /\ shut'[q] = shut[q] /\ loops'[q] = loops[q]
  BY <1>0 DEF TypeOK, Step, Wake, GetLease, WriteLease, WriteRefused, Lead, Follow, Sleep, ShutdownStop,
     ReleaseGet, ReleasePut, Cancel, Exit, Gone, AttemptFails, ReleaseFails, ShutdownBegin, Crash, Restart
<1>2. q # None
  BY ElectorAssumption
<1>3. \/ lease'.holder # q
      \/ lease' = lease /\ (<<q, "shut">> \in current => <<q, "shut">> \in current')
  BY <1>2 DEF Step, Wake, GetLease, WriteLease, PutLease, WriteRefused, Lead, Follow, Sleep, ShutdownStop,
     ReleaseGet, ReleasePut, Cancel, Exit, Gone, AttemptFails, ReleaseFails, ShutdownBegin, Crash, Restart
<1>4. used'.faults = 0 => used.faults = 0
  BY <1>0, ElectorAssumption DEF TypeOK, Step, Wake, GetLease, WriteLease, WriteRefused, Lead, Follow,
     ShutdownStop, ReleaseGet, ReleasePut, Cancel, Exit, AttemptFails, ReleaseFails, ShutdownBegin, Crash,
     Restart, Spend
<1> QED
  BY <1>0, <1>1, <1>3, <1>4 DEF Orderly, Released

\* A shutdown that begins between two attempts and meets no error leaves the
\* lease to others, in every deployment.
THEOREM ShutdownTheorem ==
    ASSUME ~ShutdownMidAttempt
    PROVE  Spec => []ShutdownReleases
<1>1. Init => RInv
  BY ElectorAssumption DEF Init, RInv, TInv, TypeOK, InTime, Attempt, MaxAge, Orderly, Released
<1>2. RInv /\ [Next]_vars => RInv'
  <2> SUFFICES ASSUME RInv, [Next]_vars PROVE RInv'
    OBVIOUS
  <2>1. TInv'
    BY TypeReplica, TypeWorld DEF Next, RInv
  <2>2. ASSUME NEW r \in Replicas,
               \/ Step(r) \/ AttemptFails(r) \/ ReleaseFails(r)
               \/ ShutdownBegin(r) \/ Crash(r) \/ Restart(r)
        PROVE  \A q \in Replicas : Orderly(q)' /\ Released(q)'
    BY <2>2, ReleasedSelf, ReleasedOthers
  <2>3. ASSUME LeaseLost
        PROVE  \A q \in Replicas : Orderly(q)' /\ Released(q)'
    BY <2>3, ElectorAssumption DEF LeaseLost, PutLease, RInv, Orderly, Released
  <2>4. ASSUME Tick \/ UNCHANGED vars
        PROVE  \A q \in Replicas : Orderly(q)' /\ Released(q)'
    <3>1. /\ run' = run /\ shut' = shut /\ loops' = loops /\ current' = current
          /\ used' = used /\ lease'.holder = lease.holder
      BY <2>4 DEF Tick, vars, RInv, TInv, TypeOK
    <3> QED
      BY <3>1 DEF RInv, Orderly, Released
  <2>5. \A q \in Replicas : Orderly(q)' /\ Released(q)'
    BY <2>2, <2>3, <2>4 DEF Next
  <2> QED
    BY <2>1, <2>5 DEF RInv
<1>3. RInv => ShutdownReleases
  BY DEF RInv, Released, ShutdownReleases
<1> QED
  BY <1>1, <1>2, <1>3, PTL DEF Spec
=============================================================================
