---------------------------- MODULE LeaderElection ----------------------------
(***************************************************************************)
(* Which replica of the control plane runs the background loops: the       *)
(* Kubernetes Lease, LeaderElector, and LeaderControlledSyncSupervisor     *)
(* with its shutdown as main.lifespan drives it.                           *)
(*                                                                         *)
(* Time is discrete and kept in timers.  The lease's age is the time since *)
(* its renewTime; an attempt (try_acquire_or_renew and the stopping of the *)
(* loops that may follow it) takes at most MaxLatency, which the code does *)
(* not enforce: it is the parameter that the safety of the protocol        *)
(* depends on.  resourceVersion is the set of reads that are still         *)
(* current: a replace is accepted when the lease has not been written      *)
(* since the writer read it.                                               *)
(***************************************************************************)
EXTENDS Integers

CONSTANTS
    Replicas,             \* holder identities (pod names)
    None,                 \* the empty holderIdentity of a released lease
    Absent,               \* the "holder" of a Lease object that does not exist
    LeaseDuration,        \* lease_duration_seconds
    RenewInterval,        \* renew_interval_seconds
    RetryInterval,        \* retry_interval_seconds
    MaxLatency,           \* bound: an attempt, from its clock reading to its end
    ClockSkew,            \* bound: the difference between two replicas' clocks
    ShutdownMidAttempt,   \* TRUE: a shutdown may begin while an attempt runs
    MaxFaults,            \* bound: Lease API calls that raise
    MaxCrashes,           \* bound: processes that die
    MaxShutdowns,         \* bound: processes that are asked to stop
    MaxLosses             \* bound: times the Lease object is deleted by hand

\* LeaderElector.__init__ refuses other intervals.
ASSUME ElectorAssumption ==
    /\ None \notin Replicas /\ Absent \notin Replicas /\ None # Absent
    /\ LeaseDuration \in Nat /\ RenewInterval \in Nat /\ RetryInterval \in Nat
    /\ MaxLatency \in Nat /\ ClockSkew \in Nat
    /\ MaxFaults \in Nat /\ MaxCrashes \in Nat /\ MaxShutdowns \in Nat /\ MaxLosses \in Nat
    /\ ShutdownMidAttempt \in BOOLEAN
    /\ RenewInterval < LeaseDuration
    /\ RetryInterval <= RenewInterval

VARIABLES
    lease,     \* the Lease: its holder, and the time since its renewTime
    current,   \* <<r, "run">>, <<r, "shut">>: reads of the lease that are still current
    run,       \* run[r]: where supervisor.run() of replica r is
    timer,     \* timer[r]: the age of r's attempt, or what is left of its sleep
    shut,      \* shut[r]: where supervisor.shutdown() of replica r is
    grace,     \* grace[r]: the time since r's shutdown began to stop the loops
    loops,     \* loops[r]: r runs the sync, metering, lifecycle and snapshot loops
    used       \* how much of each bound has been spent

vars == <<lease, current, run, timer, shut, grace, loops, used>>

\* "asleep", in an attempt, "ended" (run() has returned) or "dead" (no process).
Attempt == {"get", "create", "renew", "takeover", "won", "stop"}

\* An age from which every attempt sees the lease as expired.
MaxAge == LeaseDuration + MaxLatency + ClockSkew

Spend(kind) == used' = [used EXCEPT ![kind] = @ + 1]

-----------------------------------------------------------------------------
(* The Lease object.                                                       *)

\* A write that the API server accepts outdates every earlier read.
PutLease(holder, age) ==
    /\ lease' = [holder |-> holder, age |-> age]
    /\ current' = {}

\* _lease_is_expired: the clock is read when the attempt begins, and differs
\* from the clock that wrote renewTime by e.
Expired(r, e) == lease.age - timer[r] + e >= LeaseDuration

\* Somebody deletes the Lease object.
LeaseLost ==
    /\ lease.holder # Absent
    /\ used.losses < MaxLosses
    /\ PutLease(Absent, 0)
    /\ Spend("losses")
    /\ UNCHANGED <<run, timer, shut, grace, loops>>

-----------------------------------------------------------------------------
(* supervisor.run() and try_acquire_or_renew().                            *)

\* Mutant: run() does not look at _stopping.
WakeAlways(r) ==
    /\ run[r] = "asleep" /\ timer[r] = 0
    /\ run' = [run EXCEPT ![r] = "get"]
    /\ UNCHANGED <<lease, current, timer, shut, grace, loops, used>>

\* The sleep is over: the next attempt, unless shutdown() has begun.
Wake(r) ==
    /\ run[r] = "asleep" /\ timer[r] = 0
    /\ run' = [run EXCEPT ![r] = IF shut[r] = "none" THEN "get" ELSE "ended"]
    /\ UNCHANGED <<lease, current, timer, shut, grace, loops, used>>

Sleep(r, interval) ==
    /\ run' = [run EXCEPT ![r] = "asleep"]
    /\ timer' = [timer EXCEPT ![r] = interval]

\* Mutant: a lease without a holder is nobody's to take.
GetLeaseKeepsReleased(r) ==
    /\ run[r] = "get"
    /\ current' = current \cup {<<r, "run">>}
    /\ run' = [run EXCEPT ![r] = CASE lease.holder = Absent -> "create"
                                   [] lease.holder = r      -> "renew"
                                   [] lease.holder = None   -> "stop"
                                   [] OTHER -> IF Expired(r, 0) THEN "takeover" ELSE "stop"]
    /\ UNCHANGED <<lease, timer, shut, grace, loops, used>>

\* get_lease answers, and its answer decides what to write.
GetLease(r) ==
    /\ run[r] = "get"
    /\ current' = current \cup {<<r, "run">>}
    /\ \/ lease.holder = Absent /\ run' = [run EXCEPT ![r] = "create"]
       \/ lease.holder = r      /\ run' = [run EXCEPT ![r] = "renew"]
       \/ lease.holder = None   /\ run' = [run EXCEPT ![r] = "takeover"]
       \/ /\ lease.holder \in Replicas \ {r}
          /\ \E e \in -ClockSkew..ClockSkew :
                run' = [run EXCEPT ![r] = IF Expired(r, e) THEN "takeover" ELSE "stop"]
    /\ UNCHANGED <<lease, timer, shut, grace, loops, used>>

\* Mutant: replace_lease does not send the resourceVersion it read.
AcceptedBlindly(r) ==
    \/ run[r] = "create" /\ lease.holder = Absent
    \/ run[r] \in {"renew", "takeover"} /\ lease.holder # Absent

\* What the API server does with the attempt's write.
Accepted(r) ==
    \/ run[r] = "create" /\ lease.holder = Absent
    \/ run[r] \in {"renew", "takeover"} /\ <<r, "run">> \in current

\* create_lease or replace_lease is carried out; renewTime is the clock reading
\* of the attempt's beginning.
WriteLease(r) ==
    /\ run[r] \in {"create", "renew", "takeover"} /\ Accepted(r)
    /\ PutLease(r, timer[r])
    /\ run' = [run EXCEPT ![r] = "won"]
    /\ UNCHANGED <<timer, shut, grace, loops, used>>

\* 409 from create or replace, 404 from replace: FOLLOWER.
WriteRefused(r) ==
    /\ run[r] \in {"create", "renew", "takeover"} /\ ~Accepted(r)
    /\ run' = [run EXCEPT ![r] = "stop"]
    /\ UNCHANGED <<lease, current, timer, shut, grace, loops, used>>

\* The Lease API raises before the write or, its answer being lost, after it:
\* run() takes leadership for lost.
AttemptFails(r) ==
    /\ run[r] \in Attempt \ {"stop"}
    /\ used.faults < MaxFaults
    /\ Spend("faults")
    /\ run' = [run EXCEPT ![r] = "stop"]
    /\ UNCHANGED <<lease, current, timer, shut, grace, loops>>

\* LEADER: start the loops that are not running.  run() does not look at
\* _stopping between the attempt and this.
Lead(r) ==
    /\ run[r] = "won"
    /\ loops' = [loops EXCEPT ![r] = TRUE]
    /\ Sleep(r, RenewInterval)
    /\ UNCHANGED <<lease, current, shut, grace, used>>

\* FOLLOWER: _stop_all_tasks has cancelled the loops and awaited their end.
Follow(r) ==
    /\ run[r] = "stop"
    /\ loops' = [loops EXCEPT ![r] = FALSE]
    /\ Sleep(r, RetryInterval)
    /\ UNCHANGED <<lease, current, shut, grace, used>>

-----------------------------------------------------------------------------
(* The end of a process: lifespan awaits shutdown(), cancels run(), and    *)
(* the process exits; or it dies.                                          *)

ShutdownBegin(r) ==
    /\ run[r] # "dead" /\ shut[r] = "none"
    /\ ShutdownMidAttempt \/ run[r] = "asleep"
    /\ used.shutdowns < MaxShutdowns
    /\ Spend("shutdowns")
    /\ shut' = [shut EXCEPT ![r] = "stop"]
    /\ grace' = [grace EXCEPT ![r] = 0]
    /\ UNCHANGED <<lease, current, run, timer, loops>>

ShutdownStop(r) ==
    /\ shut[r] = "stop"
    /\ loops' = [loops EXCEPT ![r] = FALSE]
    /\ shut' = [shut EXCEPT ![r] = "get"]
    /\ grace' = [grace EXCEPT ![r] = 0]
    /\ UNCHANGED <<lease, current, run, timer, used>>

\* release_if_held reads the lease: nothing to release, or a lease of its own.
ReleaseGet(r) ==
    /\ shut[r] = "get"
    /\ shut' = [shut EXCEPT ![r] = IF lease.holder = r THEN "put" ELSE "done"]
    /\ current' = current \cup {<<r, "shut">>}
    /\ UNCHANGED <<lease, run, timer, grace, loops, used>>

\* ... and writes it back without a holder.
ReleasePut(r) ==
    /\ shut[r] = "put"
    /\ IF <<r, "shut">> \in current THEN PutLease(None, 0) ELSE UNCHANGED <<lease, current>>
    /\ shut' = [shut EXCEPT ![r] = "done"]
    /\ UNCHANGED <<run, timer, grace, loops, used>>

\* An error of the Lease API ends the release.
ReleaseFails(r) ==
    /\ shut[r] \in {"get", "put"}
    /\ used.faults < MaxFaults
    /\ Spend("faults")
    /\ shut' = [shut EXCEPT ![r] = "done"]
    /\ UNCHANGED <<lease, current, run, timer, grace, loops>>

\* run() is cancelled wherever it is; its own call of shutdown() finds the work
\* done and returns, whatever runs by then.
Cancel(r) ==
    /\ shut[r] = "done" /\ run[r] \notin {"ended", "dead"}
    /\ run' = [run EXCEPT ![r] = "ended"]
    /\ UNCHANGED <<lease, current, timer, shut, grace, loops, used>>

\* No process: nothing runs.
Gone(r) ==
    /\ run' = [run EXCEPT ![r] = "dead"]
    /\ loops' = [loops EXCEPT ![r] = FALSE]
    /\ shut' = [shut EXCEPT ![r] = "none"]
    /\ timer' = [timer EXCEPT ![r] = 0]
    /\ grace' = [grace EXCEPT ![r] = 0]
    /\ UNCHANGED <<lease, current>>

Exit(r) ==
    /\ shut[r] = "done" /\ run[r] = "ended"
    /\ Gone(r)
    /\ UNCHANGED used

Crash(r) ==
    /\ run[r] # "dead"
    /\ used.crashes < MaxCrashes
    /\ Spend("crashes")
    /\ Gone(r)

\* A new process with the same identity: a restarted container.
Restart(r) ==
    /\ run[r] = "dead"
    /\ run' = [run EXCEPT ![r] = "get"]
    /\ timer' = [timer EXCEPT ![r] = 0]
    /\ UNCHANGED <<lease, current, shut, grace, loops, used>>

-----------------------------------------------------------------------------
(* Time passes unless a sleep is over or a bounded step is due.            *)

Tick ==
    /\ \A r \in Replicas :
          /\ run[r] = "asleep" => timer[r] > 0
          /\ run[r] \in Attempt => timer[r] < MaxLatency
          /\ shut[r] = "stop" => grace[r] < MaxLatency
    /\ timer' = [r \in Replicas |-> IF run[r] = "asleep" THEN timer[r] - 1
                                    ELSE IF run[r] \in Attempt THEN timer[r] + 1
                                    ELSE timer[r]]
    /\ grace' = [r \in Replicas |-> IF shut[r] = "stop" THEN grace[r] + 1 ELSE grace[r]]
    /\ lease' = [lease EXCEPT !.age = IF lease.age < MaxAge THEN lease.age + 1 ELSE lease.age]
    /\ UNCHANGED <<current, run, shut, loops, used>>

-----------------------------------------------------------------------------
Init ==
    /\ lease = [holder |-> Absent, age |-> 0]
    /\ current = {}
    /\ run = [r \in Replicas |-> "get"] /\ timer = [r \in Replicas |-> 0]
    /\ shut = [r \in Replicas |-> "none"] /\ grace = [r \in Replicas |-> 0]
    /\ loops = [r \in Replicas |-> FALSE]
    /\ used = [faults |-> 0, crashes |-> 0, shutdowns |-> 0, losses |-> 0]

\* What replica r does by itself.
Step(r) ==
    \/ Wake(r) \/ GetLease(r) \/ WriteLease(r) \/ WriteRefused(r) \/ Lead(r) \/ Follow(r)
    \/ ShutdownStop(r) \/ ReleaseGet(r) \/ ReleasePut(r) \/ Cancel(r) \/ Exit(r)

Next ==
    \/ \E r \in Replicas :
          Step(r) \/ AttemptFails(r) \/ ReleaseFails(r) \/ ShutdownBegin(r) \/ Crash(r) \/ Restart(r)
    \/ LeaseLost
    \/ Tick

Spec == Init /\ [][Next]_vars

\* Every process goes on, and time passes.
FairSpec == Spec /\ WF_vars(Tick) /\ \A r \in Replicas : WF_vars(Step(r))

-----------------------------------------------------------------------------
(* Properties.                                                             *)

\* Every variable keeps its type: no sleep is overslept, and no renewTime lies
\* in the future of the clock that wrote it.
TypeOK ==
    /\ lease \in [holder: Replicas \cup {None, Absent}, age: 0..MaxAge]
    /\ current \subseteq Replicas \X {"run", "shut"}
    /\ run \in [Replicas -> Attempt \cup {"asleep", "ended", "dead"}]
    /\ timer \in [Replicas -> Nat]
    /\ shut \in [Replicas -> {"none", "stop", "get", "put", "done"}]
    /\ grace \in [Replicas -> Nat]
    /\ loops \in [Replicas -> BOOLEAN]
    /\ used \in [faults: 0..MaxFaults, crashes: 0..MaxCrashes,
                 shutdowns: 0..MaxShutdowns, losses: 0..MaxLosses]

\* Only the replica that the Lease names runs the background loops, through
\* slow and lost calls, crashes, restarts and shutdowns, until somebody deletes
\* the Lease by hand (LeaderElector, LeaderControlledSyncSupervisor).
OnlyHolderRuns == used.losses = 0 => \A r \in Replicas : loops[r] => lease.holder = r

\* The background loops run in at most one replica.
AtMostOneLeader == \A r, q \in Replicas : loops[r] /\ loops[q] => r = q

\* A shutdown that met no error leaves the lease to others: nobody waits for it
\* to expire (release_if_held).
ShutdownReleases ==
    \A r \in Replicas : shut[r] = "done" /\ used.faults = 0 => lease.holder # r

\* Leadership is found again after every crash, shutdown, error or loss of the
\* lease, as long as some replica is up.
LedAgain == []<>(\/ \E r \in Replicas : loops[r]
                 \/ \A r \in Replicas : run[r] = "dead" \/ shut[r] # "none")
=============================================================================
