------------------------------- MODULE Metering -------------------------------
(***************************************************************************)
(* One user's compute credits: the plan, the grants and the compute        *)
(* sessions of the user's sandboxes, with everything that meters and       *)
(* charges them: the leader's metering tick (metering, warnings, grace     *)
(* period, monthly reset), the closing and opening of sessions by          *)
(* requests, observers and repair hooks, and administrators' grants.       *)
(*                                                                         *)
(* Time is counted in tick intervals and a running sandbox costs one       *)
(* credit per interval.  A step of the tick is cut where it has read rows  *)
(* that others may write before it commits.  The ORM writes the attributes *)
(* that changed (Merge); SELECT ... FOR UPDATE waits for the row's writer, *)
(* but gives the attributes of an object the session holds already as they *)
(* were when that was loaded.                                              *)
(***************************************************************************)
EXTENDS Integers, Sequences, FiniteSets, FiniteSetsExt, TLC

CONSTANTS
    Sandboxes,        \* the user's sandboxes
    Limit,            \* compute_units_monthly_limit
    GracePeriods,     \* the plans' grace_period_seconds, in tick intervals
    MaxCloseDelta,    \* MAX_CLOSE_DELTA_SECONDS, in tick intervals
    PeriodLength,     \* a month
    GrantAmount,      \* the amount of a grant
    MaxTime,          \* bound: how far time goes
    MaxOps,           \* bound: stops and starts by the user
    MaxGrants,        \* bound: grants by administrators
    MaxMishaps        \* bound: tick steps that raise, and intervals without a leader

ASSUME MeteringAssumption ==
    /\ IsFiniteSet(Sandboxes)
    /\ {Limit, MaxCloseDelta, GrantAmount} \cup GracePeriods \subseteq Nat
    /\ GracePeriods # {}
    /\ {MaxTime, MaxOps, MaxGrants, MaxMishaps} \subseteq Nat
    /\ PeriodLength \in Nat \ {0}

VARIABLES
    now,       \* the time
    status,    \* status[s]: "creating", "ready" or "stopped" in the database
    mode,      \* mode[s]: operatingMode of the sandbox's CR
    cs,        \* the ComputeSession table, in order of insertion
    plan,      \* the UserPlan row
    grants,    \* the ComputeGrant table, in order of insertion
    tick,      \* the metering tick: its step and what that has read
    repair,    \* the session that reconcile_metering is about to close: its row
    served,    \* served[s]: intervals during which s had an open session
    stale,     \* whether anybody has charged from a row that had changed since
    used       \* how much of each bound has been spent

vars == <<now, status, mode, cs, plan, grants, tick, repair, served, stale, used>>

world == <<now, repair, served, stale>>

-----------------------------------------------------------------------------
(* The tables.                                                             *)

None  == -1          \* NULL, for grace_period_started_at
Never == MaxTime + 1 \* NULL, for expires_at: later than every moment

NewPlan(g) == [used |-> 0, overage |-> 0, start |-> 0, end |-> PeriodLength,
               patience |-> g, grace |-> None, warn80 |-> FALSE, warn100 |-> FALSE]

NewSession(s, t) == [sandbox |-> s, open |-> TRUE, started |-> t, last |-> t, hours |-> 0]

OpenSessions == {i \in DOMAIN cs : cs[i].open}
OpenOf(s) == {i \in OpenSessions : cs[i].sandbox = s}
Running == {s \in Sandboxes : status[s] \in {"creating", "ready"}}

\* A flush writes what changed between loading an object and now.
Merge(row, loaded, changed) ==
    [f \in DOMAIN row |-> IF changed[f] # loaded[f] THEN changed[f] ELSE row[f]]

\* SUM(f) over the rows S.
Total(f, S) == MapThenSumSet(LAMBDA x : f[x], S)

Usable(g) == grants[g].left > 0 /\ grants[g].expires > now
Left == [g \in DOMAIN grants |-> grants[g].left]
Extra == Total(Left, {g \in DOMAIN grants : Usable(g)})

\* get_total_compute_remaining, for a plan as somebody knows it.
TotalRemaining(p) == Limit - p.used + Extra - p.overage

-----------------------------------------------------------------------------
(* consume_compute_credits: monthly pool, then grants by expiry, then debt.*)

\* Mutant: the monthly pool ends at its limit and forgets the rest.
ConsumedPlanForgets(p, amount) ==
    LET monthly == Max({0, Min({amount, Limit - p.used})})
    IN  [p EXCEPT !.used = @ + monthly]

\* What remains of the amount for the grants.
ExtraNeeded(p, amount) == amount - Max({0, Min({amount, Limit - p.used})})

\* The grants that are drawn before g.
Earlier(g) ==
    {h \in DOMAIN grants : Usable(h) /\ \/ grants[h].expires < grants[g].expires
                                        \/ grants[h].expires = grants[g].expires /\ h < g}

\* Mutant: a grant gives whatever is still needed.
DeductUnbounded(g, needed) ==
    IF ~Usable(g) THEN 0
    ELSE Max({0, needed - Total(Left, Earlier(g))})

Deduct(g, needed) ==
    IF ~Usable(g) THEN 0
    ELSE Max({0, Min({grants[g].left, needed - Total(Left, Earlier(g))})})

ConsumedPlan(p, amount) ==
    LET needed == ExtraNeeded(p, amount)
    IN  IF amount = 0 THEN p
        ELSE [p EXCEPT !.used = @ + (amount - needed),
                       !.overage = @ + Max({0, needed - Extra})]

\* Mutant: grants are drawn first.
ConsumedGrantsFirst(p, amount) ==
    [g \in DOMAIN grants |-> [grants[g] EXCEPT !.left = @ - Deduct(g, amount)]]

ConsumedGrants(p, amount) ==
    IF ExtraNeeded(p, amount) = 0 THEN grants
    ELSE [g \in DOMAIN grants |-> [grants[g] EXCEPT !.left = @ - Deduct(g, ExtraNeeded(p, amount))]]

-----------------------------------------------------------------------------
(* Compute sessions.                                                       *)

\* The final slice, capped.
CloseElapsed(c) == Min({now - c.last, MaxCloseDelta})

Closed(c) == [c EXCEPT !.open = FALSE, !.last = now, !.hours = @ + CloseElapsed(c)]

OpenAmong(S) == {i \in OpenSessions : cs[i].sandbox \in S}
FinalSlices(S) == Total([i \in DOMAIN cs |-> CloseElapsed(cs[i])], OpenAmong(S))

\* close_compute_session for a set of sandboxes by a session that knows the plan
\* as p; the caller commits ConsumedPlan(p, FinalSlices(S)).
CloseSessions(S, p) ==
    /\ cs' = [i \in DOMAIN cs |-> IF i \in OpenAmong(S) THEN Closed(cs[i]) ELSE cs[i]]
    /\ grants' = ConsumedGrants(p, FinalSlices(S))

\* A request or an observer closes the session of a sandbox that is not READY.
\* Session and plan are read under their locks.
CloseSession(s) ==
    /\ status[s] # "ready" /\ OpenOf(s) # {}
    /\ CloseSessions({s}, plan)
    /\ plan' = ConsumedPlan(plan, FinalSlices({s}))
    /\ UNCHANGED <<world, status, mode, tick, used>>

\* reconcile_metering loads such a session together with its sandbox ...
RepairLoad(s) ==
    /\ repair = <<>> /\ status[s] # "ready"
    /\ \E i \in OpenOf(s) : repair' = <<i, cs[i]>>
    /\ UNCHANGED <<now, served, stale, status, mode, cs, plan, grants, tick, used>>

\* ... and closes it if it is still open, with the attributes it has loaded.
RepairCommit ==
    /\ repair # <<>>
    /\ LET i      == repair[1]
           row    == repair[2]
           amount == IF cs[i].open THEN CloseElapsed(row) ELSE 0
       IN  /\ cs' = IF cs[i].open THEN [cs EXCEPT ![i] = Merge(@, row, Closed(row))] ELSE cs
           /\ plan' = ConsumedPlan(plan, amount)
           /\ grants' = ConsumedGrants(plan, amount)
           /\ stale' = (stale \/ (cs[i].open /\ cs[i] # row))
    /\ repair' = <<>>
    /\ UNCHANGED <<now, served, status, mode, tick, used>>

\* An observer or reconcile_metering opens the session of a READY sandbox.
OpenSession(s) ==
    /\ status[s] = "ready" /\ OpenOf(s) = {}
    /\ cs' = Append(cs, NewSession(s, now))
    /\ UNCHANGED <<world, status, mode, plan, grants, tick, used>>

-----------------------------------------------------------------------------
(* The user, the sync loop and administrators.                             *)

\* check_compute_quota and the commit of CREATING; the CR is told to run.
Start(s) ==
    /\ status[s] = "stopped" /\ used.ops < MaxOps
    /\ TotalRemaining(plan) > 0
    /\ status' = [status EXCEPT ![s] = "creating"]
    /\ mode' = [mode EXCEPT ![s] = "Running"]
    /\ used' = [used EXCEPT !.ops = @ + 1]
    /\ UNCHANGED <<world, cs, plan, grants, tick>>

\* stop commits STOPPED and suspends; CloseSession follows.
Stop(s) ==
    /\ status[s] = "ready" /\ used.ops < MaxOps
    /\ status' = [status EXCEPT ![s] = "stopped"]
    /\ mode' = [mode EXCEPT ![s] = "Suspended"]
    /\ used' = [used EXCEPT !.ops = @ + 1]
    /\ UNCHANGED <<world, cs, plan, grants, tick>>

\* The sync loop brings the status into line with the CR.
Sync(s) ==
    /\ \/ mode[s] = "Running" /\ status[s] = "creating" /\ status' = [status EXCEPT ![s] = "ready"]
       \/ mode[s] = "Suspended" /\ status[s] \in {"creating", "ready"}
          /\ status' = [status EXCEPT ![s] = "stopped"]
    /\ UNCHANGED <<world, mode, cs, plan, grants, tick, used>>

\* create_compute_grant, with or without an expiry.
Grant ==
    /\ used.grants < MaxGrants
    /\ \E expires \in {now + 2, Never} :
          grants' = Append(grants, [left |-> GrantAmount, expires |-> expires])
    /\ used' = [used EXCEPT !.grants = @ + 1]
    /\ UNCHANGED <<world, status, mode, cs, plan, tick>>

-----------------------------------------------------------------------------
(* The metering tick.  A step reads into `tick' and commits later.         *)

IdleTick == [pc |-> "sleep", left |-> 1, cs |-> <<>>, plan |-> NewPlan(0), ready |-> {}]

CanFail == used.faults + used.late < MaxMishaps

\* The next step; what the step before it had read is forgotten.
GoTo(pc) == tick' = [IdleTick EXCEPT !.pc = pc]

\* The interval is over: tick_metering reads the open sessions ...
MeterLoad ==
    /\ tick.pc = "sleep" /\ tick.left = 0
    /\ tick' = [tick EXCEPT !.pc = "charge", !.left = 1, !.cs = cs]
    /\ UNCHANGED <<world, status, mode, cs, plan, grants, used>>

\* Mutant: without the comparison.
UnchangedAssumed(i) == tick.cs[i].open

\* ... and updates those whose gmt_updated is still the one it read.
Unchanged(i) == tick.cs[i].open /\ cs[i] = tick.cs[i]

MeterCommit ==
    /\ tick.pc = "charge"
    /\ LET ids    == {i \in DOMAIN tick.cs : Unchanged(i) /\ now > tick.cs[i].last}
           amount == Total([i \in ids |-> now - tick.cs[i].last], ids)
       IN  /\ cs' = [i \in DOMAIN cs |->
                       IF i \in ids THEN [cs[i] EXCEPT !.hours = @ + (now - tick.cs[i].last), !.last = now]
                       ELSE cs[i]]
           /\ plan' = ConsumedPlan(plan, amount)
           /\ grants' = ConsumedGrants(plan, amount)
    /\ GoTo("warn")
    /\ UNCHANGED <<world, status, mode, used>>

\* Mutant: one flag for both warnings.
WarnOnce ==
    /\ tick.pc = "warn"
    /\ plan' = IF Running = {} \/ plan.warn80 THEN plan
               ELSE IF TotalRemaining(plan) <= 0 THEN [plan EXCEPT !.warn80 = TRUE, !.warn100 = TRUE]
               ELSE IF 5 * plan.used >= 4 * Limit THEN [plan EXCEPT !.warn80 = TRUE]
               ELSE plan
    /\ GoTo("grace")
    /\ UNCHANGED <<world, status, mode, cs, grants, used>>

\* check_warning_thresholds: at most one of the two per tick.
Warn ==
    /\ tick.pc = "warn"
    /\ plan' = IF Running = {} THEN plan
               ELSE IF TotalRemaining(plan) <= 0 /\ ~plan.warn100 THEN [plan EXCEPT !.warn100 = TRUE]
               ELSE IF Limit > 0 /\ 5 * plan.used >= 4 * Limit /\ ~plan.warn80
                    THEN [plan EXCEPT !.warn80 = TRUE]
               ELSE plan
    /\ GoTo("grace")
    /\ UNCHANGED <<world, status, mode, cs, grants, used>>

\* Mutant: only the timer ends the grace period.
MustStopByTimer(p) == p.grace # None /\ now - p.grace > p.patience

\* _handle_exhausted: the timer, or the absolute cap of 20 percent.
MustStop(p) ==
    /\ p.grace # None
    /\ now - p.grace > p.patience \/ 5 * (0 - TotalRemaining(p)) > Limit

\* check_grace_periods reads plan, grants and running sandboxes, and starts or
\* clears the grace period, or goes on to enforce.
GraceLoad ==
    /\ tick.pc = "grace"
    /\ IF Running # {} /\ TotalRemaining(plan) <= 0 /\ MustStop(plan)
       THEN /\ tick' = [tick EXCEPT !.pc = "stop", !.plan = plan, !.ready = Running]
            /\ UNCHANGED plan
       ELSE /\ plan' = IF Running = {} THEN plan
                       ELSE IF TotalRemaining(plan) > 0 THEN [plan EXCEPT !.grace = None]
                       ELSE IF plan.grace = None THEN [plan EXCEPT !.grace = now]
                       ELSE plan
            /\ GoTo("reset")
    /\ UNCHANGED <<world, status, mode, cs, grants, used>>

\* _enforce_stop: the callback suspends each sandbox that was running; one that
\* raises is logged.  The status stays as it is until the sync loop sees it.
GraceStop ==
    /\ tick.pc = "stop"
    /\ \E failed \in {{}} \cup {{s} : s \in tick.ready} :
          /\ failed # {} => CanFail
          /\ mode' = [s \in Sandboxes |-> IF s \in tick.ready \ failed THEN "Suspended" ELSE mode[s]]
          /\ tick' = [tick EXCEPT !.pc = "enforce", !.ready = @ \ failed]
          /\ used' = [used EXCEPT !.faults = @ + Cardinality(failed)]
    /\ UNCHANGED <<world, status, cs, plan, grants>>

\* ... closes their sessions, charging the plan as it was when it was loaded, and
\* ends the grace period if no sandbox is running any more.
GraceCommit ==
    /\ tick.pc = "enforce"
    /\ CloseSessions(tick.ready, tick.plan)
    /\ LET p == ConsumedPlan(tick.plan, FinalSlices(tick.ready))
       IN  plan' = Merge(plan, tick.plan, IF Running = {} THEN [p EXCEPT !.grace = None] ELSE p)
    /\ stale' = (stale \/ tick.plan # plan)
    /\ GoTo("reset")
    /\ UNCHANGED <<now, repair, served, status, mode, used>>

\* reset_monthly_credits reads the plan, its open sessions and READY sandboxes.
ResetLoad ==
    /\ tick.pc = "reset"
    /\ IF plan.end <= now
       THEN tick' = [tick EXCEPT !.pc = "roll", !.plan = plan, !.cs = cs,
                                 !.ready = {s \in Sandboxes : status[s] = "ready"}]
       ELSE GoTo("sleep")
    /\ UNCHANGED <<world, status, mode, cs, plan, grants, used>>

ResetPlan(p) == [NewPlan(p.patience) EXCEPT !.start = p.end, !.end = p.end + PeriodLength]

\* handle_period_rollover for session i of w.cs, if it is one of the open ones:
\* nothing unless now is past the period's end; else the session ends there, the
\* plan is reset, and a sandbox that was READY gets a new session.  w.next collects
\* the new sessions.
Rollover(w, i) ==
    IF ~w.cs[i].open \/ now <= w.plan.end THEN w
    ELSE LET c == w.cs[i]
             b == w.plan.end
             split == [w.cs EXCEPT ![i] = [c EXCEPT !.open = FALSE, !.last = b,
                                                    !.hours = @ + Max({0, b - c.last})]]
         IN  IF c.sandbox \in tick.ready
             THEN [cs |-> Append(split, NewSession(c.sandbox, b)), plan |-> ResetPlan(w.plan),
                   list |-> w.list, next |-> Append(w.next, Len(split) + 1)]
             ELSE [w EXCEPT !.cs = split, !.plan = ResetPlan(w.plan)]

\* The rollovers of the sessions in w.list, one after the other.
Rollovers(w) ==
    LET r[k \in 0..Len(w.list)] == IF k = 0 THEN [w EXCEPT !.next = <<>>]
                                   ELSE Rollover(r[k - 1], w.list[k])
    IN  r[Len(w.list)]

\* One round of the loop over the missed months.
Month(w) ==
    IF w.plan.end > now THEN w
    ELSE LET r == Rollovers(w)
         IN  [r EXCEPT !.plan = IF r.plan.end <= now THEN ResetPlan(r.plan) ELSE r.plan,
                       !.list = r.next]

\* All rounds, on the objects as they were loaded.
Rolled ==
    LET rounds == now - tick.plan.end + 1
        m[k \in 0..rounds] == IF k = 0 THEN [cs |-> tick.cs, plan |-> tick.plan,
                                             list |-> [i \in DOMAIN tick.cs |-> i], next |-> <<>>]
                              ELSE Month(m[k - 1])
    IN  m[rounds]

\* The commit.  Sessions that others inserted since the load keep their places, the
\* new ones come after them; a second open session of a sandbox violates
\* uq_compute_session_sandbox_active, and the whole reset is rolled back.
ResetCommit ==
    /\ tick.pc = "roll"
    /\ LET w   == Rolled
           n   == Len(tick.cs)
           old == [i \in DOMAIN cs |-> IF i <= n THEN Merge(cs[i], tick.cs[i], w.cs[i]) ELSE cs[i]]
           new == old \o SubSeq(w.cs, n + 1, Len(w.cs))
       IN  IF \A i, j \in DOMAIN new : new[i].open /\ new[j].open /\ new[i].sandbox = new[j].sandbox => i = j
           THEN cs' = new /\ plan' = Merge(plan, tick.plan, w.plan)
           ELSE UNCHANGED <<cs, plan>>
    /\ GoTo("sleep")
    /\ UNCHANGED <<world, status, mode, grants, used>>

\* run_metering_tick logs a step that raises and goes on to the next one.
AfterStep == [charge |-> "warn", warn |-> "grace", grace |-> "reset",
              stop |-> "reset", enforce |-> "reset", reset |-> "sleep", roll |-> "sleep"]

StepFails ==
    /\ tick.pc # "sleep" /\ CanFail
    /\ used' = [used EXCEPT !.faults = @ + 1]
    /\ GoTo(AfterStep[tick.pc])
    /\ UNCHANGED <<world, status, mode, cs, plan, grants>>

Tick == \/ MeterLoad \/ MeterCommit \/ Warn \/ GraceLoad \/ GraceStop \/ GraceCommit
        \/ ResetLoad \/ ResetCommit

\* An interval passes.  Assumed: the tick takes less than one, and so do the Watch
\* and the observers that bring status and sessions into line (what becomes of them
\* otherwise is SandboxLifecycle's subject).  Without a leader the tick is late.
Settled ==
    \A s \in Sandboxes : /\ status[s] = "ready" <=> mode[s] = "Running"
                         /\ status[s] = "ready" <=> OpenOf(s) # {}

Pass(late) ==
    /\ now < MaxTime /\ Settled /\ tick.pc = "sleep" /\ repair = <<>>
    /\ IF late THEN CanFail ELSE tick.left > 0
    /\ now' = now + 1
    /\ served' = [s \in Sandboxes |-> served[s] + Cardinality(OpenOf(s))]
    /\ tick' = [tick EXCEPT !.left = 0]
    /\ used' = IF late THEN [used EXCEPT !.late = @ + 1] ELSE used
    /\ UNCHANGED <<repair, stale, status, mode, cs, plan, grants>>

-----------------------------------------------------------------------------
Init ==
    /\ now = 0 /\ served = [s \in Sandboxes |-> 0] /\ repair = <<>> /\ stale = FALSE
    /\ status = [s \in Sandboxes |-> "ready"] /\ mode = [s \in Sandboxes |-> "Running"]
    /\ cs = <<>> /\ plan \in {NewPlan(g) : g \in GracePeriods} /\ grants = <<>>
    /\ tick = IdleTick
    /\ used = [ops |-> 0, grants |-> 0, faults |-> 0, late |-> 0]

Next ==
    \/ \E s \in Sandboxes : CloseSession(s) \/ RepairLoad(s) \/ OpenSession(s) \/ Start(s) \/ Stop(s) \/ Sync(s)
    \/ RepairCommit \/ Grant \/ Tick \/ StepFails \/ \E late \in BOOLEAN : Pass(late)

Spec == Init /\ [][Next]_vars

\* The sandboxes are interchangeable.
Symmetry == Permutations(Sandboxes)

-----------------------------------------------------------------------------
(* Properties.                                                             *)

SessionRows == [sandbox: Sandboxes, open: BOOLEAN, started: Nat, last: Nat, hours: Nat]
PlanRows == [used: Nat, overage: Nat, start: Nat, end: Nat, patience: Nat,
             grace: Nat \cup {None}, warn80: BOOLEAN, warn100: BOOLEAN]

\* Every variable keeps its type; no balance becomes negative, and a sandbox has
\* one open session at most.
TypeOK ==
    /\ now \in 0..MaxTime /\ served \in [Sandboxes -> Nat]
    /\ status \in [Sandboxes -> {"creating", "ready", "stopped"}]
    /\ mode \in [Sandboxes -> {"Running", "Suspended"}]
    /\ cs \in Seq(SessionRows) /\ plan \in PlanRows
    /\ grants \in Seq([left: Nat, expires: Nat])
    /\ tick \in [pc: DOMAIN AfterStep \cup {"sleep"}, left: 0..1, cs: Seq(SessionRows), plan: PlanRows,
                 ready: SUBSET Sandboxes]
    /\ repair = <<>> \/ repair \in Nat \X SessionRows
    /\ stale \in BOOLEAN /\ used \in [ops: Nat, grants: Nat, faults: Nat, late: Nat]
    /\ \A s \in Sandboxes : Cardinality(OpenOf(s)) <= 1

FirstPeriod == plan.start = 0
Metered == [i \in DOMAIN cs |-> cs[i].hours]
Hours(s) == Total(Metered, {i \in DOMAIN cs : cs[i].sandbox = s})

\* No interval of a sandbox is metered twice, whether the tick, a request, the
\* repair or the enforcement gets to it first (tick_metering's comparison of
\* gmt_updated, FOR UPDATE in close_compute_session).  Within a billing period.
MeteredOnce == FirstPeriod => \A s \in Sandboxes : Hours(s) <= served[s]

\* What was metered was charged, once: to the monthly pool, to a grant or as
\* overage (consume_compute_credits).  Within a billing period, and as long as the
\* locks are taken on rows that are as they were loaded: FOR UPDATE does not load
\* them again, so an enforcement can undo a charge, and a repair repeat one.
ChargedOnce ==
    FirstPeriod /\ ~stale =>
        plan.used + plan.overage
            + Total([g \in DOMAIN grants |-> GrantAmount - grants[g].left], DOMAIN grants)
        = Total(Metered, DOMAIN cs)

\* Grants are drawn only when the month's credits are used up, and debt is made
\* only when no grant is left that can be used (consume_compute_credits).
PoolOrder ==
    [][/\ (\E g \in DOMAIN grants : grants'[g].left < grants[g].left) => plan'.used >= Limit
       /\ plan'.overage > plan.overage => plan'.used >= Limit /\ Extra' = 0]_vars

\* While the leader is there, nothing fails and no charge is repeated, a user
\* without grants runs into debt no further than the cap, nor than the grace period,
\* and one interval more: start is refused, and cap and timer stop what runs
\* (_handle_exhausted).
DebtBounded ==
    used.faults = 0 /\ used.late = 0 /\ ~stale /\ grants = <<>> =>
        LET n    == Cardinality(Sandboxes)
            debt == 0 - TotalRemaining(plan)
        IN  /\ 5 * debt <= Max({Limit, 5 * (n - 1)}) + 5 * n
            /\ debt <= n - 1 + (plan.patience + 1) * n

\* No sandbox is stopped for lack of credits before its user was warned in this
\* period, as long as no step of a tick fails and no charge is repeated (the order
\* of run_metering_tick).  A repair that charges an interval again between the
\* warnings and the grace check can use up the last credits, a grant takes the user
\* back over the threshold before the next warnings, and a second such repair after
\* them meets a grace period that has run out.
WarnedBeforeStop ==
    [][tick.pc = "stop" /\ mode' # mode /\ used.faults = 0 /\ ~stale => plan.warn100]_vars
=============================================================================
