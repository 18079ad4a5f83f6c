# Treadstone control plane: a TLA+ verification project

Treadstone is a control plane (FastAPI, SQLAlchemy, Kubernetes) that runs
sandboxes for its users. A sandbox is a row in PostgreSQL and a `Sandbox` (or
`SandboxClaim`) custom resource (CR) in Kubernetes; requests change both, an
external controller changes the CR, and background loops copy the CR's state back
into the row, stop and delete idle sandboxes, move disks to snapshots and meter
what is used. The hard part of the system is that nothing spans the two stores:
every handler reads a row, awaits Kubernetes and writes the row later, while
other handlers, loops and replicas do the same.

The modules here model that part: one sandbox with everything that acts on it
(`SandboxLifecycle`, `ColdSnapshot`), one user's credits with everything that meters
and charges them (`Metering`), what he may create and start (`Admission`), the
election that decides which replica runs the loops (`LeaderElection`), accounts and
the CLI's login (`Identity`, which implements `LoginGrant`), access through the proxy
(`WebAccess`), and, inside the sandbox, its interactive terminal (`TerminalSession`).
Eight modules named after theirs, `...Proofs`, hold the theorems about them; the one of
`LoginGrant` is that `Identity` implements it.

## 1. Inventory

| Component | Source (`src/treadstone/`) | State | Operations | Hard parts |
|---|---|---|---|---|
| Sandbox lifecycle | `sandbox/services/sandbox_service.py`, `sandbox/models/sandbox.py`, `sandbox/api/sandboxes.py` | `Sandbox` row: status, version, resource version, `gmt_deleted`, pending operation, storage binding | create, start, stop, snapshot, delete, update | commit, await Kubernetes, commit again; writes match by id and never compare the version |
| Kubernetes sync loop | `infra/services/k8s_sync.py` | Watch stream, reconcile round | `handle_watch_event`, `reconcile`, `_optimistic_update`, observers, hooks | late, lost and repeated events; a LIST older than the rows it is compared with |
| Lifecycle tick | `infra/services/sandbox_lifecycle_tasks.py` | none of its own | idle auto-stop, auto-delete | loads rows, awaits Kubernetes, writes by id |
| Leader election, supervisor | `infra/services/leader_election.py`, `sync_supervisor.py`, `main.py` | the Lease; the tasks of each replica | acquire, renew, take over, release; start and stop the loops; shutdown | clocks, slow calls, conflicts, `run()` and `shutdown()` side by side |
| Cold storage | `storage/services/storage_snapshot_orchestrator.py` | pending operation, snapshot binding, VolumeSnapshot, PVC | snapshot tick: snapshotting, restoring; `delete_bound_snapshot` | the only copy of the user's data moves between disk and snapshot in many ticks |
| Metering: sessions, ledger | `metering/services/metering_state_observer.py`, `metering_reconcile.py` | open `ComputeSession`, ACTIVE `StorageLedger` | observers, repair hooks | best effort at every place; only the hooks repair |
| Metering: credits | `metering/services/metering_service.py`, `metering_tasks.py` | `UserPlan`, grants, session amounts | metering tick, consumption, grace, rollover, admission checks | optimistic locks, check-then-act, period boundary |
| Platform limits | `platform/services/platform_limits.py` | cached snapshot of global usage | refresh, admission checks | stale cache |
| Identity, CLI login | `identity/`, `src/cli/treadstone_cli/auth.py` | users, OAuth accounts, API keys, `CliLoginFlow` | register, OAuth, disable, delete; create, approve, fail, poll and exchange a flow | first administrator decided by a count; a flow is checked, then written by id; single use, expiry, cascade |
| Proxy, web links | `proxy/`, `sandbox/api/sandboxes.py`, `sandbox_web_link` | the `SandboxWebLink` row, `gmt_last_active`, open WebSockets | issue, delete, open a link; proxy HTTP and WebSocket; touch | two POSTs at a time; a WebSocket against the auto-stop |
| Terminal | `src/deploy/sandbox-image/.../app/services/shell_ws.py`, `app/api/v1/shell.py` | history, subscriber slot, bounded queue, `session._lock` | pty output, connect, restore, serve, leave | joining in the middle of output; a full queue; a client that goes away |
| Kubernetes client | `infra/services/k8s_client.py` | none | REST verbs | error answers, errors that read as "not found" |
| Audit, email, other CLI commands, SDKs, web console, rest of the image, deployment | `audit/`, `src/cli`, `src/web`, `src/deploy` | append-only or none | | not modelled: I/O, presentation, generated code, configuration |

How they interact: API handlers and the loops share the database and call the
Kubernetes API; the sync loop calls the metering observers and the reconcile hooks
in its own process; the supervisor runs sync, metering, lifecycle and snapshot
loops in the replica that holds the Lease; the agent-sandbox controller and the
CSI drivers (external) react to the CRs, PVCs and VolumeSnapshots.

What makes each part correct:

* lifecycle and sync: the row ends up saying what the CR says; a row is deleted only
  after its CR is gone, and then nothing is left; no request is stuck half-way;
* metering: compute is billed exactly while READY, storage exactly until the delete;
  no interval is metered or charged twice, debt is bounded, warnings come first;
* election: the loops run in one replica, and always in some replica;
* cold storage: the newest workspace is never lost, COLD means what it says, and a
  pending operation ends;
* admission: what the limits admitted never exceeds them, and every replica learns of
  a change of the limits;
* identity: a CLI login is granted once and yields one token for whoever granted it;
  the CLI stops waiting; somebody can administer the platform;
* web access: a link works from its answer to its deletion; a sandbox in use is not
  idle, and one that is not used is stopped;
* terminal: whoever joins misses nothing, and whoever leaves frees the slot.

`PROJECT.json` lists the hazards at their lines.

## 2. Modules and how they correspond to the code

### SandboxLifecycle

One sandbox with live disk (`pending_operation` is None throughout). `row`,
`session` (open ComputeSession), `ledger` (ACTIVE StorageLedger), `cr`, `queue` (the
events the API server holds for the Watch), and the program counters of the API
workers (`wk`), the lifecycle tick (`tick`), the Watch handler (`watch`) and
reconcile (`rec`). Each actor is cut where the code awaits something another actor
can overtake: a request is `RequestRead` (load and check), `RequestCommit` (first
commit), the Kubernetes call with its two outcomes and its lost answer
(`RequestCallOk`, `RequestCallFails`), and the commit after a failure
(`RequestFail`); create adds the ledger entry, stop the closing of the session,
start the fast path to READY. Reconcile is LIST, load, apply, and its three hooks;
the Watch handler is load and apply. ORM writers store `version read + 1` by id;
only `_optimistic_update` compares. `derive_status_from_sandbox_cr` is translated
condition by condition.

### ColdSnapshot

One persistent, direct sandbox between its disk and its snapshot. The workspace is a
number that grows with every write, so that losing data is visible. Requests are cut
as above; the auto-stop and auto-delete of the lifecycle tick are requests too. The
snapshot tick is cut at each Kubernetes call whose effect another actor can see:
`TickLoad`, removal of a stale snapshot (`SnapStale`), `SnapCreate`/`SnapPost`,
`SnapAwait`, release of CR and PVC, the undo of a failed release, `SnapCheck` (the
cutover), `Restore`, `RestoreComplete`. An ORM commit writes the attributes that were
changed (`Merge`), which is what lets one handler's status and another's
pending operation end up in the same row. The sync loop, cut into its steps in
SandboxLifecycle, is one step per effect here. `gmt_snapshotted` against
`gmt_restored` is kept as `snapped`.

Assumptions on the external parts: a CR reads as stopped only when its pod is down
(the Suspended condition); a PVC goes with its CR; a PATCH or DELETE that raises had
no effect (lost answers of requests are in SandboxLifecycle), while a POST that
raises may have had one; a GET that fails reads as "not found", as the client codes
it: nothing is awaited, created, or, in the release of a CR and in a cleanup, deleted
for it. Only Kubernetes calls fail, not the database.

### Metering

One user: the `UserPlan` row, `ComputeGrant` and `ComputeSession` tables, the metering
tick and the requests, observers, repairs and grants beside it. Time is counted in
tick intervals, and a running sandbox costs one credit each. A step of the tick is cut
between reading and committing: `MeterLoad`/`MeterCommit`, `Warn`, `GraceLoad`,
`GraceStop` (the Kubernetes callback) and `GraceCommit`, `ResetLoad`/`ResetCommit`;
`StepFails` is `run_metering_tick` going on after an exception. `reconcile_metering` is
cut too (`RepairLoad`, `RepairCommit`), since it loads the session before the lock.
`consume_compute_credits` is the pair `ConsumedPlan`, `ConsumedGrants`: FIFO by expiry
is said by what is drawn from the grants before one (`Earlier`); every sum, of the
database or of the code, is `Total`. The rollover keeps the code's loops: `Rollovers` goes
through the open sessions, `Month` is one round of the loop over missed months, `Rolled`
all of them. That is where sessions after the first are not split. `SELECT ... FOR UPDATE` waits, but does not load an object again that
the ORM session holds: those writers use what they loaded, `Merge` writes what they
changed, and the history variable `stale` records that they met a changed row.

Assumed: tick, Watch and observers take less than an interval (`Settled`); a step that
raises has committed nothing. Tier changes, overrides and GiB-hours are left out.

### LeaderElection

The Lease, `LeaderElector`, `LeaderControlledSyncSupervisor` and the shutdown as
`main.lifespan` drives it, for a set of replicas. Time is discrete and kept in timers
(the age of `renewTime`, of an attempt, what is left of a sleep), so no clock grows.
`MaxLatency` bounds an attempt and `ClockSkew` the difference of two clocks; the code
enforces neither, and they are exactly what the safety of the protocol depends on.
`resourceVersion` is the set `current` of reads that no accepted write has outdated.

### Admission

Creates, starts and restores of the sandboxes of one user, and the platform's caps.
A request is `CreateBegin` (the check on the replica's snapshot) or `StartBegin`,
`Check` (both of the user's checks, which take the plan's row lock), `CheckedCommit`
(the commit that frees the lock; before it lies a call to Kubernetes that may raise,
`CheckFails`), the Kubernetes call and `Record`, the ledger entry of a later, best
effort transaction. A delete commits DELETING (`DeleteBegin`), also over a create or a
start that is under way, which then writes by id over what it finds (`Written`); it
ends when the sync loop finds the CR gone (`SoftDelete`), for a COLD sandbox with the
commit that follows the snapshot's end (`DeleteCold`), or with ERROR (`DeleteFails`).
What the sync loop, stop and the snapshot tick do to a row is one step each (`Sync`,
`RestoreEnds`). No check tells CREATING from READY, or STOPPED from ERROR: they are "up"
and "down". A row that is soft-deleted, or removed because its template is gone, is in
`gone`. Two consequences of the code are in the model: a start that a whole deletion has
overtaken leaves a soft-deleted row CREATING, which `_count_running_sandboxes` counts
from then on (it does not look at `gmt_deleted`), and the ledger entry of a removed row
is never released. Left out: two deletes of one COLD sandbox at a time, and what else a
handler writes to a row that is already gone. `PlatformLimitsRuntime` is a
snapshot per replica, rebuilt by the loop and by a PATCH handler under one lock:
`RefreshRead` takes the limits, `RefreshWrite` counts and publishes. The handler's
session answers with the object it wrote itself (`expire_on_commit` is off), so it may
publish limits that a later PATCH has replaced. History variables: `returned` (running
without having been admitted for it: found running, restored, or written READY by a
start that a delete had overtaken) and `blind` (admitted while an earlier sandbox
had no ledger entry).

### Identity and LoginGrant

`LoginGrant` is the promise of a browser login: it is granted at most once, by somebody
who has an account, yields at most one token, which is for whoever granted it, and
nothing once it is closed. Tokens are a sequence there, so that a second one is a
violation whoever it is for. A login is closed with its holder's account, or by a
sign-in that failed: that one must have found the login open, but may close it later
(`failing`), as `_fail_cli_flow` does, which checks and then writes by id over a flow
that has been granted or spent meanwhile.

`Identity` has the requests that could break the promise: `register` (`RegisterBegin`
counts, `RegisterCommit` writes), `_oauth_callback` (`OauthBegin`, fastapi-users' commit
`OauthCreate`, `on_after_register` as `OauthPromote`, the approval `Finish`), the two
other approvals, `_fail_cli_flow` (`FailBegin`, `FailCommit`), an administrator's
disabling and deleting, and the CLI (`CliBegin`, `CliPoll`, `CliGivesUp`). The flow is
exchanged by `exchange_cli_flow`, which reads it, writes a token and consumes it: the
CLI calls it once (`ExchangeRead`, `ExchangeConsume`), and anybody else who has the secret
as often as he likes and at the same time (`ExchangeBegin`, `ExchangeCommit`).
Conditional UPDATEs are one step; `StillApproved`, the condition of `consume_cli_flow`, is
all that keeps two exchanges apart. The refinement maps the status of the flow's row to
the four states, its `user_id` to the holder, the rows of `users` to the accounts, and
the `_fail_cli_flow` handlers between check and write to `failing`.

### WebAccess

The web link of one sandbox is a row whose primary key is the link, so rotating it is
an UPDATE of the key WHERE the key is the one that was read (`SameRow`). POST reads
twice (`PostBegin`, `PostRead`) and writes (`PostWrite`); DELETE and the opening of a
link read and write. Requests that come in are checked once (`LetIn`). The WebSocket
has its first touch, its periodic touches with their delay, and its end, which cancels
the touch task. Time is discrete; `IntervalFits` is what the touch interval has to
leave room for: 30 s against the shortest threshold, one minute, fits while a touch
takes at most 15 s. The lifecycle tick chooses the sandbox by what it loaded (`TickLoad`)
and stops it later (`TickStop`).

### TerminalSession

`session._lock` is the sequence of its holder and the tasks that wait, first come first
served, as asyncio grants it. Each text of the pty is a task; an endpoint asks for the
lock to subscribe, again to send the history, and to unsubscribe. History that is only
white space is not sent (`Blanks` counts the first texts, which are). After that, without
the lock, the client is told that the terminal is ready or restored (`Greet`). Both sends
come before the `try` block whose `finally` unsubscribes: a client that has gone makes
them raise (`RestoreRaises`, `GreetRaises`) and keeps the slot. `await queue.put` with a
full queue (`AwaitPut`) keeps the lock. `LeavesFull = FALSE` restricts the
environment to clients that keep up: it is not what the code guarantees, but what its
terminal needs.

## 3. Runs

| Run | Module | Shows |
|---|---|---|
| `lifecycle_create` | SandboxLifecycle | from before the create, one more request, one fault anywhere: types, LedgerFollows, DeleteEnds |
| `lifecycle_running` | SandboxLifecycle | a running sandbox, one request, one mishap (pod failure, process crash, lost stream, foreign delete): Converges, SessionFollows, RowOutlivesCR |
| `lifecycle_tick` | SandboxLifecycle | auto-stop or auto-delete against one request: SessionFollows, DeleteEnds |
| `leader` | LeaderElection | two replicas, one fault, crash, shutdown and deleted Lease: OnlyHolderRuns, ShutdownReleases, LedAgain |
| `cold_storage` | ColdSnapshot | one handler, three requests or ticks, a pod error, one failed call or cut-off tick: types, WorkspaceKept, ColdIsBound, ColdReleased, PendingEnds, DeleteReleases |
| `metering` | Metering | two sandboxes of one user, one request by the user, one grant, one failed step or interval without a leader, through exhaustion, enforcement and reset: types, MeteredOnce, ChargedOnce, DebtBounded, PoolOrder, WarnedBeforeStop |
| `admission` | MCAdmission (Admission) | two sandboxes that compete for room for one, one fault, two changes of the limits or deletions: types with the plan's lock, ConcurrentBound, StorageBound, SnapshotMonotone, SnapshotConverges |
| `identity` | Identity | three people, two handlers, four requests (sign-ups, approvals, failures, deletions, further exchanges) and a CLI login: types with the foreign key, AdminRemains, CliEnds, and ImplementsGrant, the refinement of LoginGrant |
| `web_access` | WebAccess | two web-link requests at a time, three links, HTTP and a WebSocket with one failed touch, against the auto-stop: types, LinkLives, KeepsAwake, IdleStops |
| `terminal` | TerminalSession | three clients, four texts of which the first is blank, a queue of two: types with the queue's bound, NoGap, SlotFreed, OutputKept |

Two runs show a statement of the repository's documentation or code that the code does
not keep; `findings` in `PROJECT.json` quotes each:

| Run | What happens |
|---|---|
| `cold_early_error` | a ReconcilerError before the disk exists deletes the only copy of the workspace (WorkspaceKept) |
| `terminal_stall` | a client that leaves with its queue full: the handler that waits for room keeps the lock for ever (OutputKept) |

Other disagreements are in the models too, where a constant keeps them apart from the
passing runs. Setting it reproduces them:

| Module, constants | Property | What happens |
|---|---|---|
| SandboxLifecycle, as `lifecycle_running` | MissingNoticed | a lost DELETED event is never made up for: the row stays READY and billed (`k8s_sync.py:74`) |
| SandboxLifecycle, `Fresh` = TRUE | NoOrphan | a delete that overtakes a create leaves a CR nobody owns (`sandbox_service.py:355`) |
| LeaderElection, `ShutdownMidAttempt` = TRUE | AtMostOneLeader | a shutdown during an attempt ends with loops running in two replicas (`sync_supervisor.py:174`) |
| ColdSnapshot, two `Workers` | WorkspaceKept, ColdIsBound, ColdReleased | a start that was checked before a concurrent snapshot was queued restarts the pod after the VolumeSnapshot was taken: what is written since is released with the disk (`sandbox_service.py:656`) |
| ColdSnapshot, as `cold_storage` | ColdIsNewest | a failed snapshot keeps its binding, and the next one takes the old snapshot (`storage_snapshot_orchestrator.py:540`) |
| Identity, `Races` = TRUE | AdminRemains | two administrators disable each other, or the first two sign-ups by OAuth overlap: nobody is left to administer (`auth.py:1287`, `users.py:68`) |

Bounds. In the lifecycle modules one sandbox is enough because no handler relates two
sandboxes (the tick treats them one by one, in their own savepoints); what relates
them is the user's account, and Metering has two, which TLC may exchange (SYMMETRY). One API worker beside the sync loop, the tick and the
controller already gives every pair of actors; two are
needed for the race between two requests in the table above. Version and resource version are bounded
by the bounds on requests, faults and mishaps, `MaxBacklog` limits only how far the
controller may run ahead of the Watch. Three requests in `cold_storage` are a full
circle: snapshot, restore, snapshot again; one mishap reaches every error path that
does not need two independent failures. In `leader` the lease lasts five units and an
attempt at most one, the smallest instance in which a lease can expire, be renewed
late and be taken over. In `metering` five credits and a period of five intervals let
two sandboxes run into the cap and one into the timer before the reset, the grace
periods 0 and 2 put the timer before and after the cap, and the interval after the
period is where a late reset splits sessions. In `admission` one replica with a loop and a PATCH handler has every
interleaving of two refreshes, replicas being independent of one another; changes made
elsewhere are `PatchCommit(None)`, and `InitialCap`, the cap in force at the start, is
the larger of the two caps, so that a change can lower it; `MaxChanges` bounds changes
and deletions together. TLC may exchange the two sandboxes (MCAdmission): no property and
no fairness names one, so that this is sound for the liveness property too, and without
it the run passes as well (2.6 million states). In `identity` four requests suffice for two
sign-ups, an approval and whatever undoes it, or for a sign-up, an approval and two
exchanges beside the CLI's own. In `web_access` a threshold of six, an
interval of three and a delay of one leave a single unit to spare, so that a
longer interval or a lost touch shows. In `terminal` three clients let one leave and
two compete for its slot. Deadlock checking is off in the ColdSnapshot runs (a deleted
sandbox has nothing left to do), in `metering` (time ends at MaxTime), `admission` and
`identity` (all sandboxes deleted, all requests used up), `web_access` and the terminal
runs (nobody has to connect again).

Conditions in the properties. WorkspaceKept and ColdReleased are stated as long as no
Kubernetes call fails, DeleteReleases as long as also no tick is cut off, because the
code does not keep them otherwise (see the hazards). All of cold storage is stated for
handlers one after the other and ColdIsBound for failed calls or cut-off ticks, not for
both: when the commit of a restore is lost after its snapshot was removed and the next
attempt fails, `_fail_restore` leaves a COLD row bound to nothing (two mishaps; found
while proving). PendingEnds excepts an operation
whose pod has been told the opposite (Overtaken), and OnlyHolderRuns ends when
somebody deletes the Lease by hand. DeleteEnds is checked without crashes of the API
process: one between the commit of DELETING and the Kubernetes call leaves the row
DELETING for ever. ChargedOnce, DebtBounded and WarnedBeforeStop end at the first write from a row that
had changed since it was loaded (`stale`): such an enforcement undoes another
sandbox's charge, such a repair repeats the tick's. (That WarnedBeforeStop needs it shows with Limit 3,
grants of 3 and three requests: a repeated charge between the warnings and the grace
check, a grant, and a second one.) MeteredOnce and ChargedOnce cover
one billing period: a reset that comes after the boundary meters the time since the
boundary a second time, and splits only the first of several sessions.
ConcurrentBound and StorageBound except what the code does not count (`returned`,
`blind`); LinkLives excepts a link that a POST replaced without having seen it;
SnapshotMonotone the PATCH handler that another has overtaken; KeepsAwake ends with a
failed touch, and says what the tick may choose, not what it has chosen already;
SlotFreed and OutputKept except a client that went while its history was being sent or
it was greeted, whose slot the code never frees; NoGap excepts blank texts that were in
the history when a client joined.

Fairness. Weak fairness on each coroutine (asyncio runs every ready task), on the sync
loop and the ticks (their loops catch every exception and come round again), on the
controllers' work (they retry until the spec is met) and on time. In the later modules:
on the refresh loop and PATCH handlers, on the polling CLI and the expiry of its flow,
on time and the lifecycle tick, on output handlers and endpoints. None on requests,
faults, crashes, pod errors, people who connect or leave, or the user's writes.

Every property of a passing run has a mutant of a mapped definition that TLC finds it
violated by (`mutants`): a dropped wait, a repair that is left out, a lost check of the
resource version, a swapped branch.

## 4. Proofs

`SandboxLifecycleProofs` proves, for every set of workers and all bounds:

* `LifecycleTypes`: `Spec => []TypeOK`;
* `RowOutlivesTheorem`: `Spec => RowOutlivesCR`, for a sandbox that exists at the start
  (`~Fresh`), with any number of requests, faults, crashes and lost streams;
* `NoOrphanTheorem`: under the same assumption, once the row is soft-deleted there is
  no CR, ever after.

The argument. A row is finalized by a DELETED event or by a LIST without the CR, and
both are news of the past; that they are still true needs the inductive invariant
`GInv`: nobody is in the middle of a create, a CR that is gone stays gone, a DELETED
event (waiting or being handled) and a LIST without the CR mean that it is gone, and so
does `gmt_deleted`. `~Fresh` is needed: while a create is under way the same LIST is no
proof, and `Fresh = TRUE` has the counterexample (section 3).

`LeaderElectionProofs` proves, for every set of replicas and all bounds:

* `TypeCorrect`: `Spec => []TypeOK`, for any intervals; the invariant `TInv` adds that
  no bounded step is overdue;
* `HolderTheorem`: `Spec => []OnlyHolderRuns` under `Timely`, that is
  `RenewInterval + 2 * MaxLatency + ClockSkew < LeaseDuration`, no shutdown in the
  middle of an attempt, and no Lease deleted by hand. With the defaults (15 s lease,
  5 s renewal) the code is safe while an attempt and the skew stay below that sum;
* `LeaderTheorem`: hence at most one replica runs the loops;
* `ShutdownTheorem`: `Spec => []ShutdownReleases` without mid-attempt shutdowns.

The argument. OnlyHolderRuns alone is not inductive: that a replica runs its loops and
holds the lease says nothing about how long. `Covered` bounds the age of the lease by
the time the replica has left until its next decision (`Budget`), `Informed` says what
a read that is still current proves about the lease, `Orderly` ties shutdown, run and
loops together, and `InTime` keeps the deadlines. A takeover by `q` needs an expired
lease, that is an age of at least `LeaseDuration - ClockSkew` at its reading; under
`Timely` no covered replica's lease is that old; and a write that is not the newest
is refused because its read is no longer current. The one assumption on constants is
`ElectorAssumption`, what `LeaderElector.__init__` checks and what the parameters are.

`ColdSnapshotProofs` proves, for every number of requests, writes, pod errors, failed
calls and cut-off ticks:

* `ColdTypes`: `Spec => []TypeOK`, for any number of concurrent handlers;
* `WorkspaceSurvives`, `ColdBound`, `ColdGone`: `[]WorkspaceKept`, `[]ColdIsBound` and
  `[]ColdReleased`, under `OneHandler` (requests one after the other) and `~EarlyErrors`
  (no pod error before the disk exists). Both hypotheses are needed: without the first
  the table above, without the second `cold_early_error` has the counterexample. The
  snapshot tick, the sync loop, the lifecycle tick's requests and the controllers still
  interleave with the handler.

The argument. Where the newest workspace is depends on how far the tick got, and the
tick commits late. `Whereabouts` says it for each binding of the row: a sandbox on its
disk has the newest data there (`Fresh`), or a snapshot of it is being taken and either
the pod is still stopped or the snapshot is ready; a cold one has it in the snapshot,
and a restoring one in one of the two. That an action keeps this needs what the actor
relied on since it read: `Handler` (a request in flight finds pending operation and
binding as it loaded them, the auto-stop excepted) and `OnTick` (while the tick works
only an auto-stop writes the row, and only its status). `Binding` is what survives
failed calls too. The invariant was checked by TLC with two mishaps, two writes and four
requests (7.4 million states) before it was proved; that is how the two conditions on
ColdIsBound and on the handlers were found.

`AdmissionProofs` proves, for every number of sandboxes, replicas, caps and faults
(assumed: finitely many sandboxes): `AdmissionTypes` (with the lock: its holder is the
one request between check and commit), `RunningBounded` (`[]ConcurrentBound`),
`StorageBounded` (`[]StorageBound`) and the action property `SnapshotsOrdered`
(`SnapshotMonotone`). The bounds are not inductive: between a check and its commit the
room must still be there. `RoomKept` says that beside the holder of the lock fewer than
the maximum run, `QuotaKept` the same of storage, and `RequestOnRow` that only a create
works on a sandbox without a row: every other request has found one, which may have been
deleted since, and none but the snapshot tick works on a restore. For the snapshots, `RefreshOrder` says that a
replica refreshes once at a time and that the loop holds no older limits than its
snapshot, which is what the lock of `PlatformLimitsRuntime` is for.

`IdentityProofs` proves, for every set of people and handlers and any number of requests:
`IdentityTypes`; `IdentityImplementsGrant`, the refinement `Spec => Grant!Spec`
(`ImplementsGrant`), where each action is a step of LoginGrant or a stutter;
`OneTokenIssued`, that at most one token is ever issued for a flow, however many
exchanges race; and `AdminsKept` (`[]AdminRemains`) under `~Races`. The refinement needs
`HeldOnce`: a flow that nobody approved has no user, whoever is about to consume one,
the CLI or another, holds the user of its flow, which is past approval, and whoever is
about to fail one has found it created. `OneTokenIssued` adds that no token was issued
while the flow can still be approved or consumed.
For the administrators `Kept` says that a change in flight leaves somebody else, that a
registration that will not promote itself found an administrator, and that a sign-up by
OAuth about to promote is alone unless there is one.

`WebAccessProofs` proves, for every number of requests and links: `LinksLive`
(`[]LinkLives`, from `LInv`, which adds that the link in force, if it was revoked, is
marked deleted), `StaysAwake` (`[]KeepsAwake`) and `AccessTypes`. StaysAwake holds for
all intervals with `IntervalFits`, `TouchEvery + 2 * MaxDelay <= Threshold`: the
invariant `Awake` bounds the age of `gmt_last_active` by how far the touch task is in
its cycle.

`TerminalSessionProofs` proves, for every number of clients and texts and every size of the
queue, and of blank texts at the start: `TerminalTypes` and `NothingMissed` (`[]NoGap`). The invariant
`TermInv` orders the lock's queue against the output: the handlers that wait are those
of the newest texts, in order (`HistoryInv`), a client that has subscribed is in the
slot (`SlotInv`), and what it was sent, what is queued for it and what the waiting
handlers will put there follow each other without a gap (`DeliveryInv`).

`MeteringProofs` proves, for every finite set of sandboxes, every limit, month, grace
period, number of grants, faults and ticks that come late:

* `TypeCorrect`: `[]TypeOK`, with no negative balance and one open session per sandbox;
* `MeteredCorrect`: `[]MeteredOnce`, with all faults and stale writers;
* `ChargedCorrect`: `[]ChargedOnce`; `PoolOrderCorrect`: `PoolOrder`;
* `WarnedCorrect`: `WarnedBeforeStop`;
* `DebtCorrect`: `[]DebtBounded`, for `Limit > 0`.

The argument. Sums come first: `Total` of a set with an element more, of a disjoint union,
of functions that agree or are ordered, and that the grants drawn in their order give
what is needed or all they have (`Earlier` is a strict order on the usable grants). They
rest on two lemmas that say induction by a least counterexample (`SetInduction`,
`NatInduction1`), with a set where the library's theorems have a predicate. The loops of
the rollover are functions on 0..n, and `RoundOK` is their loop invariant.

* Types: `TInv` adds `OneOpen` and `Loaded`, that a row somebody has loaded is still in
  the table and that nobody else moves the period between the load and the reset.
* Metering: that hours stay below the intervals served is not inductive, because what
  is due at the next metering counts as well. `Bounded` says it of `Due`, what was metered
  and what is still to be metered, and `RepairRow` that the row of the repair is the
  session, or behind it by exactly what the tick has metered since: merging it cannot
  meter an interval twice.
* Pools: `UsedKnown` says that the plan which an enforcement has loaded shows no more
  used than the row, so that what it draws from the grants finds the pool used up.
* Warnings: `WInv` says that a grace period was warned of, and that between the warnings
  and the grace check every open session is metered up to now, so that no request's
  final slice can use up the last credits there.
* Debt: `DInv` follows the tick. What runs costs at most one credit per sandbox and
  interval, so the debt with everything due (`Pot`) is that of a user still within his
  credits, of one in the grace period, bounded by its cap and by its age (`Graced`), or of
  one whose sandboxes are all suspended and whose sessions are metered (`Frozen`). A plan
  with no credits is left out: the sandboxes that run at the start could not have been
  started on it (`check_compute_quota`), and after two intervals they owe one credit more
  than the bound allows.

`DInv` was checked by TLC on the instance of `metering` before it was proved.

Only model-checked: liveness under fairness (LedAgain, Converges, SessionFollows,
LedgerFollows, DeleteEnds, PendingEnds, DeleteReleases, SnapshotConverges, CliEnds,
IdleStops, SlotFreed, OutputKept), which is out of the prover's reach. Every safety
invariant and every action property of a passing run is stated by a theorem.

## 5. Not modelled

* Audit log: written in the caller's transaction and not read back.
* API keys, password reset, e-mail verification, browser sessions: one row read and
  written per request; what remains (two updates of one key's grants at a time) is
  decided by the database.
* Storage GiB-hours, tier changes, overrides, usage queries: arithmetic and reading.
* The HTTP shell sessions of the image (`app/services/shell.py`), file, browser and
  Jupyter endpoints: wrappers of the vendored OpenHands runtime.
* Email, forwarding of bytes, web console, SDKs, most CLI commands, deployment: I/O,
  presentation, generated code, configuration. They and the vendored runtime are the
  larger part of the repository's lines, and have no state of their own to check.
* Within the modelled parts: metadata updates, template contents, names of claims and
  PVCs (discovery is reduced to whether the object exists), reaping of loops that end
  by themselves (they do not).

## 6. Plan

1. SandboxLifecycle, LeaderElection with proofs, ColdSnapshot, Metering for compute
   credits (done).
2. Admission with platform limits, Identity with LoginGrant, WebAccess,
   TerminalSession (done).
3. Theorems of every module: types, safety invariants, action properties and the
   refinement of LoginGrant (done).
4. Metering: lemmas about finite sums and the rollover's loops, then all six of its
   properties (done).
5. Left to model: GiB-hours and tier changes; the time after a period boundary as a
   property of its own; an abstract meter that charges the time a sandbox is READY.
