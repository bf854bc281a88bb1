# Formal model of the SD-WAN controller

TLA+ modules, TLC configurations and TLAPS proofs for the controller in
`src/backend/app`: a FastAPI service and an arq worker that render intent into
RouterOS configuration and push it to routers over REST (RouterOS 7) or SSH
(RouterOS 6). The interesting part of the program is that it changes the very
path it uses to reach the device: a push may cut the controller off, and
several sessions (requests, sweeps, an overlapping worker) may want to push to
the same device. Around that part the project models what decides what is
pushed (fabrics, enrollment, rendering, planning, steering) and what looks at
the result (telemetry), and the accounts that may ask for it.

All paths below are relative to `src/backend/app`.

## 1. Inventory

| Component | Source | State | Operations |
|---|---|---|---|
| Safe apply | `reconcile/apply.py`, `drivers/safemode.py`, `drivers/ros7_rest.py`, `drivers/ros6_ssh.py` | locals of one call; the journal (`apply_journal`); on the router: configuration, scheduler entry, backups, Safe Mode | `safe_apply` = backup, then the Safe Mode flow (enter, push a chunk, verify, commit or abort) or the legacy flow (arm, push, verify, disarm) |
| Apply jobs | `services/reconcile.py`, `api/v1/jobs.py`, `services/drift.py`, `tasks/worker.py`, `models/job.py` | tables `jobs` and `sites` (`quarantined`), the sessions' uncommitted changes and row locks | request an apply, cancel, run the scheduled sweep, run the drift sweep, quarantine, release |
| Planner | `reconcile/diff.py`, `reconcile/merge.py`, `reconcile/plan.py`, `drivers/coerce.py` | none (pure); reads the device's menus | merge rendered sections, diff each menu, order the operations |
| Fabric | `services/fabric.py`, `fabric/expand.py`, `fabric/allocate.py`, `api/v1/fabrics.py`, `api/v1/sites.py` | `sites`, `wans`, `fabrics`, `fabric_members`, `links`: /31 subnets, loopbacks, listen ports, keys | create, change and delete each; expand a fabric; change its transport |
| Portable intent | `services/portable.py` | none of its own; writes the fabric's tables | export, import |
| Enrollment | `services/enrollment.py`, `api/v1/enrollment.py`, `services/probe.py` | `enrollment_tokens`, `sites`, `wans` | mint, revoke, confirm once: probe, take the uplinks, join a fabric |
| Renderers | `render/`, `transports/`, `services/fabric.py` `render_device` | none (pure); read the fabric, its links and the site | render the sections of one device |
| Steering policies | `render/policy.py`, `api/v1/policies.py` | `policies`, `sdwan_groups`, SLA profiles; on the router: mangle, routes, netwatch and its scripts | edit intent; render marks, tables, probes; demote and restore routes |
| Telemetry and SLA | `telemetry/poller.py`, `telemetry/evaluator.py`, `tasks/worker.py`, `api/v1/telemetry.py` | `samples`, `sla_evaluations`, the queue of sweeps | poll a site, classify a window, record a bucket, reap |
| Accounts and sessions | `deps.py`, `api/v1/auth.py`, `services/throttle.py`, `api/v1/tokens.py` | `users`, `api_tokens`, the in-memory throttle; sessions are JWTs without a row | log in, sign out everywhere, revoke, demote or disable an administrator, mint API tokens |
| The rest | diagnostics, console, transports' parameter schemas, migrations, web UI, deployment | | formatting, pure I/O or generated |

### How they interact

A request, the drift sweep, the maintenance-window sweep and enrollment all
end in `services/reconcile.apply_site`. It writes the job row, refuses a
quarantined site, has the planner compute a list of operations from the
rendered intent and the device's menus, and hands it to `safe_apply` with a
journal that writes through the same database session. The outcome decides the
job's verdict, whether the site is quarantined, and whether the job keeps a
`rollback_token`. All state that outlives a call is in PostgreSQL or on the
router; sessions share nothing else.

What is rendered comes from the fabric's tables, which requests, imports and
enrollments write, each in one transaction and without locks between them; an
enrollment runs the same expansion as the operator's request. Netwatch probes,
which steering renders, do two things: their scripts change route distances on
the router by themselves, and telemetry reads their counters. A telemetry sweep
is a job that enqueues its successor; nothing else keeps it going. Every
request acts for an account, whose row it has read once.

### Behaviours that are hard

* Between two requests to the router anything may happen: the request or the
  answer is lost, the operation itself breaks management access, the process
  dies, the router drops the session that holds Safe Mode, an operator is in
  Safe Mode already, a timer on the router fires.
* An apply takes minutes, and the state it acts on was read before it.
  Nothing but row locks and one partial unique index serialises the sessions.
* A sweep is one transaction: what it finished early is committed last.
* A planned change must be complete and in an order the router accepts.
* An expansion works out numbers from rows that may change before it writes.
* A script on the router waits out a hold-down and writes what it was rendered
  with, after pushes, reboots and further changes of the path.
* Telemetry sweeps overlap after a restart and judge the same bucket.

### What makes each component correct

* Safe apply: no operation without a restore point; a router cut off by a push
  comes back without help; what the outcome and the journal say is true.
* Apply jobs: one push per device at a time; a session's push keeps every later
  session off the job; every claimed job is decided. A job is not pushed by two
  sessions that have it in hand at once, and a quarantine is kept, only by the
  good fortune that they do not meet: the code has nothing that would see to it
  (section 5).
* Planner: rows the controller does not own are never touched, the plan makes
  the menu equal to intent in an order the router accepts, and nothing that
  stays loses what it refers to on the way.
* Fabric: no number is given twice, none that is given is moved, keys fit the
  transport, and an expansion nobody disturbs leaves nothing to do. The first
  three hold as long as one expansion does not overtake another, and keys as long
  as no import, and no request under an expansion, changes the transport
  (section 5).
* Enrollment: a token is used once, and a join leaves other members alone.
* Steering: a route stands where its policy's own standard puts it, traffic
  takes the best path left, and a path that recovers is used again, unless its
  probe begins afresh before it has (section 5).
* Telemetry: one verdict per path and bucket, every spell outside the SLA is
  counted once, and the chain of sweeps goes on.
* Accounts: an administrator is always left; a revocation is neither lost nor
  hits a later session; a lockout has a cause and an end.

The hazards of the code, each at its line and with the properties that cover
it, are in `PROJECT.json`.

## 2. Modules

| Module | Models | |
|---|---|---|
| `ApplyContract` | what a safe apply promises, with no mechanism | abstract specification |
| `SafeApply` | one call of `safe_apply`, the router and the network | implements `ApplyContract` |
| `SafeApplyProofs` | theorems about `SafeApply` | TLAPS |
| `MCSafeApply` | its fault sets | TLC |
| `ApplyJobs` | the job table, the sessions, PostgreSQL's locks | state machine |
| `ApplyJobsProofs` | theorems about `ApplyJobs` | TLAPS |
| `MCApplyJobs` | its symmetry | TLC |
| `Sections` | what is rendered for a router, and the merging of sections | operators |
| `Planner` | plan and push against one router over time | state machine over `Sections` |
| `PlannerProofs` | theorems about `Sections` and `Planner` | TLAPS |
| `MCPlanner` | its intents | TLC |
| `Fabric` | the fabric's tables, the requests on them and the expanding sessions | state machine |
| `FabricProofs` | theorems about `Fabric` and `Enrollment` | TLAPS |
| `MCFabric` | its sites, fabrics and the import | TLC |
| `Uplinks` | what a probe makes of a router's menus | operators |
| `Enrollment` | tokens and confirm calls | composed with `Fabric` and `Uplinks` |
| `MCEnrollment` | its fabric and its router | TLC |
| `Telemetry` | the sweeps, the probes' counters and the two tables | state machine |
| `TelemetryProofs` | theorems about `Telemetry` | TLAPS |
| `MCTelemetry` | its end, group and limits | TLC |
| `Steering` | policies from edit to netwatch script | state machine |
| `SteeringProofs` | theorems about `Steering` | TLAPS |
| `MCSteering` | its policies, uplinks and paths | TLC |
| `LoginThrottle` | the throttle and the logins that use it | state machine |
| `LoginThrottleProofs` | theorems about `LoginThrottle` | TLAPS |
| `MCLoginThrottle` | its symmetry | TLC |
| `Accounts` | accounts, sessions and API tokens under overlapping requests | state machine |
| `AccountsProofs` | theorems about `Accounts` | TLAPS |
| `MCAccounts` | its first accounts and the changes asked for | TLC |

### SafeApply

The configuration is abstracted to the set `run` of this plan's operations in
effect; `{}` is the configuration before the apply, and `cut` is the operation
(if any) that breaks management access. `pc` is where the coroutine is, and
`applied`, `committed`, `bad` and `out` are `_safe_mode_flow`'s and
`_legacy_flow`'s locals and the `ApplyOutcome` flags. `steps` and `mark` are the
journal's operation rows and chunk boundary rows; a row whose write fails is
only logged, with the operation it was for, and the push goes on: it is `"lost"`
in `steps` and missing in `mark`. `sched` is the dead-man entry,
`hold` and `point` are Safe Mode and the state it returns to, `holding` is
whether the controller believes its console session is open.

One action is one `await` that reaches the router (`Backup`, `EnterGranted`,
`Arm`, `PushOp`, `Verify`, `CommitConfirmed`, `DisarmRead`, `DisarmRemove`), or
the code between two of them. A request that fails has up to three outcomes:
refused or never received, received and the answer lost, or an error outside
`DriverError` that no handler catches (`Raise`). `Interrupted` is the process's
death or the cancellation of the task. The router acts by itself:
`DeadManFires`, `Boot`, `NoticeClosedSession`, `SessionDies`, `HumanHoldEnds`.
Which faults may occur is the constant `Faults`: a property is checked under
every fault the code keeps it under, and the runs name those sets.

* *Survivable* (run `safe_apply`): refusals, lost requests and answers,
  transport errors, crash, cancellation, and a router that notices a closed
  session late. These are the faults the two mechanisms are written for.
* *Everything* (run `safe_apply_all`): also an arm that is refused, a session
  the router drops, a Safe Mode grant whose prompt is lost, an operator who
  holds Safe Mode, a push slower than the dead-man timer, and writes of the
  journal that fail, any of them, while others succeed.

Not modelled: which operations a plan contains (the planner's business), the
SSH line protocol, `find_stale_rollbacks`, the `verify=False` option no caller
uses, dry runs, and a second apply that reuses the token of the first.

### ApplyJobs

`jobs`, `siteOf`, `due` and `quar` are the committed tables; `pushes` and `disputed`
are history: how often a job was pushed, and which jobs two sessions had in hand at
once or a session lost its record of (`RecordDisputes`). A session has a position `pc`, the site and job in hand, the
sweep's remaining list `todo` (with `late`: past its window when the sweep
began), the site rows it has loaded (`seen`), and its transaction: changed job
rows `wrote`, locked site rows `locks`, quarantines `benched`. READ COMMITTED is
modelled by `State(p, j)`: a statement sees the session's own changes over the
committed rows. `WaitsFor` is the lock queue: a row another session has changed,
or an index entry another session's change may add or remove, is waited for.
A circle of waits makes one of its members fail (`DeadlockVictim`).

| Action | Code |
|---|---|
| `ApiCheck`, `ApiClaim`, `ApiConflict` | `api/v1/jobs.py` `apply`: check, insert and commit of the claim, the index's refusal |
| `MarkRunning` ... `EndPushQuarantining` | `apply_site`, shared by every caller |
| `SweepStart`, `SweepTake`, `SweepRefuse`, `Commit` | `run_scheduled_applies` |
| `DriftStart` ... `DriftConflict`, `Commit` | `check_all`, `check_site` |
| `CancelRead`, `CancelWrite` | `cancel_job` |
| `Quarantine`, `ReleaseRead`, `ReleaseWrite` | the site endpoints |
| `WindowMoves` | the clock against `scheduled_for` and `window_closes_at` |
| `DbDrops`, `LostPushEnds`, `Crash`, `DeadlockVictim` | failures |

The insert and the commit of a claim are one step: nothing happens between
them in the code but the audit row. `safe_apply` is abstracted to `StartPush`
and its two ways to end. Not modelled: preimage retention, site CRUD, the
apply that enrollment starts (it takes `apply_site`'s path with no claim),
the content of `job.result`.

### Sections and Planner

A row is `[name, refs, val, tag]`: its identity columns, the rows of other menus
its properties name, the properties that follow the fabric's parameters, and
the ownership comment. A section is what one renderer writes to one menu.
`Sections` has one operator per renderer (`IpsecGre`, `WireGuard`, `Bgp`,
`RenderSite`, `RenderFirewall`, ...), `Rendered` for `render_device` before
merging and `merge_sections` after. All other property values are left out:
what the properties tell apart is which rows exist, whose they are, what they
refer to and whether they are up to date.

`Planner` is the life of one router. `intent` is the controller's database,
`menus` the router. `Render` takes the intent of the moment, `Plan` reads the
router and computes `ops` (`Creates` and `Deletes` are `diff_section`, `PlanOps`
is `Plan.ops`), `PlanUnread` is a menu that cannot be read, `StartPush` the
backup, `PushOp` one accepted operation, `PushFails` the end of a push at a
refusal or a lost request, after which the partial state stays or the restore
point (`base`) returns. `ChangeIntent` and `EditByHand` may come in between.
`Accepts` is the router's side, taken from what the code's comments report of
it: it refuses a row that names a missing one, a second row of one identity and
an operation on a row that is gone. `edited` says whether somebody edited the
router since the plan; `troubles` counts against the bound.

`CleanAfterPush` compares the router with `Asked`, which is taken from the
renderers directly and not from the merged sections, so that merging, scoping,
diffing and ordering are all under test. `_order` in `diff.py` is not modelled:
merging drops `before`, so it never runs on a device (section 5). Also not
modelled here: the relay routes, several fabrics on one site, GRE `simple`
mode, edits during a push, and two transports: `ipip` is plain GRE in another menu,
and nothing renders `ipsec_policy`. The router is one site's, whose slug never changes.

`MakeBeforeBreak` speaks of the steps in which an operation takes effect, accepted or
with its answer lost, and not of a failed push that brings the restore point back: that
returns to the references of before the push, whatever the plan.


### Fabric

`role`, `wan`, `fab`, `mem` and `links` are the tables `sites`, `wans`, `fabrics`,
`fabric_members` and `links`. A /31, a port and a loopback are numbers, a pool is
a set of them, and "the lowest free" is `Allocations`. The short requests of
`api/v1/fabrics.py`, `api/v1/sites.py` and the import of `services/portable.py`
are one action each (`Editing`). Expanding and updating a fabric are sessions
of several steps, because they read first and write at their end:

| Step | Code |
|---|---|
| `LoadFabric`, `LoadUpdate` | `load_fabric`: members, sites, uplinks and links as of now |
| `Expand` | `_ports_held_elsewhere`, `_subnets_held_elsewhere`: what others hold as of a later moment; then all of `expand` |
| `ExpandFabric`, `UpdateFabric` | the flush and the commit of what was worked out |
| `ExpandFails` | a pool runs dry, or the flush meets a row that is gone |

`Needs`, `Created`, `Removed`, `Unported` and `Lacking` are `expand`'s and
`_assign_loopbacks`' decisions as functions of the loaded view `v`. `Lose` is what
`ON DELETE CASCADE` and a parent gone at the flush do to a session under way:
rows it loaded are marked `lost`, and `Flushes` says whether its writes still
find what they name. No lock joins the sessions, so one may be overtaken: another
expansion writes after it has read, of the same fabric at any time, of another
fabric once it has read what that one holds. It is then marked `raced`. `history`
is what befell a fabric that nothing in the code prevents, in the order of the
properties that name it: "raced", an expansion of it was overtaken and wrote all
the same; "pool" and "transport", its links were made for another pool or transport
than it has now, because an import set it (`Moved`) or because it changed under the
expansion that made them (`Outlived`). A PATCH that finds nobody else at work makes
new keys (`ReallocateSecrets`) and takes "transport" away again. `SiteFabricView` is `_site_fabric_view`, what a device is
rendered from.

### Uplinks and Enrollment

`Uplinks` is `services/probe.py`: from a record of the menus a probe reads
(default routes, DHCP clients, bridges, addresses) the uplinks it suggests, in
the device's own order of preference. `SafeRead` is `_safe_read`: a menu that
cannot be read counts as empty.

`Enrollment` extends `Fabric`. A confirm call is one transaction as long as the
probe: `LoadValidToken`, `InsertSite` (with the spending of the token),
`ProbeSite`, and then `ConfirmAlone`, or `LoadJoined` and the expansion by one of
`Fabric`'s sessions up to `ConfirmJoined`, `ConfirmUnexpanded` (the exhausted pool
that `_join_fabric` swallows) or `ConfirmFails`. `InFlight` is PostgreSQL's unique
index: an insert of a name waits for another that has not committed. The
administrator's requests and everything `Fabric` does come in between.

### Telemetry

A tick is a test of every probe of a router; `probe` is what netwatch has
counted. A sweep is a job of the queue: `Queued`, `StartSweep`, `PollSite` and
`EvaluateSite` for each site, `CommitSweep`, which enqueues the next. `samples`
and `evals` are the tables; a sweep's `own` samples, the rows it has decided on
(`adds`, `sets`) and those it has flushed (`added`, `changed`) are published at the
commit; `FlushSite` is where its rows meet the unique constraint, and where it
waits for another sweep's. `Classify` is
`classify`: loss from counter deltas (`CounterPairs` leaves out a pair that
straddles a reset) or, where there is none, from statuses, and the latency as a
mean of bucket means. `lapsed` is history: the samples a slow sweep had read so long
before it judged their site that no window reached back to them (`Lapsing`). `RestartWorker`, `SweepTimesOut`, `SweepFails`,
`ChangePolicies`, `DeleteGroup`, counter resets within `Tick` and menus unread
within `PollSite` are the mishaps, counted against one bound. Of jitter nothing
is kept: its treatment is the latency's. A path's window holds at most a few
ticks, so that every shape of a window (empty, one sample, a reset between two
samples, a change of verdict) occurs.

### Steering

`policies`, `groups`, `profiles` and `hops` are the intent. Names are data: `MarkOf`
is the slug of a policy's name cut to 31 characters and `BucketMark` the names of a
mark's buckets cut likewise, so that two policies may have one mark, and a bucket of
one the name of another's. Of the policies with one mark the first has the tables
(`Owners`); if two that have different marks would have one table (`TablesApart`),
`merge_sections` refuses the duplicate row and the site is not rendered at all
(`Renders`), so that no push happens. `Rendered`, `Buckets`,
`Mangle`, `RoutesWanted`, `RulesWanted` and `ProbesWanted` are `render/policy.py`;
`Push` replaces the router's rows as the differ would: kept routes keep the
distance the scripts gave them, and rows of the chain are kept in place, new
ones at the end (`ChainPushed`). The router is external: `FirstTest`, `GoesDown`
and `GoesUp` are netwatch and the two scripts the renderer writes, `DelayEnds` is
the rest of an up-script after its hold-down, `Reboot` forgets every status.
`wrote` is a history variable: the probes whose scripts wrote after everything
that could have made the routes stale; the safety properties speak of those. `Recovers`
speaks of every probe that has seen its path fail, and excepts one that netwatch begins
afresh before the path is back (`Afresh`): such a path may stay demoted (section 5).

### LoginThrottle and Accounts

`LoginThrottle` is `services/throttle.py` under its callers: `Check` and, after
the database's answer, `RecordFailure` or `RecordSuccess` are separate steps of a
request, so that several may pass the check before any has counted.

`Accounts` has the committed rows `user`, the sessions `jwts`, the API tokens
`token`, and for every request what it has in hand: the account it acts for as
it was when authenticated (`row`), and, between the flush and the commit, the
columns it has written and whose row it holds locked. `Loaded` is the identity
map of SQLAlchemy: a request that changes its own account changes the row it
authenticated with, and another account is read when it is asked for (`GetOwned`)
and written by a later statement. `Changed` is the UPDATE: the columns that differ from what
was loaded. Time is in ticks and a session knows whole seconds of them. The
moment a revocation names is taken in the step that takes the row's lock, where
the code takes it a moment before.

## 3. Runs

| Run | What it shows |
|---|---|
| `safe_apply` | `TypeOK`, `LockoutIsTemporary`, `PushOnlyProtected`, `ImplementsContract`, `LockoutHeals`: Under every fault both mechanisms are built for (refusals, lost requests and answers, transport errors, crash, cancellation, a session close noticed late) no operation lands outside a restore point, broken management is always about to be undone and in the end is, and both flows implement the abstract restore-point contract, of which success means the whole plan and nothing left to undo it. |
| `safe_apply_all` | `FailureIsAccountedFor`, `JournalCoversRouter`, `CommitRowsAreTrue`, `EventuallySettled`: What the outcome and the journal say of the router under every modelled fault, a human's Safe Mode, a lost grant, a timer that runs out mid-push and failing writes of the journal included, and that every call ends with nothing pending on the router. |
| `jobs_slot` | `TypeOK`, `OnePushPerDevice`, `OneActiveApply`: Interactive applies, the drift sweep, cancellation, quarantine and release on one site, with deadlock victims, crashes and lost database connections: one session pushes at a time, one apply is active, and no row escapes the index. |
| `jobs_sweeps` | `PushedOnceUndisputed`, `EveryJobIsDecided`: Sweeps that overlap, beside requests whose window opens later, is open already or is not asked for: a job is pushed a second time only where two sessions had it in hand at once, and every claimed apply whose time has come is decided. |
| `planner` | `NothingRefused`, `CleanAfterPush`, `ForeignUntouched`, `MakeBeforeBreak`, `EventuallyConverged`: A fabric gains a link, moves to another transport and ends while reads and pushes fail and people edit the router: foreign rows stay, no operation of a fresh plan is refused or cuts off a row that stays, a push that goes through leaves exactly the intent, and the router converges. |
| `planner_l2` (violation) | `NothingRefused`: The first apply of a layer 2 fabric adds the bridge port before the tunnel it names, which the router refuses; so does every later one. |
| `fabric` | `TypeOK`, `SubnetsDisjoint`, `PortsDisjoint`, `LoopbacksDistinct`, `KeysMatchTransport`, `AssignmentsStable`, `ExpansionConverges`: Two requests at a time expand and update two fabrics on overlapping pools while imports, one to another transport, and edits of sites, uplinks and members come between their reads and their writes: unless an expansion wrote what another had overtaken, no /31, no port on a router and no loopback of a fabric is given twice; no /31 is ever moved; links have their transport's keys but after an import or a PATCH that changed it under them; an undisturbed expansion leaves nothing to do. |
| `enrollment` | `SpentOnce`: Two confirm calls of one enrollment token, slow probes, a menu that cannot be read, a pool that runs dry and a fabric deleted meanwhile: a token onboards one router. |
| `telemetry` | `TypeOK`, `OneRowPerBucket`, `EpisodesCountedOnce`, `SamplesAreJudged`, `TelemetryGoesOn`: A telemetry sweep polls, judges and commits while tests of the probes, counter resets, unread routers, worker restarts, job timeouts, the reaper and edits of policies and groups come in between: one verdict per path and bucket, every spell outside the SLA counted once, no sample kept unjudged that a window still reached back to, and the chain of sweeps goes on. |
| `steering` | `SteeredByOwnStandard`, `TrafficTakesBestPath`, `Recovers`: Two policies over two uplinks, and one more that comes to share a mark or a table, are edited, rendered and pushed while paths slow down, break and recover, the router reboots and up-scripts wait out their hold-down: of the probes that have written since they began, routes follow the policy's own standard and traffic takes the best path left; a mark of one policy leads somewhere; a path its probe has seen fail is preferred again unless the probe begins afresh. |
| `throttle` | `LockedOnlyForCause`, `FailuresBounded`: Two login requests of one key under way at once, with windows that start over, lockouts that end and a restart: nobody is locked out without cause, and a key's failures stay bounded within the time a lockout lasts. |
| `accounts` | `SignedInStaysIn`, `RevokedStaysOut`: Two requests at once, each holding the account it acts for since it was authenticated, sign in, sign out everywhere, mint and revoke API tokens and change accounts: a revocation of sessions is neither lost nor hits a later session. |

Bounds. `MaxOps = 5` with `ChunkSize = 2` gives a plan of three chunks whose
last is short: first, middle and last chunk, and every position of the
operation that breaks management. `MaxOlder = 2` makes pruning both keep a backup
and remove one.
Plans of one operation, of exactly one chunk and of none are initial states of
the same run. For the jobs, two requests and two job rows give every race for the
slot. `jobs_slot` has two clients, a drift sweep, a cancel and an operator who
quarantines and releases; `jobs_sweeps` has two sweeps at once, as the cron job
overlaps itself when a push lasts longer than a minute, and one client whose job is
due later, is due already or has no due time. One site is enough for mutual exclusion
because sessions interact only through a site's rows and the index is per site.
`Exhausted` lets a run stop when every row id is used, so deadlock is checked in
the runs of `SafeApply`, `ApplyJobs` and `Planner`. The others stop where the
bound on edits or on the clock is reached (the chain of telemetry sweeps may
also really end), so their runs do not check it. Symmetry (jobs, sites, clients, sweepers) is used only in the runs
without liveness.

The planner's four intents are a fabric with one IPsec link, with two links and
other parameters, moved to WireGuard, and without links; between them every
kind of operation and every tie between menus occurs. `MaxTroubles = 2` lets
any two of a changed intent, an edit by hand, a failed read and a failed
operation meet in one history, in either order.

`fabric` has a hub with its own loopback, two branches and a site yet to come,
two fabrics whose pools share one /31, two imports (one of them of another
transport) and two sessions. `MaxEdits = 2` bounds the edits and the expansions
begun while another is under way, together: two edits fall between an expansion's
steps, enough for a row to go and come back, or one edit meets two expansions that
overtake each other. Four ports and three loopbacks run out. A pool is moved from
under links only with three edits (delete a fabric, create it on the other pool,
import it), so that the exception `SubnetsDisjoint` makes for it is used by the proof
alone; so is "raced" of `LoopbacksDistinct`, which takes a join, a leave and two
overlapping expansions. `enrollment` has two calls of
one token, a pool of three /31s or none, one session, a router with a second uplink that is
its LAN, and `MaxEdits = 3`: a mint and two of a revocation, an expiry and an edit
of the fabric or the name. `telemetry` has one end (paths share nothing but a
sweep), two ticks to a bucket and four ticks, so that verdicts of two buckets,
their retention and a clock that passes a bucket during a sweep occur; two sweeps
are every pair of an overlap. `steering` has two policies that may share a probe,
a third that may come to share a mark with one of them and a fourth whose mark is
the name of one of its buckets, three groups (failover and balanced), two standards
and two uplinks; one edit and three changes of the paths or reboots give the races between a script's delay, a
push and the path. `throttle` has two requests of one key, a lockout of two ticks,
a window of four and nine ticks, so that two windows and three lockouts fit.
`accounts` has two requests, three accounts, one of them yet to be created, two
ticks to a second and two seconds: a revocation and a login share a second or do
not.

Fairness. `SafeApply` assumes weak fairness of the controller (asyncio runs a
ready coroutine and every request has a timeout) and of the router's timers,
its boot and its noticing of a dead session; none of the fault actions is
fair. `ApplyJobs` assumes it of each session's steps (statements end, locks are
granted, the deadlock detector runs), of the sweep (a cron job every minute)
and of the clock. Arrivals, faults and crashes are not fair. `Planner` assumes
that the site keeps being applied, by its operators or, where auto-remediation
is on, by the drift sweep; convergence is promised to no other site. `Steering`
assumes it of netwatch alone: probes are tested at their interval and a delay
in a script ends. Nobody need push, edit or repair a path. The other modules
state no liveness and no fairness.

Type invariants are checked where a proof rests on them (`SafeApply`,
`ApplyJobs`, `Fabric`, `Telemetry`). How `Steering` scales weights into buckets
(`Scaled`) is in the model without a property of its own; that every bucket is of
a path is a lemma (`BucketsArePaths`).

A mutant accompanies every property of every passing run: a variant of one
mapped definition with a plausible bug, defined just before it in the module
and marked as such. With it in place TLC finds the property violated.

## 4. Proofs

`SafeApplyProofs` proves, for every plan length, chunk size and set of faults:

| Theorem | Statement |
|---|---|
| `TypeCorrect` | `Spec => []TypeOK` |
| `LockoutTemporary`, `PushProtected` | without the faults in `Unprotecting` and `slowPush`: `[]LockoutIsTemporary`, `PushOnlyProtected` |
| `FailureAccounted`, `JournalCovers` | under every fault, failing writes of the journal included: `[]FailureIsAccountedFor`, `[]JournalCoversRouter` |
| `CommitRows` | under every fault: `[]CommitRowsAreTrue` |
| `RefinesContract` | without the faults named above: `ImplementsContract` |

Four inductive invariants carry them, each written in `SafeApply` next to the
property it strengthens. `RestorePointInv` says what each control point knows
of the restore point: while the Safe Mode flow pushes, its session is the one
that holds; while the legacy flow pushes, the entry is armed; before either, the
router is not cut off. `LockoutIsTemporary` alone is not inductive, since
nothing in it says that `pc = "commit"` is reached only with management
working. `AccountInv` relates the counters to the router and the journal: what
is on the router is at most `applied` plus the one operation that failed, a
restore point never holds more than the committed prefix, and the journal's
rows, those that could be written, follow the counters. `CommitInv` says that a restore point taken after a
committed chunk contains it, and that in the Safe Mode flow no scheduler entry
exists that could restore an older state. `FinishInv` adds for the refinement what
the contract's success rests on: a plan that was not cut short is wholly on the
router when the apply finishes, and nothing is left that could undo it. The
refinement is shown step by step: every action of both flows, of the router and
of the faults maps to an action of `ApplyContract` or to a stutter under the
mapping of `run`, the restore point and the verdict. The contract's steps are what
is shown; it states no fairness. Each proof has one lemma or step per
action and ends in a PTL step; `TypeOK` is used throughout.

`ApplyJobsProofs` proves, for any number of sites, jobs and sessions of every
kind and every fault set:

| Theorem | Statement |
|---|---|
| `TypeCorrect` | `Spec => []TypeOK` |
| `PushesExclusive` | `Spec => []OnePushPerDevice` |
| `SlotExclusive` | `Spec => []OneActiveApply` |
| `PushesOnce` | `Spec => []PushedOnceUndisputed` |

The only assumption besides the types of the constants is that a session is not
both a sweep and a drift sweep (`RoleAssumption`); they are separate tasks of
the worker.

None of the properties is inductive. `OneActiveApply` speaks of committed rows, and a
commit publishes what a session had changed long before: the invariant has to
say what each session sees. `Table` does so. At most one session has changed a
row (`RowsOwned`); in each session's own view a site has at most one active
apply (`OneActiveSeen`); and two sessions never hold uncommitted active rows
of one site (`SlotOwned`), which is what waiting at the index gives. A commit
replaces the table by the committing session's view, so the three together
give the property back. `OnePushPerDevice` follows from `LocksOwned`: a site
row has one holder, and a pushing session is it. `InHand` says, for each
position of a session, which job and site it holds, and that a session between
requests has nothing uncommitted.

The argument about the table is in two halves. `StepOnTable` shows that every
action is one of six effects on the jobs (nothing, a rollback, a commit, an
insert, an overwrite, a cancel), and one lemma per effect shows `Table` kept.
`OthersStay` and `RowsStay` then say once that a step of one session moves no
other session and takes no row from under it, so `InHand` is shown per action
for the acting session only. The whole invariant was also checked with TLC on
the constants of `jobs_slot` and `jobs_sweeps`.

`PushedOnceUndisputed` says of a job pushed twice that two sessions had it in hand at
once or that one lost what it had recorded of it; without that exception the property
is false of the code (section 5). `PushInv` carries it. A pushed job is on record,
committed or in one session's changes (`Recorded`), and no session has it still to
push (`Ahead`: it is on a sweep's list, or in hand and not yet at the push), which is
`PushKnown`. A session selects a job only when it sees it queued; so a job that becomes
someone's to push was either not pushed, or is on record only in the changes of
another, who then holds it too: disputed. `Orderly` says where a session can be
with a row it has filed and with a list, so that a rollback or a commit never puts a
pushed job back into the queue unseen.

Nothing is proved, or checked, of quarantine beyond the guard itself: a release that
waited behind a push lifts what that push called for, and the guard reads a row that
may be old (section 5).


`FabricProofs` proves, for any sites, uplinks, pools and documents:

| Theorem | Statement |
|---|---|
| `TypeCorrect` | `Spec => []TypeOK`, with any number of sessions |
| `SubnetsApart`, `PortsApart`, `LoopbacksApart`, `KeysFollow` | `[]SubnetsDisjoint`, `[]PortsDisjoint`, `[]LoopbacksDistinct`, `[]KeysMatchTransport` |
| `Stable` | `AssignmentsStable` |

All are theorems of `Spec` as it is, for any number of sessions and any imports; the
exceptions are in the properties and each is one that the code brings about (section
5). The invariant is `NumbersInv`. Its first half, `TablesInv`, is the four
properties, that every link's ends and fabric exist, and that no link is there twice.
Its second, `SessionsKnow`, says what each session under way knows (`Knows`) while
its fabric lives: of a session nobody overtook, that each link and loopback of its
fabric is one it read (`NothingNew`; links are compared but for their keys, which a
PATCH may renew under it, `Alike`), and once it has worked out its numbers, that
what it read of other fabrics is still at least what they hold (`HeldIsKnown`). A
session that was overtaken knows nothing, and its fabric is marked the moment it
writes. `TouchedKnows` says that another's write leaves a session's knowledge right or
marks it `raced`, which is where the two sessions meet in the proof. Every edit is first
reduced to one `EditEffect` (links only go, and what a session loaded and is gone is
marked lost), so that the sixteen edits need one argument and not sixteen;
`UpdatingEffect` does the same for a PATCH. `LinksAfterFlush` splits the table after a
flush into links that were there, links given a port, and new ones, and
`HistoryAfterFlush` says what the fabric is marked with; each property is then shown
pairwise over the three.

`FabricProofs` also proves `TokenSpentOnce`, `EnrollmentSpec => SpentOnce`, for any
number of calls, tokens and sessions. Nothing in a token stops a second call
that found it unused; the argument is that the site it inserted holds the name,
which `NameInv` states (`Shape` for the calls' records, `NameHeld`: of the calls
past the insert at most one has a site's name, and then no committed site has).

`TelemetryProofs` proves `TypeCorrect` and `OneRow`, `Spec => []OneRowPerBucket`,
for any ends, groups and sweeps. The property speaks of the committed table and
is not inductive, since overlapping sweeps have rows of the same bucket in hand.
`RowsInv` adds what keeps a commit from publishing two: rows in hand are of sites
that have been judged (`SiteBySite`), a sweep's own rows differ (`OwnDiffer`),
flushed rows of two sweeps fit each other and the table (`FlushedFit`, which the
unique constraint and the waiting at it give), and where no constraint binds, for
rows without a group, only one sweep runs as long as no worker was restarted
(`AloneOnce`). `RowsInv` was also checked with TLC.

The other three properties of `Telemetry` rest on `HandsInv`, which says what a sweep
has in hand: verdicts of the paths of the sites it is done with, one each, dated
within the sweep (`HandsFilled`, `HandsBySite`, `PathsOnce`, `RowsDated`), its
own samples before its verdicts (`OwnBefore`), and all of it no older than the
queue's timeout (`Prompt`). Steps that only begin, end or age something are
treated at once (`Quiet`, `StepIsQuiet`); what a site's judging, a flush, a commit
and a deletion do to rows is stated once each.

| Theorem | Statement |
|---|---|
| `GoesOn` | under `KeptLonger`: `[]TelemetryGoesOn` |
| `SamplesJudged` | `Spec => []SamplesAreJudged` |
| `CountedOnce` | `Spec => []EpisodesCountedOnce` |

`TelemetryGoesOn` says that a sweep is left, which no sweep's own step keeps: the one
that loses at the constraint must lose to another that will not lose in its turn.
`GoesOnInv` finds that one: whoever committed last has no row of a committed one
still to write, and a row it found to change has not been reaped. For the
latter verdicts must be kept for longer than a sweep may take (`KeptLonger`: by
default 90 days, `config.py`, against ten minutes). `JudgedInv` relates samples in
hand to verdicts in hand (`OwnJudged`) and those to the table (`LaterInHand`). It
assumes nothing of the windows: the schema takes any from one minute up
(`schemas/policy.py:28`; the default is 30), a sweep may take ten minutes
(`tasks/worker.py:227`), and so a sample may be older than its window by the time its
site is judged. Those samples are `lapsed`, and the property excepts them. `SpellsInv`
says that a row's previous class is still the class of the row before it
(`Follows`), which every write, overwrite and reaping has to keep; the property itself
assumes that sweeps do not overlap and no group is deleted, since otherwise it
is false. Each was also checked with TLC on the constants of `telemetry`.

`AccountsProofs` proves `SignedInStays` and `RevokedStays`, for any accounts,
requests, bodies and clock. Both compare a session with the latest revocation,
which is history; `RowsInv` says that the committed row always names it. What
makes it inductive is what requests have in hand: a request that loaded an
account before a revocation writes only the columns it changed, and only a
revocation writes the moment, its own. `SecondsKeepOrder` does the rest, since a
session's moment is cut to seconds and the row's is not.

`LoginThrottleProofs` proves `LockedForCause`, `Spec => []LockedOnlyForCause`, and
`FailuresStayBounded`, `Spec => []FailuresBounded`, for any keys and limits and any finite
number of requests, with a lockout no longer than the window (by default 300 and
900 seconds) and a request's patience shorter than the lockout
(`ThrottleAssumption`). For the first, `KeyInv`
speaks of one key. A bucket knows of every lockout what it needs to (`OverOrKnown`);
a request let through before a lockout ends before the lockout does, and what was
over when it was let through was over when the bucket's window began
(`LetThrough`). So every lockout that is over when a failure is counted was
over before the bucket's window, and the failures of that window, of which the
count is no more than the number (`CountIsReal`), are the cause of the new one. For the second, `BoundInv` bounds the recent failures
by what the bucket has counted: all but `Before` of them if it is free
(`FreeFew`), and together with the requests still under way if it is locked
(`LockedFew`), since a locked key lets nobody through and each of those fails
once. A window starts over only when the first of its failures is no longer
recent; a lockout that is over leaves only failures of requests let through
before it (`ForgottenFew`).

`SteeringProofs` proves, for any policies, groups, SLA profiles, uplinks and links:

| Theorem | Statement |
|---|---|
| `SteeredByOwnStandardHolds` | `Spec => []SteeredByOwnStandard` |
| `TrafficTakesBestPathHolds` | with at most 100 uplinks: `[]TrafficTakesBestPath` |

`SteeringAssumption` gives the rows the types of the API's schemas and says that a far
tunnel address belongs to one uplink and that the buckets of one mark have different
names (their suffixes differ and are never cut). Of the names of different marks it
says nothing: marks may be shared, and a bucket of one may be another's mark. Neither property is inductive. Both rest on
`IInv`: a table has one route to a hop (`UniqueRoutes`), every target of a probe's
scripts has its route (`ProbesRouted`), no two probes name the same one
(`ProbesApart`), and while a script of an older configuration waits, no probe counts as
having written last (`StaleQuiet`). `Steered` is the first property said of all the
routes a target names, so that it can be kept before it is known that there is one.
A script then moves its own probe's routes (`WritePuts`) and a push leaves the
distances of the routes it keeps (`PushedRoutes`). That a push establishes
`ProbesApart` is what the renderer has to get right: of the policies with one
mark one has the tables (`Owners`), no other has a table of that name, since
`merge_sections` would have refused to render the site (`TablesApart`), so that one
route is wanted to a hop in a table (`WantedOnce`), and a probe is of one standard
(`WantedApart`).

For the second property `ChainOK` adds that every rule routes by a table that has a
route, unless another policy of the chain has the rule's mark too (`OwnMark`). Only a
push changes the chain, and all it leaves there are rows just rendered (`MangleRows`,
`ChainPushedRows`); a policy that is rendered has a path and a path has a hop
(`TableRouted`). The rest is arithmetic: distances lie between one and the number of
uplinks (`RoutesTyped`), so a route demoted by 100 is behind every healthy one if there
are no more uplinks than that. The exception and the hypothesis are needed: of two
policies that share a mark (section 5) the second may have no route, and with more
uplinks than the penalty a demoted first is ahead of a healthy last.

Sorting and folding would be inductions over data. The model has an order by its
ranks instead (`InOrder`: the n-th has n - 1 before it), so that `OneAtEveryRank`, which
counts, does for every sorted list; a bounded recursion (`Sum`, `Trimmed`, flattening)
is a function on 0..n, and `Recursion` gets it from `LeastNumber` applied to sets of
numbers, which needs no operator as a parameter. `IInv` and `ChainOK` were also
checked with TLC on the constants of `steering`.

`PlannerProofs` proves, for any intents, links and number of mishaps:

| Theorem | Statement |
|---|---|
| `ForeignUntouchedHolds` | `Spec => ForeignUntouched` |
| `MakeBeforeBreakHolds` | `Spec => MakeBeforeBreak` |
| `CleanAfterPushHolds` | `Spec => []CleanAfterPush` |
| `NothingRefusedHolds` | if every intent is `Layer3`: `Spec => []NothingRefused` |

The first three hold for all transports the model knows. The last is false of the
layer 2 ones, as run `planner_l2` shows (section 5), hence its condition: the
transport is IPsec with GRE, plain GRE or WireGuard. The assumptions are those of the
constants: the links are a sequence (`LinksAssumption`), an intent
names a transport of `Transports` and links of the site (`IntentAssumption`), and the
site's slug is the same in all intents (`SiteAssumption`; `SiteUpdate` of the API has
no slug).

The work is in what the renderers and the differ return. Every section a renderer
writes is `Good` (`PartsGood`): each row it asks for is the one its menu and its name stand for
in that intent (`Canon`), carries a tag of the section's scope, and refers to rows
that are asked for as well. So two sections of one menu can only repeat each
other's rows, and merging leaves one good section for each menu, in the order of
ranks (`SectionTyped`, `DeviceRendered`). A plan is then described once, by `PlanOf`,
in terms of the intent and of the router it was made for and not of how it was
computed: it covers every row that is lacking or owned and not asked for, each
once, removals last, the rest in the order of the menus (`PlanMade`).

No property is inductive, since a push takes many steps and may be
broken off at each. The invariant has four parts, shown one on top of the
other:

* `Held`: a row on the router is one that people wrote or one that some intent asked for
  (but for its value, which an edit may change), one to a name; what is left of
  `ops` are operations for the goal (`OpOf`); and the restore point has the same foreign
  rows. It gives `ForeignUntouched`.
* `Orderly`: removals come last, and a row of a name that is asked for refers to
  what it should or is still to be written over. So when removals begin nothing
  that stays refers to what goes, which is `MakeBeforeBreak`.
* `Reaching`: as long as nobody edits the router, what is lacking is still to be written
  and what should not be there is still to be removed (`Covers`). With nothing
  left of `ops` this is `CleanAfterPush`.
* `Pushable`: each operation finds what it needs on the router or has it added
  earlier in `ops`, and adds no name that is there. It gives `NothingRefused`. Only here the
  order of the menus matters: in `Good`, a layer 3 row refers to rows of menus
  before its own (`Ahead`), at orders merging does not change.

Merging and diffing are loops over rows. `Only`, which filters, is a function on 0..n and
`merge_sections` sorts by counting ranks, so that the proofs can expand both; how
they come out is shown with the lemmas on recursion and order that
`SteeringProofs` needed too.

Only model-checked are the liveness properties (`LockoutHeals`, `EventuallySettled`,
`EveryJobIsDecided`, `EventuallyConverged`, `ExpansionConverges`, `Recovers`): the prover has
no rule for fairness.

## 5. Where the code and its documentation disagree

The run `planner_l2` (see `findings` in `PROJECT.json`) shows a comment the program
does not keep. The properties below state others. TLC refutes each of them
within a minute or so when it takes the property's place in the configuration
named, with the constants changed as said; they are not kept as runs. Where a
property the runs check makes an exception by name, the table says "without" it:
what is left is what the code was meant to keep.

| Property | Promised by | Broken by | Configuration |
|---|---|---|---|
| `PushedOnce` | `tasks/worker.py:3` "Everything here is idempotent and safe to run twice", 109 "Pushing twice arms two dead-man rollbacks" | `tasks/worker.py:127`: a sweep does not commit that it picked a job up; an overlapping one pushes it again once the first has finished | `jobs_slot`: `Sweepers = {w1, w2}`, `Dues = {"before"}`, no drifter, canceller, bencher or fault |
| `PushedOnce` | the same | `api/v1/jobs.py:126`: a job whose `scheduled_for` has passed is pushed by its own request, and a sweep selects it between the claim and the push | `jobs_sweeps` with `Sweepers = {w1}` |
| `SubnetsDisjoint` without "raced" | `services/fabric.py:149-158`, of ports "the clash has to be avoided rather than detected" (125) | `services/fabric.py:104, 148`: of two fabrics expanded at once, or of two expansions of one fabric, both have read before either writes | `fabric` as it is |
| `PortsDisjoint` without "raced" | the same, `services/fabric.py:125` | the same, `services/fabric.py:104, 125` | `fabric` as it is |
| `AssignmentsStable` without "raced" | `fabric/allocate.py` "an existing assignment is never moved" | `services/fabric.py:104`: of two expansions that both find a port or a loopback lacking, the second writes over what the first gave | `fabric` as it is |
| `KeysMatchTransport` without "transport" | `services/portable.py:8-10` "an import re-keys links" | `services/portable.py:283-287`: an import sets another transport on a fabric that is there and does not call `reallocate_secrets` | `fabric` as it is |
| `RenderedPortsDistinct` | `models/fabric.py:99` "two interfaces cannot share a port" | `api/v1/fabrics.py:221`: a fabric moved to WireGuard renders every link at the base port until it is expanded | `fabric` as it is |
| `NewcomerIsLinked` | `docs/plan-v2.md:164-166` "fabric-joined site with tunnels up — with no other human input" | `services/enrollment.py:274`: the members expanded over were loaded before the newcomer became one | `enrollment` as it is |
| `OneSweepAtATime` | `tasks/worker.py:142-145` "a slow poll pushes the next one back instead of overlapping it" | `tasks/worker.py:164`: every start of a worker enqueues one more chain of sweeps | `telemetry` as it is |
| `Recovers` with `verdict[k] = "unknown"` dropped from `Afresh` | `render/policy.py:952-953` "so the path can be re-preferred once it has recovered" | `render/policy.py:1059`: routes keep the distance the scripts gave them, and the first test of a probe that is new to the router (after a reboot, or under another SLA standard) runs no script | `steering` as it is |
| `ChainInOrder` | `render/policy.py:29-30` "marked ``ordered`` so the reconciler preserves it" | `reconcile/diff.py:207`: rows that stay keep their place, new ones go to the end, whatever the priorities say | `steering` as it is |
| `AnAdminIsLeft` | `api/v1/auth.py:147` "Do not let the last active admin lock everyone out." | `api/v1/auth.py:148`: the account is the administrator's own object, whose role has been assigned before it is compared | `accounts`: `AtStart <- Founder`, `Changes <- Demoting`, no token, one request |
| `RefusedForCause` | `api/v1/auth.py:160` "You are the only active admin; promote another user first", `main.py:55` "Change this password" | `api/v1/auth.py:148`: a body without a role differs from any role, so the only administrator's new password is refused | the same |
| `DisablingRevokes` | `models/user.py:28-30` "disabling a user all set this to now()" | `api/v1/auth.py:144`: only `is_active` is set; sessions live again with the account | the same, `AtStart <- Founders`, `Changes <- Disabling` |

Further gaps met while modelling, reproduced once with TLC on these modules or
read from the code:

* `reconcile/apply.py:268`: a first operation whose answer is lost counts as
  not applied, so a failed push that changed the router is not partial.
* `reconcile/apply.py:209`: an exception outside `DriverError` leaves the
  legacy flow with the entry armed and no `rollback_token` on the job.
* `reconcile/apply.py:508`: an entry that has fired is indistinguishable from a
  removed one, so an outcome may call a restored push partial.
* `reconcile/apply.py:372`: if the router drops the session inside a chunk, the
  operations pushed afterwards are behind no restore point.
* `reconcile/plan.py:116`: when the last link goes, the menus left are all
  cleanup sections of one order, so removals run in reverse alphabetical order
  and a BGP template or an IPsec proposal goes before the row that names it.
* `render/firewall.py:148`: firewall rows are owned by a tag with the site's
  name, and their menus are not swept; a renamed site keeps the old rows.
* `reconcile/plan.py:161`: a cleanup-only menu whose read fails for any reason
  is skipped, and the apply reports success with its orphans in place.
* `reconcile/diff.py:140`: of two managed rows with one identity only the last
  is seen, so a duplicate is never removed.
* `reconcile/merge.py:67`: two layer 2 fabrics on one site claim the bridge
  `sdwan-l2` under two tags, and every apply of the site fails.
* `tasks/worker.py:127`: a job cancelled after the sweep selected it is pushed
  all the same, and its cancellation overwritten.
* `tasks/worker.py:87`: the window's end is compared with the start of the
  sweep, so a job reached later may be pushed after it.
* `services/reconcile.py:147`: the quarantine guard reads a row the session
  loaded, for the drift sweep at its start; a quarantine since is not seen. So
  `[]` of "what is quarantined is not pushed" is false, and none of the runs states it.
* `api/v1/jobs.py:101`: the loser of the race for the slot gets an unhandled
  `IntegrityError`, not the 409 written for it, because the index refuses the
  INSERT at the flush outside the `try`.
* `services/reconcile.py:145`: a database connection lost in mid-push frees the
  slot while the push goes on; a second push may overlap it.
* `services/drift.py:117`: a conflict at a later site rolls back the quarantine
  and journal of an apply that the same sweep had finished.
* `api/v1/sites.py:247`: a release that waited behind a push lifts the
  quarantine that push called for.
* `api/v1/jobs.py:112`: an interactive job whose process dies after the claim
  stays queued; no sweep selects a job without `scheduled_for`.
* `reconcile/apply.py:488`: an arm the router refuses is not noticed, and the
  legacy flow pushes without a dead-man entry.
* `drivers/ros7_rest.py:149`: an `httpx` error other than the two mapped ones ends
  a push half-way without the site being quarantined.
* `services/reconcile.py:195`: the drift sweep and a request can wait for each
  other's rows; PostgreSQL fails one of them, and a job may stay undecided.
* `reconcile/merge.py:48`: merging drops `before`, so no row is ever placed.

Fabrics:

* `services/fabric.py:104`: an expansion that loaded a fabric before a PATCH of its
  transport writes links with the old transport's keys. It is the other exception
  `KeysMatchTransport` makes.
* Two links given one number keep it: nothing looks for a clash afterwards.

Enrollment:

* `services/probe.py:317`: a bridge or DHCP server menu that cannot be read
  makes the LAN an uplink, and enrollment takes it unseen.

Steering:

* `render/policy.py:1059`: distances belong to the scripts, so a path demoted
  when its probe was recreated (a reboot, another SLA profile) stays demoted
  until it fails and recovers once more; and a path that fails its new probe's
  first test is not demoted. `Recovers` and the safety properties except such
  probes by name (`Afresh`, `wrote`).
* The same keeps a group's reordered members from being pushed.
* `render/policy.py:1014`: an up-script looks at its own entry once after the
  hold-down; up, down and up again restores the path early, and a script
  rendered before a push writes the old distances after it.
* A route added while its path is down is not demoted, since the probe's status
  does not change.
* Weights are looked up by the uplink's name, a member may name a tag.
* `render/policy.py:631`: what rounding overshoots is trimmed from the largest
  member, which may then get fewer buckets than a lighter one.
* Two names with one slug of 31 characters share a mark; the second policy
  leads nowhere. A policy whose mark is the name of another's bucket
  (`voice-0` beside a balanced `voice`) makes the site unrenderable: the two tables
  are two rows of one identity, which `reconcile/merge.py:93-110` refuses.
* `api/v1/policies.py`: an SNI policy over a group that is then balanced makes
  the site unrenderable; new classifier rows are appended after the routing
  rows; deleting a profile or a group checks its use and then deletes.

Telemetry:

* `models/telemetry.py:75`: deleting a group sets its verdicts' group to NULL,
  where no unique constraint binds; they mix with the default's.
* `tasks/worker.py:156`: a sweep whose flush fails or that times out enqueues
  no successor; telemetry stops until a worker starts.

Accounts:

* `api/v1/auth.py:149`: two administrators who deactivate themselves at once
  each see the other, and changing each other is not checked at all.
* `deps.py:141`: `last_used_at` is lost when the request fails.
* `services/throttle.py:59`: the bucket of a key that never returns stays.

## 6. Not modelled

* Of the fabric: `fabric/mesh.py` (dynamic mesh, no caller changes state), sites
  renamed, loopbacks edited by hand, members and links disabled, a port base in
  `transport_params`, the deletion of a single link.
* Of enrollment: the bootstrap script, the device's credentials, source address
  binding (a check on an argument) and the apply after the join, which takes
  `apply_site`'s path.
* Of telemetry: site metrics, chart queries, links deleted under a sweep.
* Of steering: what a policy matches (conditions, application groups, address
  lists, choice of sites), which decides no state the properties speak of.
* Of the portable document: the export and its encryption.
* Of accounts: names, `last_used_at`, the audit trail, tenants, hashing.
* Diagnostics, console, parameter schemas, migrations, web UI, deployment:
  reads, formatting, or generated.

## 7. Plan

Done: every component named above is modelled and checked. Proved are the safety
properties of safe apply (with its refinement of the contract), of the planner, the
apply jobs, fabrics, telemetry, steering, accounts and the uniqueness of enrollment, and
that a lockout has a cause and failures stay bounded. What remains, in order of worth:

1. Composition of `SafeApply` with `ApplyJobs`: a second call with the same
   token against the same router.
2. Several fabrics on one site in `Sections`; site renames.

