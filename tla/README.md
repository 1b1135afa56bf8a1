# Verification of VPS Manager

TLA+ models of the protocols of VPS Manager, the TLC runs that check them on
small instances, and TLAPS proofs about them. The reference is the code under
`src/`; every definition that models code is listed with its lines in
`PROJECT.json` ("map"), every hazard of the code with the properties that would
catch it going wrong ("hazards").

Run a check with `tlc -config ApiLife.cfg MCLocalUpgradeApi.tla`; check the
proofs with `tlapm LocalUpgradeApi_proofs.tla`.

## The system

VPS Manager is a dashboard for a fleet of hosts: a NestJS API
(`packages/api`) over JSON files or Postgres, a React front end
(`packages/web`), a Go agent on every host (`packages/agent`), on the API's own
host a separate Go updater with a privileged helper, and shell scripts that
install all of them.

| Part | State it keeps | Operations | Hard behaviour |
| --- | --- | --- | --- |
| Local upgrade API (`api/src/local-upgrade`) | one row per upgrade job, with revision, lease, fencing token, deadlines, baseline heartbeat | createJob, claim, progress, result, reads that reconcile | handlers interleave at every await; nothing but reads rules deadlines; verdicts depend on another table |
| Updater daemon (`agent/internal/updater`) | one durable journal, requests for the helper | claim, download, stage, request the swap, await the heartbeat, roll back, report, hold, acknowledge | crash at any point, offline server, stale lease, a helper that moves while the daemon looks |
| Privileged helper (`helper.go`) | the agent binary, its backup, a root-owned record, results | apply, rollback, cleanup | crash between two writes, restarts that fail, requests served again |
| Docker commands (`agent/internal/commands`, `api/src/docker/docker-management*`) | operations with a lease; receipts on the host | create, claim, act, report, cancel | crash between the action and its record, late results, expired leases |
| Docker monitoring (`docker-monitoring*`, `agent/internal/state`, `push`, `run`) | sequence and pending batch of the agent; ledger, watermark, history and alerts of the API | push, commit, acknowledge, page, prune, evaluate | lost answers, reinstalled agents, a switch thrown meanwhile, caps, equal times |
| VPS inventory (`api/src/vps`, `vpsStore.ts`) | one record per VPS | edit, delete, provision mark, the agent's writes, ensureLocalHost | reads before awaits; a script that writes the same file |
| Agent lifecycle (`agent-*.service.ts`, `job-runner`) | slot per host, jobs, credentials; on the host binary, configuration, pid file, lock, Docker identity | install, upgrade, restart, rotate, uninstall | partial failure over SSH, a crash of the API, pushes that go on |
| Own host (`scripts`, `local-agent-supervisor`) | credentials of two scopes, the stand-in's heartbeat | bootstrap, revoke, collect, sign off | several processes over one file, shutdown under way |
| SSH (`api/src/ssh`) | pins, key pairs, `authorized_keys` | classify, scan, trust, revoke, verify, provision | endpoints that change during a scan, files without locks |
| Terminals (`api/src/terminal`) | pending slots, registry, timers, queues | upgrade, admit, dial, wire, flow, close | closes and timeouts during awaits, slow browsers |
| Sessions and limits (`auth`, `common`) | session rows, windows | login, logout, set password, consume | the password script is another process; limits at their edge |
| Dashboard (`monitoring`, `packages/web`) | stream, pages, panels, upgrade card | snapshot, tick, reload, select, load more, confirm, poll | answers and frames overtake each other and the user |
| Release catalogue (`api/src/release`) | snapshot, backoff, the refresh under way | resolve | shared refresh, redirects, caps, expiry |

The parts meet as follows. An administrator creates an upgrade job through the
API, from the card of the dashboard, for a release of the catalogue. The updater
daemon polls `claim`, downloads and verifies the release, reports each phase
with its fencing token, saves the intent to swap and drops a request in
`pending/`. A systemd path unit starts the helper, which backs the binary up,
records the intent, renames the new binary into place, restarts the agent and
writes a result. The restarted agent's next heartbeat, not the updater, makes
the job `succeeded`. If it does not come the daemon has the helper restore the
backup. The daemon finally follows the server's ruling.

Agents of other hosts are installed and removed by jobs of the API over SSH,
with keys the API made and to host keys it trusts. Every agent pushes metrics
with its credential; the push also carries Docker observations, which are
ledgered and evaluated for alerts, fetches Docker commands, and tells the
dashboard, through the activity buses, what to show. The own host has no SSH:
scripts bootstrap its agent and updater.

What makes it correct, part by part: one upgrade per host, ruled on evidence
and finally; a binary swapped at most once with a way back; each batch of
Docker events committed once; alerts that follow their rule; lists that are
read whole; operations that end and succeed only when proved; a host that keeps
an agent and credentials that work; trust that was given for the endpoint at
hand; limits that hold whatever the order of awaits; pages that show the host
on screen and move forward.

## Modules

Every module takes its bounds and drivers as constants; a behaviour of a driver
constant is one of the API with that store. Time is a small clock, or flags that
run out at any moment. "Faulty:" definitions are plausible bugs of the code,
each the mutant of one property.

| Module | Models | In the run of |
| --- | --- | --- |
| `UpgradeStates`, `LocalUpgradeModels`, `LocalUpgradeApi` | job row, states and rulings; the service and its repository, one step per await | `MCLocalUpgradeApi`, `MCSettles` |
| `UpgradeJob` | the abstract promise of an upgrade job: each call one step on state, token and pin | refined by the API and by the host's server |
| `UpdaterHost` | daemon, helper, agent service and the server with atomic calls | `MCUpdaterHost` |
| `AgentCommands` | the API's queue, the agent's worker with its receipt, the Docker daemon | `MCAgentCommands` |
| `DockerIngest` | the agent's durable sequence and batch, the calls in flight, the API's commit | `MCDocker`, `MCSettles` |
| `DockerAlerts` | the rule of each of seven kinds of alert and the rows shown | `MCDocker` |
| `DockerHistory` | four lists with their cursors, pruning and caps, and a reader | `MCDocker` |
| `VpsInventory` | the record of a VPS and its writers | `MCDocker` |
| `AgentLifecycle` | five operations as jobs, remote commands, pushes, credentials | `MCHosts`, `MCSettles` |
| `DockerStatePair` | the script that provisions the Docker identity, and the agent's Provision | `MCHosts` |
| `SshHostPolicy` | parsing and classing of addresses and names | `MCHosts` |
| `SshTrust` | pins, scans, endpoint changes and verified connections | `MCHosts` |
| `SshKeys` | the key pair's two files and their installation over SFTP | `MCHosts` |
| `HostCredentials` | issuing, installing, revoking the own host's credentials | `MCHosts` |
| `LocalSupervisor` | the stand-in agent inside the API | `MCHosts` |
| `TerminalSessions` | upgrade, admission, dial, wiring, timers and clean-up of terminals | `MCAccess`, `MCSettles` |
| `TerminalFlow` | output and input of one terminal | `MCAccess`, `MCSettles` |
| `DashboardAuth` | logins, logouts and the password script | `MCAccess` |
| `RateLimit` | fixed windows and the verdicts on requests | `MCAccess` |
| `LiveDashboard` | the event stream, its client and the page's own reads | `MCWeb`, `MCSettles` |
| `DockerPage`, `DockerPanel` | what the Docker page and its panel load, drop and show | `MCWeb` |
| `UpgradeCard` | the dashboard's control of an upgrade | `MCWeb`, `MCSettles` |
| `ReleaseCatalog` | refresh, redirects, verdict on a manifest, backoff | `MCWeb` |
| `VpsWorkspace` | the lists of one VPS: the dashboard's over a prefill | `MCWeb` |
| `LocalUpgradeApi_proofs`, `UpdaterHost_proofs`, `AgentCommands_proofs` | theorems about the module each is named after | |
| `DockerMonitoring_proofs` | theorems about the modules of `MCDocker` and about their conjunctions | |
| `TerminalSessions_proofs` | theorems about `TerminalSessions` and `TerminalFlow` | |
| `AccessControl_proofs` | theorems about `DashboardAuth`, `RateLimit` and `SshHostPolicy` | |
| `ManagedHosts_proofs` | theorems about the modules of `MCHosts` but `SshHostPolicy`, and about their conjunctions | |
| `WebPages_proofs` | theorems about the modules of `MCWeb` and about their conjunctions | |

`MCDocker`, `MCHosts`, `MCAccess`, `MCWeb` and `MCSettles` put several modules
side by side: the variable `focus` picks the one a behaviour is about, the
others rest in one initial state and owe nothing. The modules share no state
there, so this is a way to check them in one run, not a composition. What they
do have in common is inside one module: the API's heartbeat row and the server
of `UpdaterHost` (tied to `LocalUpgradeApi` by the refinement), pushes inside
`AgentLifecycle` and `VpsInventory`, terminal sessions inside `TerminalSessions`,
the upgrade jobs of the API as `UpgradeCard` reads them.

### LocalUpgradeApi

`jobs` holds the rows, `agent` the last heartbeat written, `arriving` the
heartbeats that were stamped and are not written yet, `req` the handlers in
flight: the operation, its `nowMs` (`at`), its input, the attempt, the row it
last read (`old`) and the row it is about to write (`new`). `pc` names the await
a handler stands at:

* createJob: `lookup`, `active` and `updater` (replay by idempotency key, active
  job, updater health: an await each, `CreateLookup`), `admit` (agent state,
  catalogue, `CreateAdmit`), `insert` (`CreateInsert`);
* reconcile, the first part of every read and of `claim`: `list` (`List`),
  `sweep` (one active row, `Sweep`), `rule` (its compareAndSet, `Rule`);
* claim, progress, result: `load` (`LoadClaim`, `LoadProgress`, `LoadResult`),
  `verify` (the agent state is read and the new row computed), `commit`
  (compareAndSet, and the next of three attempts when it loses).

`HeartbeatArrives` and `HeartbeatLands` are the two ends of `ingestMetric`.
`Tick` moves the clock. The updater is any client: the model lets it report
every phase of `Phases` and every outcome with every token it was given.

### UpdaterHost

`srv` is the job's row with lease and deadlines reduced to flags that run out at
any time, `seen` the agent state row relative to the pinned heartbeat. `journal`
is the daemon's file, `disk` everything else on the host, `daemon` and `helper`
what the two processes hold in memory, lost in a crash. `daemon.pc` stands
between two durable effects; `ret` is the point to which `reportPhase`,
`observeRuling`, `consume` or `holdJob` returns: those return nil in several
situations, and what the caller then does is part of the model (`Resume`).
`Look` and `Decide` are the two halves of `reconcile`, between which the helper
may move. The units' rules (`DirectoryNotEmpty`, oneshot, `Restart=always`) are
`HelperStarts`, `AgentRevives` and the crashes. `told`, `restarted` and `swaps`
are history. One job is followed, so the helper's `already_current` branch is
left out; disks do not fill up, manifests are valid, credentials are accepted.

### AgentCommands

`ops` holds the operations oldest first; `grant` counts the claims of one and
`lease` says whether the last ran out. `calls` holds the requests the API has
not answered, with whether their handler has read and whether the agent still
waits: a call given up can still write. `receipt` is the durable file, `worker`
the worker's memory. `Begin` is `ProcessOne` (claim or resume); `Start`,
`Execute`, `Act` and `ActAnswered` are the writes of the receipt and the request
to the daemon; `Finish` saves an outcome and reports it.

### DockerIngest, DockerAlerts, DockerHistory

`DockerIngest` has the agent's durable state (`agent`: identity, sequence,
pending batch, acknowledged end of the event window) with `CollectBatch`,
`CollectMinimal`, `Replay` and the crash between any two; `calls` are the pushes
in flight, which the API reads (`ReadHost`) and serves (`ServeDocker`) at
different times; `store` is the ledger, watermark and latest snapshot. The
switch deletes the history (`ClearHistory`) before it is written (`SwitchOff`).

`DockerAlerts` runs `evaluateDockerSnapshot` for one alert: `Observe` feeds the
rule what the classifiers make of a snapshot, `rows` are what the dashboard
lists. The kinds differ in thresholds, windows and in what evidence each
repository feeds them, which the model keeps.

`DockerHistory` has one of four lists as a sequence of keys, the reader's cursor
and the writes between its pages: `Insert` with the caps of the JSON file,
`Touch` (an alert that moves), `PruneHistory`, `ClearRows`. Each driver pages in
its own way (`JsonPage`, `PgPage`). `NewestFirst` sorts by counting: as many
rows are newer than a row as stand before it.

### VpsInventory

One record with its switches, endpoint, provision mark and the agent's
observations. An edit reads (`ReadRecord`), may await the clean-up of the
history (`CleanHistory`) and writes by the id (`WriteRecord`); a push reads the
switch, stores its rows, its location and the time it was seen, each an await.
`EnsureLocalHost` is the API's start, `ScriptReads`/`ScriptWrites` a bootstrap
script that holds the whole JSON file in its hands.

### AgentLifecycle, DockerStatePair

`slot` is the coordinator, `task` the operation at work with the step it stands
at, `machine` and `procs` the host, `pushes` the pushes inside `ingestMetric`.
One action per remote command or await of install, upgrade, restart, rotate and
uninstall, with the `fail` paths; remote commands fail before or after their
effect, the API crashes, processes die. A setup that fails brings back the agent
state it found; an uninstallation that found no row records a failure
(`SetupFails`; `Absent` stands for no row as for one that says so). `DockerStatePair` takes the one remote
command that is a program of its own: the script looks once and acts on what it
saw; scripts of a crashed API overlap with those of the next.

### SshHostPolicy, SshTrust, SshKeys

`SshHostPolicy` has the parser and the classes of addresses as operators and
judges one input per behaviour. A literal is a sequence of parts; `Empties` says
where the empty ones are, the first is expanded, and what the parser refuses of
what is well formed has an empty part too many (`::1:2:3:4:5:1.2.3.4` among
them, which names an address). `SshTrust` has the requests that scan, trust,
revoke, edit and connect, each await a step (a connection reads the pins four
times: of the VPS and of the endpoint, for the key and for its type), against
machines that are reinstalled and offer one key of each type (`Offers`). The pins are a set; each
knows which VPSs' pins are before it, which is the order `find` looks in
(`Foremost`). `SshKeys` has the two files of a pair and `authorized_keys`, each
emptied before it is filled, with cuts and crashes between.

### HostCredentials, LocalSupervisor

`shell[p]` is a bootstrap, revoke or install command with what it has read;
`inApi` is the API's own read of the same file. Writes by two processes put back
what the other wrote (`Base`). `LocalSupervisor` is `onApplicationBootstrap`, the
interval, a collection's three awaits and `onApplicationShutdown`, beside the
hook that ends the pool.

### TerminalSessions, TerminalFlow

`conn[c]` stands at an await of the WebSocket upgrade or of `open`; one clean-up
routine (`CleanUp`) runs whoever calls it first. `TerminalFlow` has the queue,
the bytes in the socket, the pause of the channel and the interval that polls;
a chunk has a number and the place its bytes have in all that was queued, so what
the code counts up and down (`outputBytes`, `bufferedAmount`) are differences of
places.

### DashboardAuth, RateLimit

`req[l]` and `cli` are the API's requests and the password script, `lock` the
in-process lock of the sessions file, which the script does not hold; in
Postgres each is a statement. `RateLimit` has `consume` and the middleware that
judges its answer later.

### LiveDashboard, DockerPage, DockerPanel, UpgradeCard, ReleaseCatalog, VpsWorkspace

`LiveDashboard` follows one job and one metric from the store to the page by
three paths: the snapshot, the frames, the page's own reads, of which the user's
is kept alone by `busy` and those in the background (the mount's and those of
Docker invalidations, `Background`) overlap. Any snapshot or frame of metrics or
jobs may outgrow its 32 KB (`Fits`) and loses its payload then. `DockerPage` and
`DockerPanel` follow requests with the VPS they were asked of; effects cancel
theirs, "load more", lookups and logs are not effects. `UpgradeCard` has the
statuses, polls and the request under way and derives what the card offers as
the API and the component do. `ReleaseCatalog` has the one refresh that callers
share, redirect by redirect and chunk by chunk. `VpsWorkspace` lays the
dashboard's lists, which loads and snapshots replace and frames extend, over the
prefill that two GETs of a VPS brought once.

## Runs

| Run | What it shows | Bounds |
| --- | --- | --- |
| `api_life` | two racing handlers over the life of a claimed job: lease, fencing, evidence, final rulings, promise step by step | 1 job, 2 builds, 2 handlers, phases restarting and rolling_back, clock 0..2, 3 calls, 2 heartbeats |
| `api_create` | racing and retried createJob calls, refinement from the start | 2 jobs, 1 key, 2 handlers, 3 calls |
| `host_life` | one job through any two mishaps: one swap unless it failed, a way back, true outcomes, and the promise kept by the server | 2 mishaps (a lost journal among them), 2 grants of the lease |
| `host_settles` | the updater comes to rest | 1 mishap, 2 grants, fair |
| `cmd_life` | runs, results and receipts of commands under takeovers and lost calls; every operation settles | 2 instances, 1 operation, 2 mishaps, fair |
| `docker_life` | delivery of batches, alerts, walks over lists, and the inventory's writers | 2 identities, 3 snapshots, 2 mishaps; 7 kinds, 3 rows; times 0..2, pages of 1, cap 2; 2 edits, 2 pushes, 1 start |
| `access_life` | terminals, their flow, logins, limits | 3 connections under limits of 2 and 1; chunks of 1 to 3 over a buffer of 2; 2 logins, 2 passwords; 4 requests over a window of 2 |
| `hosts_life` | the lifecycle of an agent, its Docker identity, addresses, pins, keys, credentials, the stand-in | 2 operations, 1 push, 1 mishap; 3 scripts, 2 at a time; 2 VPSs, 2 endpoints, 3 requests; 2 or 3 commands |
| `web_life` | the stream, the Docker pages, the upgrade card, the catalogue, the workspace of a VPS | 1 job of 2 versions, 1 drop, 1 restart, 2 background loads; 2 VPSs, 3 containers; 2 upgrades; 2 calls, 2 refreshes; 2 jobs of 2 VPSs, lists of 1, 2 visits, 1 load or snapshot |
| `all_settles` | what must end does: jobs, batches, operations, terminals, the page and the card | smaller instances of the above, fair |
| `host_follows_verdict` | work goes on after the verdict (violation) | no mishap |
| `docker_retry` | a retried batch is refused (violation) | 2 snapshots, 1 mishap |

Two handlers are enough for every pairwise race at an await; a third call shows
what a handler does with the traces of two others. The clock needs three values:
before, at and after an expiry. One job suffices for `api_life` because handlers
never read a second row except to create, which `api_create` covers with two.
In `host_life` two mishaps are what it takes for a crash during the recovery
from a crash; two grants of the lease make a stale token. A lost call that takes
effect and one that does not are both enumerated.

In `docker_life` a third snapshot is one that overtakes a retry of the first
while the second is pending; a page of one row makes every step of a walk a
cursor; two equal times with three ids have every tie. In `hosts_life` two
operations have every pair of an operation and what the one before left behind;
the wedge (a job whose first update fails) is a mishap like others. Three
connections under a limit of one per dashboard session and host, two in all,
fill each limit in every order. The groups and octets of addresses are those at
the borders of the networks the policy names. In `web_life` two versions of a
job make an old one, and two background loads beside the user's are answered in
every order; the pages need a change of VPS and a change back.

Symmetry is used for handlers, jobs, VPSs, endpoints and requests, which no
definition orders, and in no run with a liveness property. Deadlock checking is
off everywhere: a settled job, an exhausted clock or number of calls is a state
in which nothing more need happen.

**Fairness.** Each module states its own; `MCSettles` holds the module in focus
to it. A started handler or task of the API runs on (Node's event loop; database
calls return or fail), time passes, and the polls and intervals that the code
sets fire. `host_settles` assumes that the daemon and the helper run on (systemd
restarts both), that the agent's unit is restarted (`Restart=always`) and that
the deadline passes; the agent's heartbeats, the lease, the operator and the
dashboard are free. `cmd_life` assumes that the workers' tickers and the API's
handlers run on and that leases end. `DockerIngest` assumes the agent's loop and
the API's handlers; `TerminalSessions` that sockets told to close do and that a
dashboard session ends, never that a browser acts; `TerminalFlow` that the
socket drains and the interval fires; `LiveDashboard` that frames arrive unless
the stream breaks and that the client reconnects; `UpgradeCard` that its polls
run and are answered. Users, agents and mishaps owe nothing anywhere.

## Proofs

Each `*_proofs` module proves its theorems for any values of the constants of
the modules it extends: any sets of jobs, handlers, connections or logins, any
number of mishaps, claims and snapshots. None of the properties is inductive as
it stands. Each is the consequence of an inductive invariant, built from named
parts, that TLC checked before it was proved; the main step has one case per
action, and under it one per part that the action can disturb.

**`LocalUpgradeApi_proofs`.** `Consistency` proves `IInv == TypeOK /\
HandlersConsistent`: at each await of a handler the row it holds is the stored
row or has a smaller revision, what it is about to write is a claim, a phase or
a verdict its call may make of that row, and the id it is about to insert is
nobody else's. It is needed because a write happens steps after the read that
justifies it.

* `JobsStayUnique` (`OneActiveJobAlways`, `KeysAlwaysIdentifyJobs`): from the
  repository's insert.
* `SettledStaysSettled` and `RowsStayFenced` (`LeaseAlwaysProtectsOwner`,
  `ReportsAlwaysFenced`, `BaselineStaysPinned`), action properties: when
  compareAndSet wins, revisions agree, so the row in hand is the stored row and
  what the handler checked still holds.
* `RulingsAlwaysHaveEvidence`: `ProposalsHaveEvidence` says that a verdict has
  its evidence when it is computed, awaits before it is written, and that the
  agent row shows a heartbeat that was received. Evidence stays evidence: a row
  keeps its build and its pinned heartbeat.
* `ImplementsPromise`: every step maps to a step of `UpgradeJob` or to a stutter
  (`StepIsPromised`). `LaterStepsKeepPromise` says so from a claimed job on, where
  `api_life` starts: that state too satisfies `IInv`.

**`UpdaterHost_proofs`.** `HostStaysConsistent` proves `Solid` (types, leases
numbered by their claims, the daemon standing where its journal allows) and, unless the
journal file was lost, `Sound`: the two journals agree (`JournalsAgree`), the
helper stands where request and record allow (`HelperIsPlaced`), and the record,
the backup, the binary and the count of swaps say the same of what has happened (`TracesAreTrue`, `TracesAreKept`). It is what a restart relies on:
after a crash nothing is left of the processes but these traces, and each
combination of them has to lead to one way on.

* `SwapsStaySafe`: a request to swap has a journal that says so, and a swap leaves
  record and backup, without which only a job ruled for good can be; a second
  swap finds none of them, so the job has failed.
* `OutcomesStayTrue`: whatever says `rolled_back` (record, result, report, row)
  was written after the old binary was put back, and nothing swaps it again.
* `NothingIsForgottenEarly` and `HostServerKeepsPromise` (the refinement of
  `UpgradeJob` by the host's server) need no more than `Solid`.

Both invariants are stated as `[](disk.robbed \/ ...)`, `disk.robbed` being the
mishap of a deleted journal: the branch that recovers from it starts without
the facts the proof is about, and only TLC has followed it.

**`AgentCommands_proofs`.** `RunsStayExact`, from what a receipt says of the runs
so far (`ReceiptFollows`), whose claim a worker holds (`ClaimsAreOwned`) and what
a call still unanswered may yet write (`CallsAreAwaited`). `SuccessesAreTrue`:
what a call carries was confirmed before it was sent. `ReceiptsOutliveReports`:
an action property from the same invariant.

**`DockerMonitoring_proofs`.** One invariant for each module of `MCDocker`, lifted
to the run's specification by `MonitoringIsItsModules`.

* `DockerIngest`: `DeliveryStaysExact`, from four parts: a pending batch has the last
  number its agent gave (`AgentCounts`), a number stands for one snapshot in
  whatever is in flight or in a ledger (`LoadsAreNumbered`), the ledgers know
  everything that was committed and ignored none that is pending (`LedgerIsKept`),
  and a watermark is the end of the last batch of its instance (`MarksFollow`).
* `DockerAlerts` (`AlertInv`): the window of a rule is the end of what was seen
  (`WindowIsRecent`), its quiet run the observations against the condition at that
  end (`QuietIsRecent`), and an alert that evidence can clear has not had all it
  takes (`Lingering`). `AlertsStayTrue` follows for every kind of rule.
* `DockerHistory` (`HistoryInv`): the rows that stand are in the table, and a walk
  under way has shown each of them or has it below its cursor. It rests on what
  the operators return: `NewestFirst` puts a finite set of rows in order
  (`NewestFirstOrders`: counting the newer rows is an injection into as many
  places, hence onto them), and a page of either driver is the beginning of an
  ordered sequence of rows below its cursor (`PageIs`). `WalksStayExact` and
  `PruningAlwaysKeepsTheNewest`.
* `VpsInventory` (`InventoryInv`): a script holds the record as it is until the API
  writes (`ScriptHoldsTheRecord`), edits that run together are remembered
  (`AloneUnlessOverlapped`), an edit about to turn the metrics off has cleaned up
  or finds them off (`OffWasCleaned`), and the clock is taken once for each push
  (`ClockIsCounted`). `InventoryStaysKept` and `InventoryStaysTyped`.

Together they are `ReadingsStayExact` and `RecordsStayKept`.

**`TerminalSessions_proofs`.** `ShellsStayAccounted`, from a soundness of each
connection by the await it stands at (`ConnSound`) and two counts: places and
slots in use are the sizes of sets of connections, which a step leaves alone or
changes by one member. Of `TerminalFlow`, `FlowStaysExact`: what the shell printed is one
line of chunks, each beginning where the one before it ends, of which the socket
has sent some, holds some and the queue the rest (`FlowInv`); `flush` and the
callbacks move only its divisions, so no sum over a queue is needed.

**`AccessControl_proofs`.** Of `DashboardAuth`, `SweepStaysFinal`: no read of the file, however old,
knows a session before its login added it (`ReadsAreOfThePast`), and what the
holder of the lock has read is the file still, unless the script wrote it
(`HolderIsUpToDate`). `SessionsAlwaysMoveOn` is an action property from the same
invariant. Of `RateLimit`, `LimitsAlwaysHold`: windows do not overlap and no two
requests of one have the same count (`WindowsAreApart`), and what passes has a
count within the limit (`PassedAreCounted`); a stretch as long as a window meets
two at most, and the counts within the limit number what passes from each. Of
`SshHostPolicy`, `NamesStayClassed`: that a verdict is what the policy makes of its
input is all that is inductive (`PolicyInv`); the work is in the parser, of
literals of any length (`LiteralsAreParsed`).

**`ManagedHosts_proofs`.** One invariant for each module, lifted to the run's
specification by `HostsAreTheirModules`: its behaviours are behaviours of every
module in it.

* `SshKeys` (`KeysInv`): both the machine's keys and the API's pair are files that
  are emptied and then filled. The invariant says what stands in each of them at each step of
  a request, and that a request alone takes the files from one whole pair to
  another; from it `KeysAlwaysOpenTheHost` and `PairsAreKept`.
* `LocalSupervisor` (`SupervisorInv`): an API that signs off no longer collects,
  hence `StandInSignsOff` and `AgentsBeatStays`.
* `HostCredentials` (`CredInv`): what a command has read and done at each of its
  steps still holds as long as nothing overlapped it. `CredentialsAlwaysServe`,
  `RevocationStaysScoped`.
* `DockerStatePair` (`PairInv`): scripts that run together have the same privilege,
  and the keys they may still generate are counted by the reads they have left.
  `PairStaysSound`, `KeysStayLoadable`.
* `AgentLifecycle` (`LifeInv`): for each step of the five operations, what it
  relies on of the host (`HostFits`), of the credentials (`CredsFit`, `TrialFits`)
  and of what is gone (`GoneFits`). None of it may be shaken by what happens in
  between: pushes on their way, processes that die, crashes of the API. Jobs,
  credentials, processes and times are numbered in the order they came
  (`JobsInOrder`, `IdsFit`, `ClockFits`). `LifecycleStaysSound` follows, and
  `SuccessIsAlwaysEarned`: a job that is recorded as a success has done what it
  is for, and the host shows it at that moment.

* `SshTrust` (`TrustInv`): a request that writes alone has read the pins as they are
  and knows the endpoint as it is (`LoneOnesAreCurrent`); what is read and kept is among what
  users have vouched for (`PinsAreSaid`); what an undisturbed connection has read
  still is so. `HostsStayVouched` and `PinsStayOwned`.

Together they are `HostStaysSound`, `OwnHostAlwaysServed`, `TrustStaysVouched` and
`StoredStaysKept`.

**`WebPages_proofs`.** One invariant for each module of `MCWeb`, lifted by
`WebIsItsModules`.

* `LiveDashboard` (`LiveInv`): nothing known anywhere is ahead of the jobs
  (`NothingIsAhead`), the newest version of a job was shown or is on its way:
  pending, in a frame, behind one without payload that ends the page when it
  arrives, or in the overview the stream is about to open with
  (`NewestIsOnItsWay`), the stream is the page's (`StreamIsThePages`) and
  frames are numbered as they are sent (`IdsGrow`). `StreamStaysWhole`.
* `DockerPage` (`PageInv`): what an effect asks is of the VPS shown, the first page
  of a section comes before the others, and "load more" continues what is shown
  as long as no late answer came between. `PageStaysOfTheHost`.
* `DockerPanel` (`PanelInv`): a key belongs to one VPS, and while the page stays on
  its VPS one thing is asked at a time, so an answer is of the operation that is
  shown. `PanelStaysOfTheHost`, `StatusAlwaysFollows`.
* `UpgradeCard` (`CardInv`): what the page holds of a job was once so, and jobs only
  go on. `CardStaysTrue`, `OutcomeIsAlwaysKept`.
* `ReleaseCatalog` (`CatalogInv`): a snapshot that is kept was verified, every hop of
  it at an allowed address; a caller that waits, waits for a refresh; and none
  begins within the backoff of a failure. `ReleasesStayVouched`.
* `VpsWorkspace` (`WorkInv`): whatever is brought is of its VPS and was once so, and
  in every set of rows one was written last. `WorkspaceStaysOfTheHost`,
  `WorkspaceAlwaysFollows`.

Together they are `PagesAlwaysShowTheirHost`, `ShownAlwaysMovesForward` and
`StreamAlwaysWhole`.

The theorems rest on the named assumptions about the constants, which TLC
evaluates in every run of the module: `None` and `NoRow` are no job, row,
operation or task, administrators' keys are not numbers of pairs, bounds are
naturals, limits, windows, pages and caps are positive, sizes of chunks too
(`FlowAssumption`), a job has a version to begin with (`LiveAssumption`), a
snapshot of the catalogue lives for a moment at least (`CatalogAssumption`, the
configuration refuses a TTL below a second), a section of the Docker page has
more than one page and the placeholder `nobody` is no VPS and no key
(`PageAssumption`), keys of the panel belong to one VPS (`PanelAssumption`), and
a machine first offers one key of each type (`TrustAssumption`). None says more
than the code's constants or the representation of the data.

Only model-checked are

* liveness and whatever needs fairness or ENABLED, which the proof system does
  not reach: `host_settles`, `all_settles` (`BatchesSettle`, `JobIsPutDown`,
  `OperationsEnd`, `PageFollows`, `TerminalsMakeProgress`, `UpgradesSettle`) and
  `EveryOperationSettles`;
* the host after its journal was lost.

Every invariant and every action property of a passing run is stated by a
theorem. Two definitions were written so that this is possible: a library sort
and the library's folds are recursive, and induction over data is out of the
prover's reach. So `NewestFirst` says where each row stands instead of how sorting
gets it there, and chunks carry their places instead of sizes to be summed. Both
are what TLC checks too.

## Where the code does otherwise

Two runs state what a comment or a document says and TLC refutes; "findings" in
`PROJECT.json` quotes the lines. `reportPhase` returns nil after consuming a job
and its callers go on to mutate (`FollowsVerdict`); a retried batch of Docker
events gets a new digest and is refused for ever (`RetriesAreAcknowledged`).

The modules state more of this kind, marked "Violated" or by the words quoted
from the code. TLC finds a counterexample when the definition is added to the
configuration of its module:

| Definition | What the code does |
| --- | --- |
| `LocalUpgradeApi!HeartbeatOutrunsDeadline` | a deadline is ruled from an agent state read before a heartbeat that beat it |
| `UpdaterHost!RollbackEvidenceIsFresh` | the heartbeat that proves a rollback may come from before the restart |
| `UpdaterHost!AckFinishesRecovery` | acknowledging a recovered host never gets the job ruled `rolled_back`: the verdict is not sent again |
| `AgentCommands!MutationNotReplayed` | a Docker action is repeated when its worker crashes before it could save the outcome |
| `DockerIngest!NewInstanceIsHeard` | an agent installed anew starts at sequence 1 and is refused |
| `DockerAlerts!AcknowledgedStays`, `HealthyContainerClears`, `OpensOnPositive` | in the file an acknowledged alert opens again; `container_unhealthy` ignores healthy samples; storage pressure opens on an observation below its threshold after the cooldown |
| `DockerHistory!CapsKeepTheNewest`, `PagesCanFollow` | maintenance reverses the array whose head the caps cut off; an alert id holds the cursor's separator |
| `VpsInventory!OffIsClean`, `SeenMovesForward` | a push that read the switch on stores rows after the clean-up; a push that is overtaken moves the time back |
| `AgentLifecycle!ProvedByTheNew` | a delayed push of the stopped process, or the retried `-once` push, proves an upgrade or a restart |
| `AgentLifecycle!RotationKeepsAccess` | a helper that fails after its effect, or an audit after success, has the credential in use revoked |
| `AgentLifecycle!RevokedForGood` | a push that read a pending credential activates it after it was revoked |
| `AgentLifecycle!SlotHasTask` | a job whose first update fails leaves the slot taken |
| `DockerStatePair!LoadableIsAccepted`, `PartialIsCompleted`, `SplitIsAlwaysVouched` | once sudo is granted a pair of the login user is refused; so is a pair with one file missing; overlapping scripts leave a pair that does not match and is taken on trust |
| `HostCredentials!RemoteIsRefused`, `HostHoldsAToken`, `RaceLeavesOne` | a remote record with the local id is made local first; a token is not printed when a later revocation fails; two rotations revoke each other's credential |
| `LocalSupervisor!ShutdownSignsOff` | the Postgres pool ends before the sign-off |
| `TerminalSessions!EndedIsReleased` | an admission that returns after the clean-up keeps its place |
| `DashboardAuth!PasswordChangeRevokes` | a script killed before its sweep, or a login in flight, leaves an old session |
| `LiveDashboard!SnapshotIsHeard` | event ids restart with the API and the client drops what is not newer |
| `DockerPage!ScopeIsKept` | "load more" answers of the previous VPS are added |
| `DockerPanel!LogsAreOfTheTarget` | logs stay when another container is selected |
| `UpgradeCard!NewestIsKept`, `DialogActs` | a status read before a job was created replaces it; the dialog's button does nothing once the status names no release |

Properties leave out, by a named condition, what these allow: `SwapsAreSafe`
says nothing of a way back for jobs ruled `failed` (a daemon whose wait timed
out may look while the helper is between its record and the rename, report
`failed`, and have the backup deleted after the swap), nor of a second swap
of one (a wait cut off before the swap, a clean-up that removes record and backup
after it, and the request that is left: it takes seven mishaps); `TrustIsVouched`,
`StoredIsKept`, `OwnHostIsServed`, `RecordsAreKept`, `SessionsMoveOn` and
`KeysOpenTheHost` leave out requests of two processes, or of one file without a
lock, that overlapped.

Seen while reading and not stated: `rollupHostGauges`,
`applyUnavailableObservation`, `resolveActiveAlertsForVps`, `closeByVps`,
`closeByDashboardSession` and the sessions' `cleanup` have no caller in
production; an upgrade whose socket is aborted during `handleUpgrade` never
gives its pending slot back; frames above 32 KB are replaced by a notice the page
does not expect; the client sends a cursor the API does not read; an install over
a running agent fails at the upload; a load brings the newest 100 jobs only, so a
workspace may fall back to the older state of its prefill; the overview of a
snapshot has no audit events and empties the dashboard's list; a VPS left before
its prefill is answered is not asked of again while the layout stays.

## Not modelled

Downloads, byte-level parsing, signatures and hashes; the metric collectors of
the agent; HTTP and schema validation, audit records, demo mode; migrations;
gauges and rollups of Docker; the React views without state across requests;
disk-full errors. Each component is listed with its status in `PROJECT.json`.

Modules that meet only in a run are not composed: the pushes of `DockerIngest`,
`AgentLifecycle` and `VpsInventory` are three views of `ingestMetric`, each with
the rows its properties are about.

## Plan

1. Proofs: the host after its journal was lost.
2. An abstract command, run at least once per claim and reported, that
   `AgentCommands` implements; an abstract log of windows for `DockerIngest`.
3. One `ingestMetric` shared by the lifecycle, the inventory and the Docker
   ingest.
