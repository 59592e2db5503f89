# Rynk: TLA+ models, checks and proofs

Rynk turns a directory into a hosted application: a CLI talks to a per-user
daemon, which detects what the project is, runs it as a supervised process,
puts an access gateway and a reverse proxy in front of it, watches it, restarts
it, and announces it on the LAN. This directory keeps TLA+ models of the parts
whose correctness depends on the order in which things happen, the TLC runs
that check them on small instances, and theorems checked by TLAPS.

Contents: [the system](#the-system), [the modules](#the-modules),
[the runs](#the-runs), [what the code does not keep](#what-the-code-does-not-keep),
[proofs](#proofs), [plan](#plan), [not modelled](#not-modelled).

## The system

The daemon is one Node.js process. Its code runs uninterrupted from one `await`
that does real I/O to the next, so every interleaving below is an interleaving
at awaits, timers, sockets and process exits; statements on the SQLite store
settle in the turn that issues them. Around it run other processes: the
applications, the CLIs, the daemons of other machines.

| Part | State it keeps | Operations | Interacts with |
| --- | --- | --- | --- |
| State machine, `packages/core/src/state.ts` | the legal changes of a deployment's state | `assertTransition` | engine |
| Deployment engine, `services/daemon/src/engine.ts` | `live`: the deployment of each project with its instance, gateway, route, ports, flags | deploy, stop, restart, run, launch, relaunch, onExit, teardown, fail, restore, shutdown | runtimes, ports, gateway, proxy, health, store, bus |
| Store, `store.ts`, `packages/database` | deployment rows (`state`, `desired`, `pid`), saved requests, hosting sessions, ports | insert, update, `desiredRunning` | engine, ports |
| Daemon, `main.ts`, `server.ts` | pid file, API, leases and their timers | start, shutdown, API requests, `attachLease` | engine, CLIs |
| CLI, `packages/cli` | a foreground session | `up`, `ensureDaemon`, stop, restart | API, lease socket |
| Access gateway, `packages/access` | session table, invites, blocked addresses, open exchanges | `admit`, upgrade, sweep, set policy, invites, `end` | engine, visitors, proxy |
| Discovery, `packages/discovery` | nodes known, fetches under way | `onAnnouncement`, `sweep`, announce, goodbye | other daemons |
| Ports, `packages/ports` | reservations, sticky ports | allocate, adopt, release | engine, store, other programs |
| Health, `packages/health` | counters of a monitor | start, stop, `record` | engine, the application |
| Processes and runtimes, `packages/process`, `packages/runtime` | managed processes | spawn, stop (SIGTERM, then SIGKILL), exit hook, `verifyProcess` | engine, OS |
| Proxy, exposure, network | routes, tunnels, interfaces | add, remove, create, destroy, poll | engine |
| Detection, configuration | none | pure functions over files | engine |
| Popup, `packages/popup` | the window's process, the form | open, messages, close | CLI |
| Logs, SDKs, plugins | connections, files | | API |

What makes each part correct, and what makes it hard:

- **Engine.** A project has one unfinished deployment; a stop is final however
  many launches, restarts and crash handlers are suspended when it comes; the
  row, the record, the gateway and the process tell the same story; everything
  settles. Hard because five kinds of asynchronous run overlap on one record.
- **Daemon life.** What the user wants running is running after any sequence of
  kills, shutdowns and starts, once; what was stopped stays stopped; a
  foreground application ends with its terminal. Hard because rows, the saved
  request and memory are written at different moments and a crash may fall
  between any two, and because the API is open before `restore()` runs.
- **Gateway.** The user limit holds for every order of visits, idling and
  returning; an invite-only app lets in only invited sessions; a session that
  is in use is not forgotten. Hard because sessions are shared by visitors
  without cookies, age, and may be ended while a response streams.
- **Discovery.** A description never gives way to an older one; a node is
  fetched by one caller at a time; a node that is up is shown up to date; a
  node that left stays away. Hard because announcements repeat and get lost,
  goodbyes are late, and each fetch suspends its caller.
- **Ports.** No port is taken from another project, none leaks, a project keeps
  the port its links name. Hard because probes suspend the call between the look
  at a port and its commit, releases do not wait for the lock, and the
  operating system and other programs own the ports too.
- **Health.** A live application is probed for as long as it is live, with the
  promised hysteresis, and what clients see is what was found. Hard because a
  probe outlives the monitor that made it.
- **Links.** The public link leads to a tunnel that can be closed, no tunnel is
  left behind, the network link follows the network. Hard because creating and
  killing cloudflared suspends callers that a teardown does not wait for.
- **One daemon.** Whatever commands run at once, one daemon remains, found by
  all. Hard because the claim to be that daemon is spread over a file, a port
  and a database that are read and written at different moments.
- **A `rynk`.** It ends with what it hosts, and closing its window ends nothing.
  Hard because events, answers, the window and Ctrl+C come in any order.
- **The plan.** What can be started is; what the user sets in the popup is what
  runs. Hard because four layers with defaults of their own are merged.

## The modules

| Module | Models | Kind |
| --- | --- | --- |
| `DeploymentStates` | `core/src/state.ts` | the transition table |
| `DeploymentEngine` | `engine.ts` within one daemon life, one project | state machine |
| `MCDeploymentEngine` | claims of docs and tests about it | properties |
| `DeploymentEngineProofs` | | proofs |
| `DaemonLife` | `restore`, `shutdown`, rows, leases over many daemon lives | state machine |
| `DaemonLifeProofs` | | proofs |
| `DaemonRace` | `main.ts`, `daemon-control.ts`: several daemons and commands at once | state machine |
| `MCDaemonRace` | its symmetry | instance |
| `UserLimit` | what `docs/access-control.md` promises of the limit | abstract specification |
| `AccessGateway` | `access/src/gateway.ts`, `sessions.ts` | state machine, implements `UserLimit` |
| `MCAccessGateway` | addresses of the clients; a claim | instance |
| `AccessGatewayProofs` | | proofs |
| `NodeRegistry` | `discovery/src/registry.ts` and its surroundings | state machine |
| `NodeRegistryProofs` | | proofs |
| `PortTable` | what a port allocator promises | abstract specification |
| `PortAllocator` | `ports/src/index.ts` and its uses in the engine | state machine, implements `PortTable` |
| `MCPortAllocator` | its symmetry | instance |
| `PortAllocatorProofs` | | proofs |
| `HealthMonitor` | `health/src/index.ts` and what the engine does with it | state machine |
| `HealthMonitorProofs` | | proofs |
| `Sharing` | `exposure/src/index.ts`, the watcher of `network/src/index.ts`, the links | state machine |
| `MCSharing` | exposures and network, one at a time | instance |
| `SharingProofs` | | proofs |
| `HostingSession` | `cli/src/run.ts`, `popup/src/host.ts`; a request that waits | state machine |
| `ProjectDetection` | `packages/detector` | functions |
| `ProjectPlan` | `config/src/resolve.ts`, the request and the popup's form | functions and steps |
| `MCProjectPlan` | directories, flags, files and forms | instance |
| `CommandLineProofs` | `DaemonRace`, `HostingSession` and `ProjectPlan` | proofs |

Each state machine has the others as its component sees them: `Sharing`,
`PortAllocator` and `HealthMonitor` reduce the engine to the calls it makes on
them, `HostingSession` reduces the daemon to a deployment's events, `DaemonRace`
a daemon to whether it hosts. `AccessGateway` implements `UserLimit` and
`PortAllocator` implements `PortTable`.

### DeploymentEngine

`live` is `engine.live`, `dep[d]` the `Live` record of deployment `d`, `row[d]`
its database row, `thr[t]` an asynchronous run (`run`, `relaunch`, `onExit`)
with the await it is suspended in as `pc`, `td[d]` the teardown of `d` (one at
a time, `ld.stopping` sees to that), `alive` and `owner` the processes,
`killing` the ones a stop has signalled, and `listening`, `route`, `reserved`
the outside world the engine changes. Each action runs from where an await
settles to the next await: `Detect`, `Prepare`, `Install`, `Build` and so on
for the pipeline, `HealthOk`, `HealthGone`, `HealthTimeout` for the wait for
health, `Listen`, `ListenBusy` for the share port, `TeardownClosed` and
`TeardownStopped` for `teardown()`, `FailStopped` and `FailClosed` for
`fail()`. `Fault` makes an await throw. Requests (`Deploy`, `Stop`, `Restart`)
and process exits come at any time. `kill()` sends SIGTERM, then SIGKILL
(`Escalate`), and gives up two seconds later: whoever awaits it goes on when the
process has exited or has been sent SIGKILL (`Exited`), so a process may still be
there when the next one is spawned or STOPPED is stored. Two history variables
serve the exceptions below: `missed` in a record, the process exited while the
gateway was opened, and `robbed`, the deployments whose ports or route another
one of the project has released or taken.

Scope: a native runtime, the gateway, the builtin proxy, no tunnel; a port is
held or not held; the health field is left out.

### DaemonLife

One project over several lives of the daemon. `live` is what `engine.live`
holds, reduced to five phases; `rows`, `setting` and `procs` survive the
daemon; `attach` and `grace` are the armed timers of `server.ts`; `restore` is
the place `restore()` has come to and the row it read; `wanted` is a history
variable for the properties: what the user last got an answer to. `Exit` is
the end of a shutdown, which the exit hook of `packages/process` follows by
killing the children; `Killed` is `kill -9`, which leaves them. `ReadRows`,
`Retire`, `RestoreNow`, `Reap`, `RestoreAfterReaping` are `restore()` split at
its awaits; the constant `Requests` says whether the user also acts before
`restore()` is over, which the code allows (the API listens at `main.ts:199`,
`restore()` runs at `main.ts:240`). A new deployment is written in two steps, its
row (`InsertRow`, `engine.ts:467`) and the request it can be restored from
(`SaveRequest`, 469); the daemon does nothing else between the two, but a
`kill -9` may fall there.

Simplifications: `fail()` is one step (DeploymentEngine has it in detail), a
restart in place changes nothing kept here, an entry that `fail()` keeps in
`engine.live` for five more seconds counts as gone (a deploy replaces it), and
a kill signal ends its process in the same step.

### AccessGateway and UserLimit

`admit()` is synchronous, so a request is one step; the end of a response, a
disconnect or an upgrade come later as steps of their own. Time is a set of
ageing steps: a session stops being young, was seen recently, longer ago than
the idle timeout, or longer ago than the retention. Requests that are refused
and change nothing are stuttering and left out. A client keeps its address.
`UserLimit` says in ten lines what a limit on active users promises;
`LimitIsKept` is the refinement, with the active sessions as its users.

### NodeRegistry

`peer` is the other nodes as they really are, `nodes` the registry's entries,
`fetch` the suspended callers of `fetchVerifiedNode` (an announcement or the
sweep), `inflight` the set in the code, `sweep` the sweep under way with the
node objects it holds (`held` is lost when the map's entry is replaced). A
node answers a fetch at one moment and the registry handles the answer at a
later one. Announcements may be lost or repeated, goodbyes lost or late. Ages
are classes of `now - lastSeen`. Nodes meet only through the time a sweep takes,
so a single node with a sweep that may be delayed stands for many; sweeps that
overlap are not modelled.

### DaemonRace

`phase[d]` is the place a daemon process has come to in `main.ts`: reading
daemon.json, asking the daemon it names, opening the database, setting up, up,
and the stages of `shutdown()`. Between the reading (`Boot`, `main.ts:60`) and
the end of the rows it takes for a crashed daemon's (`EndOrphans`, 78) other
processes run; `unaware` remembers the daemons whose reading missed one that is
up, or came up since. `app.close()` frees the port in the step in which it
begins. A command whose daemon was found and gave no answer, or whose 15 s are
over, ends as "expired". `file`, `port` and `sessions` are what the processes
share: daemon.json, the API's port, the hosting-session rows that are open. A
command (`ensureDaemon`, `rynk daemon start`, `stop`, `restart`) goes from
`connect()` to a request, a wait for an exit, a spawn and a poll of daemon.json.
Whether a health request is answered depends on who holds the port, not on the
daemon the file names, for `/api/health` needs no token. `hosts` and `late` are
the daemons that run applications, `late` those that took them on during their
shutdown. `clobbered` is a history variable: a daemon has removed its
successor's file. Not modelled here: the routes in the database (deleted by
every start), restarts of applications (DaemonLife), process identifiers that
are used again.

### PortAllocator and PortTable

`queue` is the promise chain of `locked()`, `stage` the await the first call is
suspended in, `todo` the candidates `choose()` has left to probe. `reserved` and
`sticky` are the two maps in memory, `stored` the rows. A `run` is a deployment
as far as ports go: the retries of `expose()`, `discoverPort()` with `adopt()`,
`fail()` and `teardown()`, which release outside the lock. `busy` are the ports
other programs hold. `PortTable` is the promise: an allocation never takes a
port from another project; only where applications choose their port (`adopts`)
may that happen. The table is allowed to release at any time, since a late
`fail()` may release what the next deployment of the project holds.

### HealthMonitor

`monitor[l]` is the monitor that launch `l` made, with its counters, its loop
(`armed`, `probing`) and its `stopped` flag; `results` is a history: the equal
results it recorded last. `Tick` sends a probe, `Probed` handles its answer, in
a later step, as `tick()` does after its await, whatever has become of the
deployment meanwhile. Around it the engine: `at` is the await `launch()` is
suspended in (`delay`, `spawn`, `health`, `adopt`, `expose` before and `check`
after the hosting session is made), `stopping` and `tearing` a stop and its
teardown, `fails` the runs of `fail()` under way. A stop does not abort the
launch: `StartedHealthy` and `OpenSession` go on after it as `adopt()` and
`expose()` do, and `fail()` of a live deployment stores CRASHED and awaits the
gateway before the state says FAILED. `late` is a history of what was done for a
deployment that no longer wanted it.

### Sharing

`act[a]` is the call of `share()` or `unshare()` each user, `teardown()` and
`fail()` are in; `proc` the cloudflared processes; `exposure`, `registered`,
`public` the three places that name one. `waiting` holds the callers of
`destroy()` that await a kill, in order. `share()` and `unshare()` ask a
provider: `ShareLan` is `share --public --provider lan`, after which the
exposure is `Lan` and `displaced` the tunnel whose exposure it has overwritten.
The network part is `ifs` and `route` (the computer), `known` and `probing` (the
watcher) and `link`. A change between `expose()` and LIVE is remembered in
`missed`.

### HostingSession

One process: `pc` is the place in `up()`, `attachExisting()` or
`waitUntilSettled()`; `events` and `messages` are the queues from the daemon and
from the window, `reply` and `fetch` requests under way, `outcome` and `stopped`
the two promises `up()` races. `ctrlC` tells which handlers of SIGINT are
registered. Besides its user, SIGTERM, a hangup or a kill ends the process
(`Signalled`); a request may fail or time out although the daemon lives
(`NoAnswer`); and the daemon stops a foreground deployment whose lease is gone or
was never taken (`LeaseEnds`). `asked`, `signalled` and `lapsed` remember which of
these happened. The mode "waiting" is `Rynk.host()`, whose request the daemon answers
after `once()`. `ignored` marks behaviours the properties except.

### ProjectDetection and ProjectPlan

A directory is a set of facts, those the detectors ask of it; a detector maps
it to a result with a confidence and, perhaps, a command; the registry sorts.
`BuildRequest`, `CliOverrides`, `Resolve`, `PopupInit` and `ApplySettings` are the
functions of the same names in the code, on partial functions from setting to
value; most values name the layer they come from. The steps are those of one
invocation: refuse, ask, confirm or cancel, host. `PlanSpec` starts from any
facts, any flags and any rynk.yaml the schema lets through, and confirms any
settings with the form's fields; `MCSpec` chooses some of each for TLC. (This
module and `HostingSession`, whose specification is `SessionSpec`, name these
after themselves: `CommandLineProofs` extends both together with `DaemonRace`.)

## The runs

| Run | Question | Bounds | Size |
| --- | --- | --- | --- |
| `engine_two_deployments` | safety of a project's deployments | 2 deployments, 2 processes, 2 suspended runs, 2 listens, 1 retry | 1.8 million states |
| `engine_one_deployment` | liveness | 1 deployment, 3 processes, 3 runs | 121 thousand |
| `daemon_life` | what survives the daemon, leases | 2 deployments, 3 starts, requests at all times | 313 thousand |
| `daemon_race` | one daemon among several | 3 daemon processes, 2 commands at once, any number of commands | 1.82 million (under symmetry) |
| `gateway` | limit, sharing of sessions, invites | 3 clients, 2 sessions, limit 0 or 1; or 1 client, 1 invite, both modes | 776 thousand |
| `registry` | discovery | 1 node, 2 lives, 2 revisions, 2 addresses, 2 fetches | 542 thousand |
| `ports` | allocation | 2 projects, 2 ports, 2 deployments, 2 listens, 1 busy port, 1 crash or dry run | 1.49 million (under symmetry) |
| `health` | monitoring | thresholds 3 and 2 as in the code, 2 launches, 1 `fail()` at a time | 247 thousand |
| `sharing` | public and network links | 2 users, 3 tunnels, 2 addresses, 2 launches | 658 thousand |
| `session` | one `rynk` | 1 restart; both modes, window, form or neither; or a request that waits | 450 thousand |
| `plan` | detection, precedence, popup | every 3 ecosystems; every flag with every setting and every change of the form | 341 thousand |
| `daemon_stopped` | a claim the code breaks | 3 deployments, 2 starts | see below |

What the properties say, and what they except:

- **engine_two_deployments**: `OneDeploymentAtATime`; `OneProcessPerDeployment`,
  no older process runs beside the one the engine knows (excepted: one that has
  been sent SIGKILL and that `kill()` has given up on); `ForwardsOnlyWhenServing`,
  the gateway forwards only for a live or closing deployment, to its process, and
  that runs while it is live (excepted, `missed`: it exited while the gateway was
  opened, and visitors are sent to a dead port); `LiveIsReachable`, gateway, route
  and ports of a live deployment are all in place (excepted, `robbed`: an older
  deployment of the project that ends late releases them, since ports and routes
  are kept by project, `engine.ts:876`); `StopIsFinal`; `StopsAfterTheProcess`, at
  STOPPED the gateway is let go and the processes are gone or given up on
  (excepted: one a launch spawned while the teardown waited for an older one);
  `FinishedRowsStay`. `TypeOK` is checked here; in the modules with proofs it is
  proved.
- **engine_one_deployment**: `AlwaysSettles`, `StopCompletes`, also if no process
  ever exits.
- **daemon_life**: `LiveIsDesired`, what runs in the background is what the
  next daemon would take up, though `restore()` and requests write the same
  rows; `WantedIsLive`, once `restore()` is over what the user had running is
  live, also after a kill in the middle of a start, a redeploy or a restore. The
  wish counts from the second of the two writes: after a kill between the row and
  the request, the application is lost or judged by an older request;
  `ForegroundEnds`, a foreground deployment whose CLI is gone comes to an end,
  whether the CLI died before or after it opened its lease.
- **daemon_race**: `Discoverable`, a daemon that answers is the one daemon.json
  names; `HostsAlone`, two daemons never run applications at once;
  `SessionsAreKept`, a start does not end the hosting sessions of a daemon that
  is up (excepted, `unaware`: one that gave no answer in time, and one that came up
  after the check, while the other opened its database); `JoinsTheWinner`, no
  command fails with "did not start" beside a daemon that is up. Excepted: a daemon
  that removes the file of its successor (`clobbered`), an application started
  during a shutdown (`late`), a winner too slow to answer or a deadline that is over
  (`expired`), and a winner already in daemon.json when the command spawned.
- **gateway**: `LimitIsKept`, the refinement of `UserLimit`; `OneJoinableSession`,
  visitors without cookies that look alike share one session; `ConnectedIsRemembered`,
  `ConnectionsAreAdmitted`, `ProtectedMeansInvited`, `InvitedByInvite`. `Crowd` and
  `Alone` in `MCAccessGateway` split the behaviours: many visitors of a public
  application, or one visitor with invites and both modes.
- **registry**: `OneFetchPerNode`, `NewestWins`, `KeepsUp` (of a node that no
  longer changes and has not been restarted).
- **ports**: `ImplementsPortTable`, the refinement; `KeepsItsPort`, if a
  project's last port was free during the whole call, it gets that one or the
  one the call prefers, also after a crash, a failed listen or a release.
  `expose()` always prefers one (`engine.ts:628`), so a project that had to
  leave its default returns to it, whatever its last port was;
  `MissesNoFreePort`, a call throws only if every port it may choose was taken
  at some time during it.
- **health**: `HysteresisKept`, against the results and not the counters;
  `HealthIsReported`, clients see what the launch's monitor found last, and
  STOPPED once the end is over. Excepted, `late`: the report of a monitor stopped
  during its probe, the monitor of a launch that went live during a `fail()`, the
  HEALTHY of a launch that was in `adopt()` when it was stopped (`engine.ts:554`),
  and the session it opens in `expose()` after that (680); `LiveIsProbed`.
- **sharing**: `PublicLinkIsExposure`; `NoStrayTunnel`, a live tunnel is being
  opened or can be closed, and none outlives its deployment (excepted: calls
  that overlap, and `displaced`, the tunnel whose exposure `share --public
  --provider lan` has overwritten, which neither `unshare()` nor the end of the
  deployment closes); `LinkFollowsNetwork` (excepted: a change between
  `expose()` and LIVE).
- **session**: `ClosingNeverStops`, a `rynk` stops what it hosts only for a user
  who asked or a signal that ends it (excepted, `lapsed`: a request of its own
  that fails although the daemon lives, after which it closes the lease of a
  live deployment, and a lease not taken within 20 s); `EndsWithDeployment`,
  `rynk` ends, or shows the failure, when its deployment does, and a waiting
  request is answered (excepted: a stop that comes before the CLI knows the
  deployment live, an existing deployment that is stopped, a wait for what is
  live already).
- **plan**: `StartsIfItCan`, a plan fails only if nothing found can be started
  (excepted: a deno.json without tasks beside `dist/index.html`);
  `PopupLeftAlone`, Start with the form as it came hosts what `rynk --yes` would
  (excepted: the flags the form is not told of); `PopupIsObeyed`, what the user
  sets in the form is hosted.

Why the bounds are enough. The engine's hazards need two deployments (an old one
being torn down while a new one starts), a process and its successor, and two or
three runs suspended together: one launch, one restart, one handler. The second
listen attempt is the one that differs from the first; later ones repeat it. In
`daemon_life` a deployment and its successor after `restore()`, with a kill
between the two and one more start, are the shortest histories in which rows
shadow one another; `daemon_stopped` uses three deployments. In `daemon_race` a
daemon that leaves, one that takes over and one that loses the port are three
processes, and two commands are the fewest that race; its properties are proved
for any number. The gateway needs two visitors that look alike and one that does
not, and one session more than the limit. The registry needs two revisions to be
in the wrong order, two lives to confuse them, and a fetch by the sweep beside
one by an announcement. Two projects and two ports give every port a rival, an
edge of the range on both sides and a port to avoid; two runs let a late release
meet the next deployment. With two ports `KeepsItsPort` says little of a call
that prefers another port than the project's last one, since there is no third
to give it wrongly; three ports (8.35 million states, four minutes) pass too,
and `PortsKept` is proved for any range. Health keeps the code's thresholds; two
launches are a stopped monitor and its successor, and one `fail()` is what a
launch, a stop or a probe can overlap. Three tunnels are one being killed, one
being opened, and one more. A second restart in `session` repeats the first.
Three ecosystems in a directory are two to contend for the plan and one to come
between; one flag with one setting and one change of the form (and `--public`,
which is combined with all) are the pairs in which one layer can hide another.
Every invariant and every safety property of the steps is proved as well, for
any bound.

Symmetry is used in `ports` and `daemon_race`, which check no liveness: projects,
daemons and commands have no identity of their own.

Fairness. A suspended run continues when its await settles, and every await in
`launch()` and `teardown()` has a timeout, so the runs, the teardowns and the
escalation from SIGTERM to SIGKILL are weakly fair. No process need ever exit:
`kill()` gives up. Timers go off. In the registry, announcements are sent every
few seconds for as long as a node is up, and a fetch is answered or fails after
2.5 s. In `health` an armed timer fires, a probe is answered or times out and
`fail()` comes to its end; in `sharing` the watcher polls and awaited kills,
timers and probes settle; in `session` requests are answered, queued events and
messages delivered and promises resumed, and a deployment need never go live.
Requests, crashes, kills, visitors, goodbyes and users are not fair: they may
never come. Liveness in `daemon_life` allows the daemon to die at any moment,
which ends a foreground deployment too. `ports` and `daemon_race` state safety
only.

`CHECK_DEADLOCK FALSE` in every configuration: a daemon at rest waits for
requests, a `rynk` and a plan come to their end, and a model that has used up its
bounds stops.

## What the code does not keep

Each is a sentence in the repository, a property that states it, and a
configuration with which TLC finds the counterexample. The first is a listed run;
the others reproduce a schedule with the command
`tlc -config <name>.cfg <module>`.

1. `DaemonStopped` (run `daemon_stopped`), `StoppedStaysStopped` of `DaemonLife`:
   `redeploy`, `restart` of a deployment that is not LIVE, and `restore()` leave
   the older row desired "running". After a stop the newer row says "stopped",
   `desiredRunning()` takes the older one, and the next daemon starts what the
   user stopped (`store.ts:130`).
2. `EngineStopDuringStart`, `StoppedMeansNoProcess` of `MCDeploymentEngine`: a stop
   between STARTING and `adapter.start()` finds no process; the process is spawned
   afterwards and outlives the STOPPED deployment (`docs/runtimes.md:46`).
3. `EngineCrashDuringExpose`, `LiveMeansRunning` of the same: an exit while
   REGISTERING or EXPOSING is ignored by `onExit()`, and the deployment becomes
   LIVE without a process.
4. `EngineRestartTwice`, `RestartingIsRestarted` of the same: a restart of a
   deployment that is RESTARTING fails it (`engine.ts:160`).
5. `GatewayEndDuringStream`, `EndedMeansDisconnected` of `MCAccessGateway`: a session
   the host ends goes on receiving a response that is being streamed.
6. `RegistryGoodbye`, `AwayUntilAnnounced` of `NodeRegistry`: a goodbye that arrives
   during a fetch or a ping is undone when it settles (`registry.ts:227`,
   `docs/discovery.md:55`).

The exceptions in the properties above are schedules of the same kind; each
stands with its line under "hazards" in PROJECT.json. Among them: a stop
answered without effect while a redeploy is tearing down (`engine.ts:858`), a
foreground application that outlives a killed daemon (`engine.ts:416`), a network
change during `expose()` that no link follows (`docs/discovery.md:62`), a `rynk`
that ignores a stop and waits (`run.ts:326`), `Rynk.host()` of a live project that
waits until its timeout (`server.ts:255`), a starting daemon that deletes the
routes of the one it loses to (`main.ts:102`), one that ends the hosting sessions of
a daemon that came up during its own start (`main.ts:78`), a sticky port that yields
to the framework's default (`engine.ts:628`), a tunnel nobody can close after
`share --provider lan` (`engine.ts:195`), a health or a session stored after the stop
(`engine.ts:554`, 680), and a live deployment that ends because one GET failed
(`run.ts:444`).

## Proofs

TLAPS proves the following for every value of the constants that meets the
assumptions named in the modules (`EngineBounds`, `LifeBounds`, `GatewayBounds`,
`RegistryBounds`, `PortBounds`, `RaceSets`, `HealthBounds`, `SharingBounds`:
bounds are natural numbers, the range of ports is not empty, the users of a link
are finitely many, "nobody" is no project and no daemon, `teardown()` and
`fail()` are no users, clients with equal fingerprints have equal addresses).

Every proof has the same shape. A strengthening of the property is shown to hold
at first and to be kept by each action, one lemma per action; an action property
follows from what such a step does to the invariant's parts. What the
strengthening has to add is the content:

- **Engine**, `Consistent` (`EngineTypes`, `EngineOneDeployment`,
  `EngineConsistent`, `EngineStopIsFinal`, `EngineRowsStay`).
  `OneDeploymentAtATime` is not inductive: nothing in it says that a teardown
  belongs to a stopping deployment, or that the five-second timer of `fail()`
  belongs to a finished one, so a step could clear `live` of a running
  deployment. `Consistent` adds this. Each action is shown to keep `TypeOK` and
  `Consistent` and to move the record and the row of every deployment along two
  relations, `Follows` and `RowFollows`, from which the two action properties
  follow.
- **Engine**, `InStep` (`EngineOneProcess`, `EngineForwardsWhenServing`,
  `EngineStopsAfterProcess`). At most one suspended run drives a deployment;
  the others are idle or clean up after a failure, and change no process. `Fit`
  says what that run may rely on when it resumes: before the first spawn
  there is no process, when it is about to spawn one the record's is gone or
  given up on, while it awaits an exit and after the spawn its process is the
  record's, and the gateway it opened aims there, at a process that runs or has
  been `missed` (`Manned`). A deployment that serves is driven by nobody,
  so a restart or a crash handler that begins is the only one; a
  teardown may be waiting for an older process than the record's, which is the
  exception of `StopsAfterTheProcess`.
- **Engine**, `Reach` (`EngineLiveIsReachable`). What a launch has secured by
  each of its awaits: the app port, the share port, a listening gateway, the
  route. It holds as long as no stop and no failure has begun (`Normal`), which
  is for good once it has, and the deployment is not `robbed`. It holds for any
  number of deployments: what one has secured (`Secured`), another of the project
  can release or take only by robbing it (`TakesFromOthers`).
- **Daemon life** (`LifeTypes`, `LifeLiveIsDesired`, `LifeWantedIsLive`).
  `WantedIsLive` speaks of the moment after `restore()`; the invariant must say
  for every moment before it that some row can be restored. It has four parts:
  `Order` (the live deployment is the latest, its row appears when it is
  persisted, `restore()` holds an existing row), `Leases` (only foreground
  deployments have timers), `Recorded` (the saved request is that of the live
  deployment and its row is desired) and `Kept` (what is wanted can be restored,
  and is live once `restore()` is over). Between the two writes of a new
  deployment `Recorded` claims nothing of the request. Most steps write a row's
  state without touching its wish, `SameWishes`, and lose nothing that can be
  restored.
- **Gateway**, the limit (`GatewayTypes`, `GatewayProtects`,
  `GatewayKeepsLimit`, `GatewayAdmits`). `GatewayKeepsLimit` is the refinement of
  `UserLimit`: every step lets one session in below the limit, lets sessions
  leave, changes the limit, or stutters.
- **Gateway**, the table (`GatewayOneJoinable`, `GatewayRemembersConnected`,
  `GatewayInvites`). All that can happen to the session table is one relation,
  `TableStep`: sessions fade (they age, are left, end or are forgotten), or one
  visitor enters, into a new session or one that is there (`Fading`,
  `Entering`). That two sessions of one fingerprint
  are never both joinable follows because an entering session looks for one it
  can join before it is made, and nothing that fades becomes joinable again.
- **Registry** (`RegistryTypes`, `RegistryOneFetch`, `RegistryNewestWins`). The
  invariant `InOrder` says that what is listed is no newer than any answer on
  its way and that no answer is newer than the node itself; with one fetch per
  node no two answers can overtake one another.
- **Ports**, the table (`PortTypes`, `PortsOnePort`, `PortTableImplemented`). The
  refinement of `PortTable`. Between the look at a port's holder and the commit
  only releases can change the reservations, since they alone take no lock:
  `ProbeInv` says that the port under the probe is nobody else's. `OnePort`, a
  project holds one port, makes the first port `release()` finds the only one.
- **Ports**, the search (`PortsKept`, `PortsNotMissed`). `SearchInv` says of the
  ports that were free during the whole call so far that all of them are still
  to be probed, and of the project's last port, if it is one, that nothing but
  the preferred port comes before it (`Leads`). An empty list of candidates
  therefore is a full range. `MemoryInv` ties the sticky map, the stored rows
  and the reservations to what was last answered, so that the last port is the
  one remembered.
- **One daemon** (`RaceTypes`, `RaceDiscoverable`, `RaceHostsAlone`,
  `RaceSessionsAreKept`, `RaceJoinsTheWinner`). `PortHeld` says that the daemons
  that serve are those that hold the port, `HostsServe` that applications run
  only there, `SeenDaemon` that a command knows which daemon it asked. Only who
  holds the port writes daemon.json and only who has given it up removes it, so
  that the file and the port agree. `Informed` says of a daemon that is about to end
  the rows that nobody is up, or that it is known to be `unaware`.
- **Health** (`HealthTypes`, `HealthReported`, `HealthHysteresis`). `Watching`
  says which launches have a monitor at work, `Standing` how far a stop has come,
  `Counted` that the counters are no more than the length of the run of equal results
  recorded last, which is what lets the hysteresis be stated of results and proved
  of counters, and `Reported` that the state clients see is that of the one monitor
  left, unless something came `late`.
- **Links** (`SharingTypes`, `SharingPublicLink`, `SharingNoStray`). `Calls` says
  who is in which await with which cloudflared process, `Room` that a process is
  left for each call about to spawn one, and `Orderly`, as long as no
  two calls overlapped, that there is one call, that every process is registered and is
  what the call is about, the exposure or the `displaced` one, and that a deployment
  that ended left none but that. The theorems
  are about `Spec`, in which tunnels and network change together; the run keeps
  the two apart to remain small.
- **A `rynk`** (`SessionInductive`, `SessionClosingNeverStops`,
  `SessionOutlivesHosting`). The property speaks of the deployment, whose end the
  process only hears of through queues and answers that are behind. `Announced`
  and `Pressed` say what may be in a queue: an end only when the deployment has
  ended, "stop" only when the user pressed Stop Hosting. `Reported` says the same
  of an answer under way, which may also be a failure, `Fresh` that nothing is
  known before the request, `StopIsAsked` who sends a stop, and `Known` that what
  `up()` takes for the end is the end, or a failed request, which `lapsed` records.
  Without `Known` the lease that goes with an exiting process could be the one that
  ends the deployment: `SessionOutlivesHosting` is what makes `LeaseEnds` harmless
  wherever no signal came and no request failed.
- **The plan** (`PlanInductive`, `PlanStartsIfItCan`, `PlanPopupLeftAlone`,
  `PlanPopupIsObeyed`). The invariant says that what was sent is a function of what
  was given: the form is the plan of the flags, the request the flags below the
  settings, the project the plan of the request. The rest is about functions.
  `Built`, `Overridden` and `Applied` read a field through the layers of
  `buildRequest()`, `cliOverrides()` and `applySettings()`, `Planned` through
  `resolveProject()`. `PopupIsObeyed` follows field by field. `PopupLeftAlone` uses
  that a command and a runtime alone decide what is started (`Same`), so that a
  form that repeats them changes nothing. For `StartsIfItCan`, `Located` shows that
  no two results of a directory tie, so that there is a first (`Ranked`), and `Weak`
  that a first result without a command has a runnable one behind it only for the
  exception. A type invariant would say nothing here: the layers are partial
  functions with any values.

Only model-checked is liveness (`AlwaysSettles`, `StopCompletes`, `ForegroundEnds`,
`KeepsUp`, `LiveIsProbed`, `LinkFollowsNetwork`, `EndsWithDeployment`), which with
fairness and ENABLED is out of the prover's reach. Every other property of the
passing runs has its theorem.

No module with a theorem declares a RECURSIVE operator.

## Plan

What is left, in this order.

1. Compositions: the engine's `expose()` with the gateway's policy
   (`updateAccess()` during `listen()`), and with `PortAllocator` and the routes
   (a late `releaseResources()`).
2. That the engine implements the reduced life cycle `DaemonLife` and
   `HostingSession` assume.
3. The server of discovery: UDP packets with the socket's life, and the mDNS
   browser, in front of `NodeRegistry`.

## Not modelled

Signatures and key handling (taken as sound), packet and cookie formats, HTML
pages, drawing and terminal output, logging and redaction, database migrations,
Docker and Caddy, plugins, examples, the Python client, the commands of the CLI
that send one request and print its answer. They are formatting or plain I/O,
or reach Rynk only through a library. `engine.remove()` is a stop and deletions;
samples of metrics decide nothing; the rate limiter only refuses requests. The
static server and Compose have no process of their own for the engine to
lose. PROJECT.json names the reason for each part.
