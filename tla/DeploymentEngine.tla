-------------------------- MODULE DeploymentEngine --------------------------
(***************************************************************************)
(* The deployment engine of services/daemon/src/engine.ts for one project. *)
(*                                                                         *)
(* The daemon is single-threaded: code runs uninterrupted between awaits   *)
(* that do real I/O (a probe, a spawn, a kill, a listen).  Awaits on the   *)
(* SQLite store settle in the same turn, so they do not split a step.  A   *)
(* "thread" is one run of an async method (run, relaunch, onExit), its pc  *)
(* the await it is suspended in; a teardown has a pc of its own per        *)
(* deployment because ld.stopping admits only one.                         *)
(*                                                                         *)
(* Scope: a native runtime behind the access gateway, the builtin proxy,   *)
(* no public tunnel.  Ports are reduced to "the project holds a share port *)
(* / an app port"; health and its monitor are left out.  What happens     *)
(* across daemon restarts is in the module DaemonLife.                     *)
(***************************************************************************)
EXTENDS DeploymentStates, FiniteSets

CONSTANTS
  MaxDeployments,   \* bound: deployments of the project in one daemon life
  MaxInstances,     \* bound: processes spawned for it
  MaxThreads,       \* bound: async method runs suspended at once
  MaxListens,       \* attempts to open the share port (3 in the code)
  MaxRetries,       \* restart.maxRetries
  RestartPolicy     \* restart.policy

ASSUME EngineBounds ==
  /\ MaxDeployments \in Nat \ {0} /\ MaxInstances \in Nat \ {0}
  /\ MaxThreads \in Nat \ {0}     /\ MaxListens \in Nat \ {0}
  /\ MaxRetries \in Nat
  /\ RestartPolicy \in {"always", "on-failure", "never"}

Deployment == 1..MaxDeployments
Instance == 1..MaxInstances
Thread == 1..MaxThreads
None == 0

VARIABLES
  made,        \* how many deployments have been created
  live,        \* engine.live: the project's current deployment, or None
  dep,         \* the Live record of each deployment
  row,         \* its row in the deployments table
  td,          \* its teardown
  thr,         \* suspended runs of async methods
  owner,       \* which deployment spawned a process (None: not spawned)
  alive,       \* processes that have not exited
  killing,     \* the last signal kill() has sent to a process that is still there
  listening,   \* gateways whose server listens, named by the launch that opened them
  reserved,    \* port kinds the allocators hold for the project
  route,       \* deployment behind the proxy route of the project, or None
  robbed       \* deployments whose ports or route another one has released or
               \* taken over (no code has this)

vars == <<made, live, dep, row, td, thr, owner, alive, killing, listening, reserved, route,
          robbed>>

PC == {"idle", "detect", "prepare", "install", "build", "allocApp", "start", "health",
       "giveUp", "allocShare", "listen", "probe", "lan", "relaunchStop", "backoff",
       "failStop", "failClose"}
Hosting == {"none", "starting", "live", "restarting", "stopped", "failed"}
Sent == {"none", "SIGTERM", "SIGKILL"}

\* missed (which no code has): the process exited while the gateway was opened
LiveRecord ==
  [state : DeploymentState, stopping : BOOLEAN, relaunching : BOOLEAN,
   instance : 0..MaxInstances, gateway : 0..MaxInstances, target : 0..MaxInstances,
   available : BOOLEAN, route : BOOLEAN, attempts : 0..MaxRetries, stable : BOOLEAN,
   hosting : Hosting, forget : BOOLEAN, missed : BOOLEAN]

RowRecord == [state : DeploymentState \cup {"none"}, desired : {"running", "stopped"}]
Teardown == [pc : {"idle", "close", "stop"}, inst : 0..MaxInstances,
             desired : {"running", "stopped"}, redeploy : BOOLEAN]
ThreadRecord == [pc : PC, dep : 0..MaxDeployments, inst : 0..MaxInstances,
                 tries : 0..MaxListens]

TypeOK ==
  /\ made \in 0..MaxDeployments
  /\ live \in 0..MaxDeployments
  /\ dep \in [Deployment -> LiveRecord]
  /\ row \in [Deployment -> RowRecord]
  /\ td \in [Deployment -> Teardown]
  /\ thr \in [Thread -> ThreadRecord]
  /\ owner \in [Instance -> 0..MaxDeployments]
  /\ alive \subseteq Instance
  /\ killing \in [Instance -> Sent]
  /\ listening \subseteq Instance
  /\ reserved \subseteq {"share", "app"}
  /\ route \in 0..MaxDeployments
  /\ robbed \subseteq Deployment

NewLive ==
  [state |-> "CREATED", stopping |-> FALSE, relaunching |-> FALSE, instance |-> None,
   gateway |-> None, target |-> None, available |-> FALSE, route |-> FALSE,
   attempts |-> 0, stable |-> FALSE, hosting |-> "none", forget |-> FALSE,
   missed |-> FALSE]
Idle == [pc |-> "idle", dep |-> None, inst |-> None, tries |-> 0]
NoTeardown == [pc |-> "idle", inst |-> None, desired |-> "stopped", redeploy |-> FALSE]

Init ==
  /\ made = 0 /\ live = None
  /\ dep = [d \in Deployment |-> NewLive]
  /\ row = [d \in Deployment |-> [state |-> "none", desired |-> "running"]]
  /\ td = [d \in Deployment |-> NoTeardown]
  /\ thr = [t \in Thread |-> Idle]
  /\ owner = [i \in Instance |-> None]
  /\ alive = {} /\ killing = [i \in Instance |-> "none"]
  /\ listening = {} /\ reserved = {} /\ route = None /\ robbed = {}

(***************************************************************************)
(* Helpers                                                                 *)
(***************************************************************************)
FreeThreads == {t \in Thread : thr[t].pc = "idle"}
FreshThread == CHOOSE t \in FreeThreads : TRUE
Unspawned == {i \in Instance : owner[i] = None}
FreshInstance == CHOOSE i \in Unspawned : TRUE

At(t, pc) == thr[t].pc = pc
Goto(t, pc) == thr' = [thr EXCEPT ![t].pc = pc]
Begin(t, d, pc) == thr' = [thr EXCEPT ![t] = [Idle EXCEPT !.pc = pc, !.dep = d]]
Park(t) == thr' = [thr EXCEPT ![t] = Idle]

Persisted(d) == row[d].state # "none"

\* Mutant: stop() waits without signalling the tree.
SignalNobody(i) == UNCHANGED killing /\ i \in Instance

\* kill() sends SIGTERM to the tree (a process that got SIGKILL stays doomed) ...
Signal(i) == killing' = [killing EXCEPT ![i] = IF @ = "SIGKILL" THEN @ ELSE "SIGTERM"]

\* Mutant: stop() returns once the signal is sent.
ExitNotAwaited(i) == i \in 0..MaxInstances

\* ... SIGKILL when the grace period is over, and returns when the process is
\* gone or has not gone two seconds after SIGKILL.
Killed == {i \in Instance : killing[i] = "SIGKILL"}
Exited(i) == i \notin alive \/ i \in Killed

\* transition(): refused once a stop was requested, and checked against the table.
MayEnter(e, to) ==
  /\ e.stopping => to \in {"STOPPING", "STOPPED"}
  /\ CanTransition(e.state, to)

\* Write the Live record, and mirror its state in the row.
Save(d, e) ==
  /\ dep' = [dep EXCEPT ![d] = e]
  /\ row' = IF Persisted(d) THEN [row EXCEPT ![d].state = e.state] ELSE row
Write(d, e) == dep' = [dep EXCEPT ![d] = e] /\ UNCHANGED row

\* Mutant: the gateway keeps forwarding while the process is replaced.
StillServing(e) == [e EXCEPT !.stable = FALSE]

\* What relaunch() and onExit() do first: stop the stability timer, hold clients off.
HeldOff(e) == [e EXCEPT !.stable = FALSE, !.available = FALSE]

\* hostingUpdate(): a no-op before the hosting session exists.
Hosted(e, status) == IF e.hosting = "none" THEN e ELSE [e EXCEPT !.hosting = status]

api == <<made, live, td>>
net == <<listening, reserved, route, robbed>>

\* the states in which a deployment has its app port and keeps what it gets next
Holding == {"STARTING", "HEALTH_CHECKING", "REGISTERING", "EXPOSING", "LIVE", "RESTARTING"}

\* d releases or takes what is the project's: the route by its id, the ports by
\* the project, although another deployment of the project may be using them
TakesFromOthers(d) ==
  robbed' = robbed \cup {c \in Deployment \ {d} : c = live /\ dep[c].state \in Holding}

\* releaseResources(): the route goes by its project-wide id, the ports by project.
Released(e) == [e EXCEPT !.route = FALSE, !.gateway = None, !.target = None, !.available = FALSE]
ReleaseFor(d, e) ==
  /\ route' = IF e.route THEN None ELSE route
  /\ reserved' = {}
  /\ TakesFromOthers(d)

(***************************************************************************)
(* fail().  Returns at once when a stop was requested; otherwise stops the *)
(* process, closes the gateway, releases everything and records FAILED.    *)
(* The three parts are split where the code awaits a kill or a close.  `e` *)
(* is the Live record as the caller left it.  They define dep, row, thr,   *)
(* killing and net.                                                        *)
(***************************************************************************)
\* Mutant: the catch block stores FAILED as well, whatever the row says.
FailureForced(d, e) == "FAILED"

\* When transition() refuses FAILED, the catch block sets it in memory only.
FailureStored(d, e) == IF MayEnter(e, "FAILED") THEN "FAILED" ELSE row[d].state

FailFinish(t, d, e) ==
  LET e1 == Hosted([Released(e) EXCEPT !.state = "FAILED", !.forget = TRUE], "failed")
      stored == FailureStored(d, e)
  IN  /\ dep' = [dep EXCEPT ![d] = e1]
      /\ row' = IF Persisted(d)
                THEN [row EXCEPT ![d] = [state |-> stored, desired |-> "stopped"]]
                ELSE row
      /\ ReleaseFor(d, e)
      /\ Park(t)
      /\ UNCHANGED <<killing, listening>>

FailGateway(t, d, e) ==
  \/ /\ e.gateway # None
     /\ listening' = listening \ {e.gateway}
     /\ Write(d, e)
     /\ Begin(t, d, "failClose")
     /\ UNCHANGED <<killing, reserved, route, robbed>>
  \/ e.gateway = None /\ FailFinish(t, d, e)

FailBegin(t, d, e) ==
  \/ /\ e.stopping
     /\ Write(d, e) /\ Park(t) /\ UNCHANGED <<killing, net>>
  \/ /\ ~e.stopping
     /\ e.instance \in alive'
     /\ Signal(e.instance)
     /\ Write(d, e)
     /\ thr' = [thr EXCEPT ![t] = [Idle EXCEPT !.pc = "failStop", !.dep = d, !.inst = e.instance]]
     /\ UNCHANGED net
  \/ ~e.stopping /\ e.instance \notin alive' /\ FailGateway(t, d, e)

\* await ld.instance.stop(3000) in fail() is over.
FailStopped(t) ==
  /\ At(t, "failStop")
  /\ Exited(thr[t].inst)
  /\ FailGateway(t, thr[t].dep, dep[thr[t].dep])
  /\ UNCHANGED <<api, owner, alive>>

\* await ld.gateway.stop() in fail() is over.
FailClosed(t) ==
  /\ At(t, "failClose")
  /\ FailFinish(t, thr[t].dep, dep[thr[t].dep])
  /\ UNCHANGED <<api, owner, alive>>

\* The five-second timer fail() leaves behind.
Forget(d) ==
  /\ dep[d].forget
  /\ dep' = [dep EXCEPT ![d].forget = FALSE]
  /\ live' = IF live = d THEN None ELSE live
  /\ UNCHANGED <<made, row, td, thr, owner, alive, killing, net>>

(***************************************************************************)
(* deploy() and run(): the pipeline up to the first launch.                *)
(***************************************************************************)
\* Mutant: deploy() only looks for a deployment that serves.
CanCreateUnlessLive(current) ==
  /\ made < MaxDeployments
  /\ FreeThreads # {}
  /\ current # None => dep[current].state # "LIVE"

CanCreate(current) ==
  /\ made < MaxDeployments
  /\ FreeThreads # {}
  /\ current # None => IsTerminal(dep[current].state)

Deploy ==
  /\ CanCreate(live)
  /\ made' = made + 1 /\ live' = made + 1
  /\ dep' = [dep EXCEPT ![made + 1].state = "DISCOVERING"]
  /\ Begin(FreshThread, made + 1, "detect")
  /\ UNCHANGED <<row, td, owner, alive, killing, net>>

\* transition(to) in a running pipeline, then suspend in `pc`; it throws into fail().
Advance(t, d, e, to, pc) ==
  \/ /\ MayEnter(e, to)
     /\ Save(d, [e EXCEPT !.state = to])
     /\ Goto(t, pc)
     /\ UNCHANGED <<killing, net>>
  \/ ~MayEnter(e, to) /\ FailBegin(t, d, e)

\* An await of the pipeline threw.
Throws(t, pc) ==
  /\ At(t, pc)
  /\ UNCHANGED <<api, owner, alive>>
  /\ FailBegin(t, thr[t].dep, dep[thr[t].dep])

\* Plugins and detectors answered: RESOLVING, the rows are written, PREPARING.
Detect(t) ==
  LET d == thr[t].dep
      e == dep[d]
  IN  /\ At(t, "detect")
      /\ UNCHANGED <<api, owner, alive>>
      /\ \/ /\ MayEnter(e, "RESOLVING")
            /\ dep' = [dep EXCEPT ![d].state = "PREPARING"]
            /\ row' = [row EXCEPT ![d] = [state |-> "PREPARING", desired |-> "running"]]
            /\ Goto(t, "prepare")
            /\ UNCHANGED <<killing, net>>
         \/ ~MayEnter(e, "RESOLVING") /\ FailBegin(t, d, e)

\* The stages install and build are each optional.
NextStage(t, stages) ==
  /\ UNCHANGED <<api, owner, alive>>
  /\ \E s \in stages :
       Advance(t, thr[t].dep, dep[thr[t].dep], s,
               CASE s = "INSTALLING" -> "install" [] s = "BUILDING" -> "build" [] OTHER -> "allocApp")

Prepare(t) == At(t, "prepare") /\ NextStage(t, {"INSTALLING", "BUILDING", "ALLOCATING"})
Install(t) == At(t, "install") /\ NextStage(t, {"BUILDING", "ALLOCATING"})
Build(t) == At(t, "build") /\ NextStage(t, {"ALLOCATING"})

(***************************************************************************)
(* launch(): STARTING, spawn, wait for health, expose, LIVE.  Shared by    *)
(* the first start, the requested restart and the crash restart.           *)
(***************************************************************************)
AllocateAppPort(t) ==
  LET d == thr[t].dep
      e == dep[d]
      e1 == [e EXCEPT !.state = "STARTING"]
  IN  /\ At(t, "allocApp")
      /\ UNCHANGED <<api, owner, alive>>
      /\ \/ /\ MayEnter(e, "STARTING")
            /\ Save(d, e1) /\ Goto(t, "start")
            /\ reserved' = reserved \cup {"app"}
            /\ UNCHANGED <<killing, listening, route, robbed>>
         \/ /\ ~MayEnter(e, "STARTING")
            /\ e.stopping
            /\ Park(t)
            /\ reserved' = reserved \cup {"app"}
            /\ UNCHANGED <<dep, row, killing, listening, route, robbed>>

\* The pre-start port probe and adapter.start() are over: the process exists.
Spawn(t) ==
  LET d == thr[t].dep
      i == FreshInstance
      e == [dep[d] EXCEPT !.instance = i, !.missed = FALSE]
      next == [e EXCEPT !.state = "HEALTH_CHECKING"]
  IN  /\ At(t, "start")
      /\ Unspawned # {}
      /\ owner' = [owner EXCEPT ![i] = d]
      /\ alive' = alive \cup {i}
      /\ UNCHANGED api
      /\ \/ /\ MayEnter(e, "HEALTH_CHECKING")
            /\ Save(d, next)
            /\ thr' = [thr EXCEPT ![t].pc = "health", ![t].inst = i]
            /\ UNCHANGED <<killing, net>>
         \/ ~MayEnter(e, "HEALTH_CHECKING") /\ FailBegin(t, d, e)

\* A probe answered: REGISTERING, EXPOSING, and expose() up to its first await.
HealthOk(t) ==
  LET d == thr[t].dep
      e == dep[d]
      e1 == [e EXCEPT !.state = "EXPOSING",
                      !.target = IF e.gateway = None THEN @ ELSE thr[t].inst]
  IN  /\ At(t, "health")
      /\ ~e.stopping
      /\ thr[t].inst \in alive
      /\ UNCHANGED <<api, owner, alive>>
      /\ \/ /\ MayEnter(e, "REGISTERING")
            /\ Save(d, e1)
            /\ Goto(t, IF e.gateway = None THEN "allocShare" ELSE "probe")
            /\ UNCHANGED <<killing, net>>
         \/ ~MayEnter(e, "REGISTERING") /\ FailBegin(t, d, e)

\* `if (ld.stopping) return`; an aborted sleep ends in fail(), which returns as well.
HealthStopped(t) ==
  /\ At(t, "health")
  /\ dep[thr[t].dep].stopping
  /\ Park(t)
  /\ UNCHANGED <<api, dep, row, owner, alive, killing, net>>

\* "exited during startup".
HealthGone(t) ==
  /\ At(t, "health")
  /\ thr[t].inst \notin alive
  /\ ~dep[thr[t].dep].stopping
  /\ Throws(t, "health")

\* The startup budget ran out with the process up: stop it, then throw.
HealthTimeout(t) ==
  /\ At(t, "health")
  /\ ~dep[thr[t].dep].stopping
  /\ thr[t].inst \in alive
  /\ Signal(thr[t].inst)
  /\ Goto(t, "giveUp")
  /\ UNCHANGED <<api, dep, row, owner, alive, net>>

GiveUp(t) == At(t, "giveUp") /\ Exited(thr[t].inst) /\ Throws(t, "giveUp")

\* expose(): reserve a share port; the gateway object exists, nothing listens yet.
AllocateSharePort(t) ==
  /\ At(t, "allocShare")
  /\ reserved' = reserved \cup {"share"}
  /\ Goto(t, "listen")
  /\ UNCHANGED <<api, dep, row, owner, alive, killing, listening, route, robbed>>

\* Mutant: the gateway is created forwarding.
OpenedForwarding(e, i) == [e EXCEPT !.gateway = i, !.target = i, !.available = TRUE]

Opened(e, i) == [e EXCEPT !.gateway = i, !.target = i, !.available = FALSE]

\* g.start() succeeded: ld.gateway is assigned, whatever happened meanwhile.
Listen(t) ==
  LET d == thr[t].dep IN
  /\ At(t, "listen")
  /\ listening' = listening \cup {thr[t].inst}
  /\ Write(d, Opened(dep[d], thr[t].inst))
  /\ Goto(t, "probe")
  /\ UNCHANGED <<api, owner, alive, killing, reserved, route, robbed>>

\* EADDRINUSE: give the port back and try another one.
ListenBusy(t) ==
  /\ At(t, "listen")
  /\ thr[t].tries + 1 < MaxListens
  /\ reserved' = reserved \ {"share"}
  /\ TakesFromOthers(thr[t].dep)
  /\ thr' = [thr EXCEPT ![t].pc = "allocShare", ![t].tries = @ + 1]
  /\ UNCHANGED <<api, dep, row, owner, alive, killing, listening, route>>

\* No attempt left, a strict port, or another error.
ListenFails(t) == Throws(t, "listen")

\* The direct-reachability probe is over: the route and the hosting session.
Register(t) ==
  LET d == thr[t].dep
      e == dep[d]
  IN  /\ At(t, "probe")
      /\ route' = d
      /\ TakesFromOthers(d)
      /\ Write(d, [e EXCEPT !.route = TRUE,
                            !.hosting = IF e.hosting = "none" THEN "starting" ELSE @])
      /\ Goto(t, "lan")
      /\ UNCHANGED <<api, owner, alive, killing, listening, reserved>>

\* Mutant: the gateway is never told that the app is back.
ServedUnannounced(e) == [e EXCEPT !.state = "LIVE", !.stable = TRUE]

Served(e) == [e EXCEPT !.state = "LIVE", !.available = e.gateway # None, !.stable = TRUE]

\* The LAN probe is over: LIVE, unless the transition is refused.
GoLive(t) ==
  LET d == thr[t].dep
      e == dep[d]
      e1 == Hosted(Served(e), "live")
  IN  /\ At(t, "lan")
      /\ UNCHANGED <<api, owner, alive>>
      /\ \/ MayEnter(e, "LIVE") /\ Save(d, e1) /\ Park(t) /\ UNCHANGED <<killing, net>>
         \/ ~MayEnter(e, "LIVE") /\ FailBegin(t, d, e)

\* The first statement of launch().
Launch(t, d, e) ==
  \/ /\ MayEnter(e, "STARTING")
     /\ Save(d, [e EXCEPT !.state = "STARTING"])
     /\ Begin(t, d, "start")
     /\ UNCHANGED <<killing, net>>
  \/ ~MayEnter(e, "STARTING") /\ FailBegin(t, d, e)

(***************************************************************************)
(* restart() of a live deployment: relaunch() in place.  The method also   *)
(* accepts a deployment that is already RESTARTING; the transition inside  *)
(* relaunch() does not, and its catch block fails the deployment.          *)
(***************************************************************************)
Restart ==
  LET e == dep[live]
      quiet == [HeldOff(e) EXCEPT !.relaunching = TRUE]
      moved == Hosted([quiet EXCEPT !.state = "RESTARTING"], "restarting")
  IN  /\ live # None
      /\ FreeThreads # {}
      /\ UNCHANGED <<api, owner, alive>>
      /\ \/ /\ e.state = "LIVE"
            /\ e.instance \in alive
            /\ Save(live, moved)
            /\ Signal(e.instance)
            /\ thr' = [thr EXCEPT ![FreshThread] =
                         [Idle EXCEPT !.pc = "relaunchStop", !.dep = live, !.inst = e.instance]]
            /\ UNCHANGED net
         \/ /\ e.state = "LIVE"
            /\ e.instance \notin alive
            /\ Launch(FreshThread, live, [moved EXCEPT !.relaunching = FALSE])
         \/ /\ e.state = "RESTARTING"
            /\ FailBegin(FreshThread, live, [quiet EXCEPT !.relaunching = FALSE])

\* The old process is gone: launch the new one.
RelaunchStopped(t) ==
  LET d == thr[t].dep IN
  /\ At(t, "relaunchStop")
  /\ Exited(thr[t].inst)
  /\ UNCHANGED <<api, owner, alive>>
  /\ Launch(t, d, [dep[d] EXCEPT !.relaunching = FALSE])

(***************************************************************************)
(* teardown(): stop, in order, the gateway, the process, the resources.    *)
(* `redeploy` is restart() of a deployment that is not live, which deploys *)
(* again once the teardown returns.                                        *)
(***************************************************************************)
\* Defines everything except owner and alive.
TeardownFinish(d, e, desired, again) ==
  LET e1 == Hosted([Released(e) EXCEPT !.state = IF @ = "STOPPING" THEN "STOPPED" ELSE @],
                   "stopped")
      stored == IF e.state = "STOPPING" THEN "STOPPED" ELSE row[d].state
      gone == IF live = d THEN None ELSE live
  IN  /\ row' = IF Persisted(d)
                THEN [row EXCEPT ![d] = [state |-> stored, desired |-> desired]]
                ELSE row
      /\ td' = [td EXCEPT ![d] = NoTeardown]
      /\ ReleaseFor(d, e)
      /\ UNCHANGED <<killing, listening>>
      /\ \/ /\ again /\ CanCreate(gone)
            /\ made' = made + 1 /\ live' = made + 1
            /\ dep' = [dep EXCEPT ![d] = e1, ![made + 1].state = "DISCOVERING"]
            /\ Begin(FreshThread, made + 1, "detect")
         \/ /\ ~(again /\ CanCreate(gone))
            /\ dep' = [dep EXCEPT ![d] = e1]
            /\ live' = gone
            /\ UNCHANGED <<made, thr>>

\* A deployment that is already over makes no transition to STOPPING.
RecordStopping(d, e) == IF e.state = "STOPPING" THEN Save(d, e) ELSE Write(d, e)

\* Await the process, if one is alive, then finish.
TeardownProcess(d, e, desired, again) ==
  \/ /\ e.instance \in alive'
     /\ Signal(e.instance)
     /\ RecordStopping(d, e)
     /\ td' = [td EXCEPT ![d] = [pc |-> "stop", inst |-> e.instance,
                                 desired |-> desired, redeploy |-> again]]
     /\ UNCHANGED <<made, live, thr, net>>
  \/ e.instance \notin alive' /\ TeardownFinish(d, e, desired, again)

\* `was` is the Live record as the caller left it; a second stop returns at once.
TeardownBegin(d, was, desired, again) ==
  LET e == [was EXCEPT !.stopping = TRUE, !.stable = FALSE,
                       !.state = IF IsTerminal(@) THEN @ ELSE "STOPPING"]
  IN  /\ ~was.stopping
      /\ \/ /\ e.gateway # None
            /\ listening' = listening \ {e.gateway}
            /\ RecordStopping(d, e)
            /\ td' = [td EXCEPT ![d] = [pc |-> "close", inst |-> None,
                                        desired |-> desired, redeploy |-> again]]
            /\ UNCHANGED <<made, live, thr, killing, reserved, route, robbed>>
         \/ e.gateway = None /\ TeardownProcess(d, e, desired, again)

\* stop(), stopDeployment(), remove() and the daemon's shutdown ("running").
Stop(desired) ==
  /\ live # None
  /\ UNCHANGED <<owner, alive>>
  /\ TeardownBegin(live, dep[live], desired, FALSE)

\* restart() of anything else: tear it down, keep it wanted, deploy again.
RestartByRedeploy ==
  /\ live # None
  /\ dep[live].state \notin {"LIVE", "RESTARTING"}
  /\ UNCHANGED <<owner, alive>>
  /\ TeardownBegin(live, dep[live], "running", TRUE)

\* await ld.gateway.stop() is over.
TeardownClosed(d) ==
  /\ td[d].pc = "close"
  /\ UNCHANGED <<owner, alive>>
  /\ TeardownProcess(d, dep[d], td[d].desired, td[d].redeploy)

\* await ld.instance.stop() is over.
TeardownStopped(d) ==
  /\ td[d].pc = "stop"
  /\ Exited(td[d].inst)
  /\ UNCHANGED <<owner, alive>>
  /\ TeardownFinish(d, dep[d], td[d].desired, td[d].redeploy)

(***************************************************************************)
(* A process exits, by itself or because it was signalled, and onExit()    *)
(* runs in the same turn.                                                  *)
(***************************************************************************)
Restarts(clean) == RestartPolicy = "always" \/ (RestartPolicy = "on-failure" /\ ~clean)

\* Mutant: one attempt too many.
OneMoreAttempt(e) == e.attempts <= MaxRetries

BudgetLeft(e) == e.attempts < MaxRetries

Crashed(d, e, clean) ==
  LET e1 == Hosted(HeldOff(e), "restarting")
  IN  \/ /\ ~Restarts(clean) /\ clean
         /\ TeardownBegin(d, e1, "stopped", FALSE)
      \/ /\ Restarts(clean) => ~BudgetLeft(e)
         /\ ~Restarts(clean) => ~clean
         /\ FreeThreads # {}
         /\ FailBegin(FreshThread, d, e1)
         /\ UNCHANGED api
      \/ /\ Restarts(clean) /\ BudgetLeft(e)
         /\ FreeThreads # {}
         /\ Save(d, [e1 EXCEPT !.attempts = @ + 1, !.state = "RESTARTING"])
         /\ Begin(FreshThread, d, "backoff")
         /\ UNCHANGED <<api, killing, net>>

\* What a process was sent matters to nobody once it is gone.
Unsent(i) == killing' = [killing EXCEPT ![i] = "none"]

Exit(i) ==
  LET d == owner[i]
      e == dep[d]
      watched == e.instance = i /\ ~e.stopping /\ ~e.relaunching
  IN  /\ i \in alive
      /\ alive' = alive \ {i}
      /\ UNCHANGED owner
      /\ \/ /\ watched /\ e.state = "LIVE"
            /\ \E clean \in BOOLEAN : Crashed(d, e, clean)
         \/ /\ ~(watched /\ e.state = "LIVE")
            /\ Write(d, [e EXCEPT !.stable = @ /\ ~watched,
                                  !.missed = @ \/ (watched /\ e.state = "EXPOSING")])
            /\ Unsent(i)
            /\ UNCHANGED <<api, thr, net>>

\* The grace period of kill() is over with the process still there.
Escalate(i) ==
  /\ i \in alive /\ killing[i] = "SIGTERM"
  /\ killing' = [killing EXCEPT ![i] = "SIGKILL"]
  /\ UNCHANGED <<api, dep, row, thr, owner, alive, net>>

\* The backoff of a crash restart is over, or was aborted by a stop.
Backoff(t) ==
  LET d == thr[t].dep IN
  /\ At(t, "backoff")
  /\ UNCHANGED <<api, owner, alive>>
  /\ Launch(t, d, dep[d])

\* Sixty seconds of stability give the restart budget back.
StableTimer(d) ==
  /\ dep[d].stable
  /\ Write(d, [dep[d] EXCEPT !.attempts = 0, !.stable = FALSE])
  /\ UNCHANGED <<api, thr, owner, alive, killing, net>>

(***************************************************************************)
(* The specification                                                       *)
(***************************************************************************)
\* What a suspended run does when its await settles.
Step(t) ==
  \/ Detect(t) \/ Prepare(t) \/ Install(t) \/ Build(t) \/ AllocateAppPort(t)
  \/ Spawn(t) \/ HealthOk(t) \/ HealthStopped(t) \/ HealthGone(t) \/ HealthTimeout(t)
  \/ GiveUp(t) \/ AllocateSharePort(t) \/ Listen(t) \/ ListenBusy(t) \/ ListenFails(t)
  \/ Register(t) \/ GoLive(t) \/ RelaunchStopped(t) \/ Backoff(t)
  \/ FailStopped(t) \/ FailClosed(t)

\* An await that may also throw: detection, availability, steps, ports, spawn.
Fault(t) == \E pc \in {"detect", "prepare", "install", "build", "allocApp", "start", "allocShare"} :
              Throws(t, pc)

Request == Deploy \/ Restart \/ RestartByRedeploy \/ \E w \in {"running", "stopped"} : Stop(w)

Next ==
  \/ Request
  \/ \E t \in Thread : Step(t) \/ Fault(t)
  \/ \E d \in Deployment :
       TeardownClosed(d) \/ TeardownStopped(d) \/ Forget(d) \/ StableTimer(d)
  \/ \E i \in Instance : Escalate(i) \/ Exit(i)

\* Every await settles: probes, listens and steps have timeouts, and kill() gives
\* up after its two timers.  No process need ever exit, and no request come.
Fairness ==
  /\ \A t \in Thread : WF_vars(Step(t) \/ Fault(t))
  /\ \A d \in Deployment : WF_vars(TeardownClosed(d) \/ TeardownStopped(d))
  /\ \A i \in Instance : WF_vars(Escalate(i))

Spec == Init /\ [][Next]_vars /\ Fairness

(***************************************************************************)
(* Correctness                                                             *)
(***************************************************************************)
Busy(d) == \E t \in Thread : thr[t].dep = d /\ thr[t].pc # "idle"
Spawned == {"health", "giveUp", "allocShare", "listen", "probe", "lan"}
Failing(d) == \E t \in Thread : thr[t].dep = d /\ thr[t].pc \in {"failStop", "failClose"}

\* A project has at most one unfinished deployment, the one engine.live holds:
\* deploy() never starts a second pipeline over a running one, and neither a
\* teardown nor fail()'s timer drops a running deployment from engine.live.
OneDeploymentAtATime ==
  \A d \in 1..made : ~IsTerminal(dep[d].state) => live = d

\* Why it holds, inductively.  Async work, teardowns and processes belong to
\* deployments that exist; a stop and fail()'s timer leave a deployment stopping or
\* finished, so whoever clears engine.live clears it of a finished deployment; and
\* the row is finished only if the deployment is.
Consistent ==
  /\ live \in 0..made
  /\ \A t \in Thread :
       /\ thr[t].pc # "idle" => thr[t].dep \in 1..made
       /\ thr[t].pc \in Spawned => thr[t].inst \in Instance
  /\ \A i \in alive : owner[i] \in 1..made
  /\ \A d \in Deployment :
       /\ td[d].pc # "idle" => d \in 1..made /\ dep[d].stopping
       /\ dep[d].stopping => dep[d].state \in {"STOPPING", "STOPPED", "FAILED"}
       /\ dep[d].forget => IsTerminal(dep[d].state)
       /\ d > made => dep[d] = NewLive
       /\ row[d].state \in Terminal => IsTerminal(dep[d].state)
  /\ OneDeploymentAtATime

\* The processes of a deployment: a relaunch, a crash restart and a failed start
\* never leave an older process running beside the one engine.ts knows about, but
\* for one that has been sent SIGKILL and is not gone when kill() gives up on it.
OneProcessPerDeployment ==
  \A i \in alive \ Killed : i = dep[owner[i]].instance

\* The gateway forwards visitors only while the deployment is live (or about to
\* be closed by a stop), and then to the process of its record.  While it is live
\* that process runs, unless it exited while the gateway was opened, which nobody
\* looks at: then visitors are sent to a dead port until a restart or a stop.
ForwardsOnlyWhenServing ==
  \A d \in Deployment : dep[d].available =>
    /\ dep[d].state \in {"LIVE", "STOPPING"}
    /\ dep[d].target = dep[d].instance
    /\ dep[d].state = "LIVE" => dep[d].instance \in alive \/ dep[d].missed

\* A live deployment with a running process can be reached: its gateway listens
\* and forwards, the proxy routes to it and both its ports are reserved.  Excepted
\* is one robbed by an older deployment of the project: a fail(), a teardown or a
\* launch of that one which ends late releases, or takes, what is now this one's.
LiveIsReachable ==
  \A d \in Deployment \ robbed :
    dep[d].state = "LIVE" /\ dep[d].instance \in alive /\ ~Failing(d) =>
      /\ dep[d].gateway \in listening
      /\ dep[d].available
      /\ route = d
      /\ reserved = {"share", "app"}

\* Once a stop is requested nothing brings the deployment back: it only moves on
\* to STOPPED or FAILED, and its gateway is not opened to visitors again.
StopIsFinal ==
  [][\A d \in Deployment : dep[d].stopping =>
       /\ dep'[d].stopping
       /\ dep'[d].state \in {dep[d].state, "STOPPED", "FAILED"}
       /\ dep'[d].available => dep[d].available]_vars

\* STOPPED is entered only with the deployment's gateway let go and its processes
\* gone, or sent SIGKILL and given up on.  Excepted is a process that a launch
\* spawned while the teardown was waiting for an older one: launch() does not look
\* at ld.stopping before it spawns (nor does anybody end what it spawns later).
StopsAfterTheProcess ==
  [][\A d \in Deployment : dep[d].state # "STOPPED" /\ dep'[d].state = "STOPPED" =>
       /\ \A i \in alive' \ Killed' : owner'[i] = d => td[d].inst \notin {None, i}
       /\ dep'[d].gateway = None]_vars

\* A finished row stays as it is: history is not rewritten by a late fail().
FinishedRowsStay ==
  [][\A d \in Deployment :
       row[d].state \in Terminal => row'[d].state = row[d].state]_vars

\* Every deployment settles again and again: no launch, restart or teardown hangs,
\* not even on a process that never exits.
AlwaysSettles ==
  \A d \in Deployment : []<>(d > made \/ dep[d].state \in {"LIVE", "STOPPED", "FAILED"})

\* A requested stop ends, with the deployment finished and its teardown over,
\* whether or not its process ever exits.
StopCompletes ==
  \A d \in Deployment : dep[d].stopping ~> (IsTerminal(dep[d].state) /\ td[d].pc = "idle")
=============================================================================
