----------------------------- MODULE DaemonLife -----------------------------
(***************************************************************************)
(* One project across the lives of the daemon: what the user asked for,    *)
(* the deployment rows and saved request in the database                   *)
(* (services/daemon/src/store.ts), the live deployment (engine.ts), what   *)
(* restore() brings back when a daemon starts, what a shutdown or a        *)
(* kill -9 leaves behind (main.ts), and the lease by which a foreground    *)
(* `rynk` keeps its deployment (server.ts, packages/cli/src/run.ts).       *)
(*                                                                         *)
(* Inside one daemon a deployment is reduced to its phases; the module     *)
(* DeploymentEngine has the detail.  Statements on the database finish in  *)
(* the turn of the event loop that issues them; a kill -9 may fall between *)
(* any two.  Rows are numbered in the order of createdAt.  Other projects  *)
(* appear only as the time restore() takes between reading the rows and    *)
(* handling this project's.                                                *)
(***************************************************************************)
EXTENDS Integers

CONSTANTS
  MaxDeployments,   \* bound: deployments created
  MaxStarts,        \* bound: times the daemon is started
  Requests          \* when the user acts: "restoring" (API up, restore() not
                    \* over) and "up" (after it)

ASSUME LifeBounds ==
  /\ MaxDeployments \in Nat \ {0} /\ MaxStarts \in Nat \ {0}
  /\ Requests \subseteq {"restoring", "up"}

VARIABLES
  daemon,     \* the process: "down", "serving" or "closing" (shutdown() runs)
  starts,     \* times it has been started
  live,       \* the engine's entry of the project
  rows,       \* deployment rows by number
  setting,    \* `foreground` of the saved request
  created,    \* deployments created
  procs,      \* deployments whose application process runs
  cli,        \* the foreground `rynk` of each deployment
  attach,     \* deployments whose 20 s attach timer is armed
  grace,      \* deployments whose 1.5 s grace timer is armed
  restore,    \* restore(): where it is, and the row it has read
  wanted      \* what the user last got an answer to (no code has this)

vars == <<daemon, starts, live, rows, setting, created, procs, cli,
          attach, grace, restore, wanted>>

Id == 1..MaxDeployments

\* "active" stands for every state but STOPPED and FAILED
Row == [state : {"active", "STOPPED", "FAILED"},
        desired : {"running", "stopped"}, pid : BOOLEAN]

NotLive == [id |-> 0, fg |-> FALSE, phase |-> "none", desired |-> "stopped",
            again |-> FALSE]

\* desired and again count while stopping: what teardown() will store, and
\* whether its caller deploys anew afterwards
Live == [id : Id, fg : BOOLEAN,
         phase : {"new", "inserted", "prepared", "started", "LIVE", "stopping"},
         desired : {"running", "stopped"}, again : BOOLEAN]

NoRestore == [at |-> "done", row |-> 0, orphan |-> FALSE]

Init ==
  /\ daemon = "down" /\ starts = 0 /\ created = 0
  /\ live = NotLive
  /\ rows = [i \in {} |-> 0]
  /\ setting = FALSE
  /\ procs = {} /\ attach = {} /\ grace = {}
  /\ cli = [i \in Id |-> "none"]
  /\ restore = NoRestore
  /\ wanted = "unknown"

----------------------------------------------------------------------------
(* The engine's entry and its row.                                          *)

IsLive == live # NotLive
Stopping == live.phase = "stopping"
Serving == daemon # "down"

\* persisted: run() has inserted the row
Persisted == live.id \in DOMAIN rows

\* run() is between its two writes, in one turn: the daemon does nothing else
Writing == live.phase = "inserted"

IsLatest(i, S) == \A j \in S : j <= i

WithRow(i, r) == [j \in DOMAIN rows \cup {i} |-> IF j = i THEN r ELSE rows[j]]

\* a transition of the live deployment stores its new state
StoreActive ==
  IF Persisted THEN WithRow(live.id, [rows[live.id] EXCEPT !.state = "active"])
  ELSE rows

\* persist() does nothing for a deployment that has no row yet
StoreEnd(state, desired) ==
  IF Persisted
  THEN WithRow(live.id, [state |-> state, desired |-> desired, pid |-> FALSE])
  ELSE rows

Fresh(fg) == [id |-> created + 1, fg |-> fg, phase |-> "new",
              desired |-> "stopped", again |-> FALSE]

\* deploy(): an entry that has not ended is returned as it is
CanCreate == created < MaxDeployments
Create(fg) ==
  /\ CanCreate
  /\ live' = Fresh(fg)
  /\ created' = created + 1

\* teardown() up to its first await
StartTeardown(desired, again) ==
  /\ live' = [live EXCEPT !.phase = "stopping", !.desired = desired, !.again = again]
  /\ rows' = StoreActive

----------------------------------------------------------------------------
(* run(): once the project is resolved the row is inserted with desired    *)
(* "running", and then the request is saved; the process comes later.      *)

\* nothing outside the engine's entry, rows and processes changes
Outside == <<daemon, starts, cli, attach, grace, restore>>

Inserted == [state |-> "active", desired |-> "running", pid |-> FALSE]

InsertRow ==
  /\ live.phase = "new"
  /\ live' = [live EXCEPT !.phase = "inserted"]
  /\ rows' = WithRow(live.id, Inserted)
  /\ UNCHANGED <<setting, created, procs, wanted, Outside>>

\* only now a later daemon can know what the user has asked for
SaveRequest ==
  /\ live.phase = "inserted"
  /\ live' = [live EXCEPT !.phase = "prepared"]
  /\ setting' = live.fg
  /\ wanted' = IF live.fg \/ wanted = "stopped" THEN wanted ELSE "running"
  /\ UNCHANGED <<rows, created, procs, Outside>>

Launched == [state |-> "active", desired |-> rows[live.id].desired, pid |-> TRUE]

Spawn ==
  /\ live.phase = "prepared"
  /\ live' = [live EXCEPT !.phase = "started"]
  /\ procs' = procs \cup {live.id}
  /\ rows' = WithRow(live.id, Launched)
  /\ UNCHANGED <<setting, created, wanted, Outside>>

\* an exit while EXPOSING is not noticed: the process may be gone
GoLive ==
  /\ live.phase = "started"
  /\ live' = [live EXCEPT !.phase = "LIVE"]
  /\ rows' = StoreActive
  /\ UNCHANGED <<setting, created, procs, wanted, Outside>>

\* an application process, orphans included, ends by itself
ProcessExits(i) ==
  /\ i \in procs
  /\ procs' = procs \ {i}
  /\ UNCHANGED <<live, rows, setting, created, wanted, Outside>>

\* onExit() of a LIVE deployment: another process ...
Relaunch ==
  /\ live.phase = "LIVE" /\ live.id \notin procs
  /\ procs' = procs \cup {live.id}
  /\ rows' = WithRow(live.id, Launched)
  /\ UNCHANGED <<live, setting, created, wanted, Outside>>

\* ... or, after exit code 0 without restarts, the end of the deployment
AppFinished ==
  /\ live.phase = "LIVE" /\ live.id \notin procs
  /\ StartTeardown("stopped", FALSE)
  /\ wanted' = "unknown"
  /\ UNCHANGED <<setting, created, procs, Outside>>

\* fail(): its awaits run as one step here
Fail ==
  /\ \/ live.phase \in {"new", "inserted", "prepared", "started"}
     \/ live.phase = "LIVE" /\ live.id \notin procs
  /\ procs' = procs \ {live.id}
  /\ rows' = StoreEnd("FAILED", "stopped")
  /\ live' = NotLive
  /\ wanted' = "unknown"
  /\ UNCHANGED <<setting, created, Outside>>

\* teardown() after the process is stopped, and what its caller does next
EndTeardown ==
  /\ Stopping
  /\ procs' = procs \ {live.id}
  /\ rows' = StoreEnd("STOPPED", live.desired)
  /\ IF live.again THEN Create(FALSE) ELSE live' = NotLive /\ UNCHANGED created
  /\ wanted' = IF live.desired = "stopped" /\ wanted = "stopping" THEN "stopped"
               ELSE wanted
  /\ UNCHANGED <<setting, Outside>>

----------------------------------------------------------------------------
(* The user, by way of a CLI and the API.  A request that finds the entry  *)
(* stopping is answered without effect: deploy() returns the entry, and    *)
(* teardown() returns because another one is under way.                     *)

Asking ==
  /\ Serving /\ ~Writing
  /\ (IF restore.at = "done" THEN "up" ELSE "restoring") \in Requests

\* mutant: the attach timer is not armed
DeployUnwatched(fg) ==
  /\ Asking /\ ~IsLive
  /\ Create(fg)
  /\ wanted' = "unknown"
  /\ cli' = IF fg THEN [cli EXCEPT ![created + 1] = "connecting"] ELSE cli
  /\ UNCHANGED <<daemon, starts, rows, setting, procs, attach, grace, restore>>

\* `rynk start`, or `rynk`, whose CLI then opens the lease
Deploy(fg) ==
  /\ Asking /\ ~IsLive
  /\ Create(fg)
  /\ wanted' = "unknown"
  /\ cli' = IF fg THEN [cli EXCEPT ![created + 1] = "connecting"] ELSE cli
  /\ attach' = IF fg THEN attach \cup {created + 1} ELSE attach
  /\ UNCHANGED <<daemon, starts, rows, setting, procs, grace, restore>>

StopLive ==
  /\ Asking /\ IsLive /\ ~Stopping
  /\ StartTeardown("stopped", FALSE)
  /\ wanted' = "stopping"
  /\ UNCHANGED <<setting, created, procs, Outside>>

\* nothing is live: the latest row is marked
StopRow ==
  /\ Asking /\ ~IsLive
  /\ \E i \in DOMAIN rows :
       /\ IsLatest(i, DOMAIN rows)
       /\ rows' = WithRow(i, [rows[i] EXCEPT !.desired = "stopped"])
  /\ wanted' = "stopped"
  /\ UNCHANGED <<live, setting, created, procs, Outside>>

\* `rynk redeploy`, and `rynk restart` of what is not LIVE (a restart of a
\* LIVE deployment is in place and changes nothing kept here)
RedeployLive ==
  /\ Asking /\ IsLive /\ ~Stopping
  /\ CanCreate
  /\ StartTeardown("running", TRUE)
  /\ wanted' = "unknown"
  /\ UNCHANGED <<setting, created, procs, Outside>>

----------------------------------------------------------------------------
(* Foreground: the CLI holds a lease on its deployment, the events socket. *)

Attach(i) ==
  /\ Serving /\ ~Writing /\ cli[i] = "connecting"
  /\ cli' = [cli EXCEPT ![i] = "attached"]
  /\ grace' = grace \ {i}
  /\ UNCHANGED <<daemon, starts, live, rows, setting, created, procs, attach, restore, wanted>>

\* the terminal is closed, or Ctrl+C (after StopLive) ends the CLI
Leave(i) ==
  /\ cli[i] \in {"connecting", "attached"}
  /\ cli' = [cli EXCEPT ![i] = "gone"]
  /\ grace' = IF cli[i] = "attached" THEN grace \cup {i} ELSE grace
  /\ UNCHANGED <<daemon, starts, live, rows, setting, created, procs, attach, restore, wanted>>

\* stopDeployment(), called by the timers
StopDeployment(i) ==
  IF live.id = i /\ ~Stopping THEN StartTeardown("stopped", FALSE)
  ELSE UNCHANGED <<live, rows>>

Leased(i) == cli[i] = "attached"

AttachTimer(i) ==
  /\ i \in attach /\ ~Writing
  /\ attach' = attach \ {i}
  /\ IF Leased(i) THEN UNCHANGED <<live, rows>> ELSE StopDeployment(i)
  /\ UNCHANGED <<daemon, starts, setting, created, procs, cli, grace, restore, wanted>>

GraceTimer(i) ==
  /\ i \in grace /\ ~Writing
  /\ grace' = grace \ {i}
  /\ IF Leased(i) THEN UNCHANGED <<live, rows>> ELSE StopDeployment(i)
  /\ UNCHANGED <<daemon, starts, setting, created, procs, cli, attach, restore, wanted>>

----------------------------------------------------------------------------
(* The daemon process.                                                      *)

\* startDaemon() up to engine.restore(): the API is listening before it
StartDaemon ==
  /\ daemon = "down" /\ starts < MaxStarts
  /\ daemon' = "serving"
  /\ starts' = starts + 1
  /\ restore' = [NoRestore EXCEPT !.at = "due"]
  /\ UNCHANGED <<live, rows, setting, created, procs, cli, attach, grace, wanted>>

\* mutant: a shutdown stores its teardowns like a stop
ShutdownStops ==
  /\ daemon = "serving" /\ ~Writing
  /\ daemon' = "closing"
  /\ IF IsLive /\ ~Stopping THEN StartTeardown("stopped", FALSE)
     ELSE UNCHANGED <<live, rows>>
  /\ UNCHANGED <<starts, setting, created, procs, cli, attach, grace, restore, wanted>>

\* engine.shutdown(): the live deployment is torn down, still desired
Shutdown ==
  /\ daemon = "serving" /\ ~Writing
  /\ daemon' = "closing"
  /\ IF IsLive /\ ~Stopping THEN StartTeardown("running", FALSE)
     ELSE UNCHANGED <<live, rows>>
  /\ UNCHANGED <<starts, setting, created, procs, cli, attach, grace, restore, wanted>>

\* memory is lost, and every CLI loses its connection and ends
Gone ==
  /\ daemon' = "down"
  /\ live' = NotLive
  /\ attach' = {} /\ grace' = {}
  /\ restore' = NoRestore
  /\ cli' = [i \in Id |-> IF cli[i] = "none" THEN "none" ELSE "gone"]
  /\ UNCHANGED <<starts, rows, setting, created, wanted>>

\* process.exit(), after the teardowns or 15 s: the exit hook kills children
Exit ==
  /\ daemon = "closing" /\ ~Writing
  /\ Gone
  /\ procs' = procs \ {live.id}

\* kill -9 at any point, between two writes too: children run on
Killed ==
  /\ Serving
  /\ Gone
  /\ UNCHANGED procs

----------------------------------------------------------------------------
(* restore()                                                                *)

\* desiredRunning(): the latest row that is desired, unless it has failed
Desired == {i \in DOMAIN rows : rows[i].desired = "running"}
Restorable == {i \in Desired : IsLatest(i, Desired) /\ rows[i].state # "FAILED"}

ReadRows ==
  /\ Serving /\ ~Writing /\ restore.at = "due"
  /\ \/ Restorable = {} /\ restore' = NoRestore
     \/ \E i \in Restorable :
          restore' = [at |-> "read", row |-> i,
                      orphan |-> rows[i].pid /\ rows[i].state # "STOPPED"]
  /\ UNCHANGED <<daemon, starts, live, rows, setting, created, procs, cli, attach, grace, wanted>>

\* a foreground request is not restored: its row is retired
Retire ==
  /\ restore.at = "read" /\ setting /\ ~Writing
  /\ rows' = WithRow(restore.row, [rows[restore.row] EXCEPT !.state = "STOPPED", !.desired = "stopped"])
  /\ restore' = NoRestore
  /\ UNCHANGED <<daemon, starts, live, setting, created, procs, cli, attach, grace, wanted>>

\* mutant: the old row is no longer desired once its project is restored
RestoredRetired ==
  /\ rows' = WithRow(restore.row, [rows[restore.row] EXCEPT !.state = "STOPPED", !.desired = "stopped"])
  /\ restore' = NoRestore
  /\ IF IsLive THEN UNCHANGED <<live, created>> ELSE Create(FALSE)
  /\ UNCHANGED <<daemon, starts, setting, cli, attach, grace, wanted>>

\* the old row is marked STOPPED and the saved request deployed
Restored ==
  /\ rows' = WithRow(restore.row, [rows[restore.row] EXCEPT !.state = "STOPPED"])
  /\ restore' = NoRestore
  /\ IF IsLive THEN UNCHANGED <<live, created>> ELSE Create(FALSE)
  /\ UNCHANGED <<daemon, starts, setting, cli, attach, grace, wanted>>

RestoreNow ==
  /\ restore.at = "read" /\ ~setting /\ ~restore.orphan /\ ~Writing
  /\ Restored
  /\ UNCHANGED procs

\* verifyProcess() and killTree(), which take 1.5 s
Reap ==
  /\ restore.at = "read" /\ ~setting /\ restore.orphan /\ ~Writing
  /\ restore' = [restore EXCEPT !.at = "reaping"]
  /\ UNCHANGED <<daemon, starts, live, rows, setting, created, procs, cli, attach, grace, wanted>>

RestoreAfterReaping ==
  /\ restore.at = "reaping" /\ ~Writing
  /\ procs' = procs \ {restore.row}
  /\ Restored

----------------------------------------------------------------------------

Run == InsertRow \/ SaveRequest \/ Spawn \/ GoLive \/ Relaunch \/ AppFinished \/ Fail \/ EndTeardown
User == Deploy(TRUE) \/ Deploy(FALSE) \/ StopLive \/ StopRow \/ RedeployLive
Foreground == \E i \in Id : Attach(i) \/ Leave(i) \/ AttachTimer(i) \/ GraceTimer(i)
Process == StartDaemon \/ Shutdown \/ Exit \/ Killed \/ \E i \in Id : ProcessExits(i)
Restore == ReadRows \/ Retire \/ RestoreNow \/ Reap \/ RestoreAfterReaping

Next == Run \/ User \/ Foreground \/ Process \/ Restore

\* a turn goes on to its end, timers go off, and a teardown ends: kill() waits
\* for a bounded time
Fairness ==
  /\ WF_vars(SaveRequest)
  /\ WF_vars(EndTeardown)
  /\ \A i \in Id : WF_vars(AttachTimer(i)) /\ WF_vars(GraceTimer(i))

Spec == Init /\ [][Next]_vars /\ Fairness

----------------------------------------------------------------------------
(* Properties                                                               *)

TypeOK ==
  /\ daemon \in {"down", "serving", "closing"}
  /\ starts \in 0..MaxStarts /\ created \in 0..MaxDeployments
  /\ live \in Live \cup {NotLive}
  /\ DOMAIN rows \subseteq Id /\ \A i \in DOMAIN rows : rows[i] \in Row
  /\ setting \in BOOLEAN
  /\ procs \subseteq Id /\ attach \subseteq Id /\ grace \subseteq Id
  /\ cli \in [Id -> {"none", "connecting", "attached", "gone"}]
  /\ restore \in [at : {"done", "due", "read", "reaping"}, row : Id \cup {0}, orphan : BOOLEAN]
  /\ wanted \in {"unknown", "running", "stopping", "stopped"}

\* What a daemon runs in the background is what the next one would restore:
\* from the moment its request is saved until it is torn down, the row of a
\* background deployment is desired "running", no later row shadows it in
\* desiredRunning(), and the request it is judged by is not a foreground one,
\* whatever restore() and other requests wrote in between.
LiveIsDesired ==
  IsLive /\ ~live.fg /\ ~Stopping /\ ~Writing /\ Persisted
    => live.id \in Restorable /\ ~setting

\* Once restore() is over, an application the user had running in the
\* background is live again, through every mix of restarts, kills during a
\* start or a restore, and earlier foreground runs.  The wish counts from the
\* moment the request is saved: after a kill -9 between the row and the request
\* (or before the row) the application is lost, or judged by an older request.
WantedIsLive ==
  daemon = "serving" /\ restore.at = "done" /\ wanted = "running" => IsLive

\* Closing the terminal ends a foreground deployment, also when the CLI dies
\* before it has opened its lease.
ForegroundEnds ==
  \A i \in Id : live.id = i /\ live.fg /\ cli[i] = "gone" ~> live.id # i

\* An application the user has stopped is not started by a later daemon.
\* store.ts: "Deployments the user wants running -- restored after a daemon
\* restart."
StoppedStaysStopped == Serving /\ wanted = "stopped" => ~IsLive

=============================================================================
