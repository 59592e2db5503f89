--------------------------- MODULE HealthMonitor ---------------------------
(***************************************************************************)
(* The health of one deployment: waitForHealthy() and HealthMonitor of     *)
(* packages/health/src/index.ts, and what the engine makes of them.  Each  *)
(* launch() that goes LIVE makes a monitor of its own; the monitor is      *)
(* stopped by a restart, a crash, a stop and a failure.  Whatever is       *)
(* awaited goes on while the deployment is being ended: a probe, whose     *)
(* answer is up to the application, launch(), suspended at one of its      *)
(* awaits (`at`), teardown(), and fail(), several of which may overlap.    *)
(* There is one launch() at a time: only a deployment that is live, whose  *)
(* launch is over, begins another.  A check of type none has no monitor.   *)
(***************************************************************************)
EXTENDS Naturals, Sequences

CONSTANTS
  FailureThreshold,  \* consecutive failures that make UNHEALTHY (3)
  SuccessThreshold,  \* consecutive successes that make HEALTHY again (2)
  MaxLaunches,       \* bound: launches of the deployment
  MaxFails           \* bound: runs of fail() under way at once

ASSUME HealthBounds ==
  /\ FailureThreshold \in Nat \ {0} /\ SuccessThreshold \in Nat \ {0}
  /\ MaxLaunches \in Nat \ {0} /\ MaxFails \in Nat

Launch == 1..MaxLaunches
Status == {"UNKNOWN", "STARTING", "HEALTHY", "DEGRADED", "UNHEALTHY", "CRASHED", "STOPPED"}
Window == IF FailureThreshold > SuccessThreshold THEN FailureThreshold ELSE SuccessThreshold

VARIABLES
  state,     \* of the deployment: "starting", "live", "restarting", "stopping", "over"
  at,        \* the await launch() is suspended at
  up,        \* the process of the launch runs, and onExit() would look at its exit
  stopping,  \* ld.stopping
  tearing,   \* teardown() is under way
  fails,     \* how many runs of fail() are
  launch,    \* the launch that is current
  health,    \* ld.health, as stored and as clients see it
  hosting,   \* the status of the hosting session
  watch,     \* ld.monitor: the launch whose monitor it is (0: none yet)
  monitor,   \* the monitor of each launch
  results,   \* history: the results each monitor recorded last, back to one that differs
  late       \* history: what was done for a deployment that no longer wanted it

engine == <<state, at, up, stopping, tearing, fails, launch, watch>>
vars == <<engine, health, hosting, monitor, results, late>>

\* Nowhere; in relaunch() or onExit(), for the old process or the delay; in launch(): for
\* the spawn, in waitForHealthy(), in adopt(), in expose() before and after the session.
Await == {"none", "delay", "spawn", "health", "adopt", "expose", "check"}

\* A monitor that was stopped told a health (until launch() or the end tells another), a
\* launch went live during a failure, and told HEALTHY or opened a session after the stop.
Late == {"report", "monitor", "health", "session"}

\* setTimeout() armed, the tick awaiting its probe, or neither.
Loop == {"off", "armed", "probing"}

\* A monitor is created HEALTHY: its launch has just passed a probe.
Created == [status |-> "HEALTHY", failures |-> 0, successes |-> 0, loop |-> "off",
            warming |-> TRUE, stopped |-> FALSE]

Init ==
  /\ state = "starting" /\ at = "spawn" /\ up = FALSE
  /\ stopping = FALSE /\ tearing = FALSE /\ fails = 0
  /\ launch = 1 /\ watch = 0
  /\ health = "UNKNOWN" /\ hosting = "none"
  /\ monitor = [l \in Launch |-> Created]
  /\ results = [l \in Launch |-> <<>>]
  /\ late = {}

-----------------------------------------------------------------------------

\* Which statuses a hosting session shows.
Shown == [s \in {"HEALTHY", "DEGRADED", "UNHEALTHY", "CRASHED"} |->
            CASE s = "HEALTHY"   -> "live"
              [] s = "DEGRADED"  -> "degraded"
              [] s = "UNHEALTHY" -> "unhealthy"
              [] s = "CRASHED"   -> "restarting"]

\* setHealth(): an unchanged health tells nobody anything.
SetHealth(to) ==
  /\ health' = to
  /\ hosting' = IF to # health /\ hosting # "none" /\ state = "live" /\ to \in DOMAIN Shown
                THEN Shown[to] ELSE hosting

\* stop() clears a timer; it does not know of a probe that is under way.
Halted(m) == [m EXCEPT !.stopped = TRUE, !.loop = IF m.loop = "armed" THEN "off" ELSE m.loop]

\* ld.monitor?.stop()
StopMonitor == monitor' = [l \in Launch |-> IF l = watch THEN Halted(monitor[l]) ELSE monitor[l]]

\* Mutant of Recorded: a success forgets to clear the failures.
RecordedForgetting(m, ok) ==
  IF ok
  THEN LET n == m.successes + 1
       IN [m EXCEPT !.successes = n,
                    !.status = IF m.status = "HEALTHY" \/ n >= SuccessThreshold
                               THEN "HEALTHY" ELSE m.status]
  ELSE IF m.warming THEN [m EXCEPT !.successes = 0]
  ELSE [m EXCEPT !.successes = 0, !.failures = @ + 1,
                 !.status = IF m.failures + 1 >= FailureThreshold THEN "UNHEALTHY" ELSE "DEGRADED"]

\* record(): a success clears the failures, a failure the successes; failures of the
\* grace period are not counted.
Recorded(m, ok) ==
  IF ok
  THEN LET n == m.successes + 1
       IN [m EXCEPT !.failures = 0, !.successes = n,
                    !.status = IF \/ m.status \in {"HEALTHY", "UNKNOWN", "STARTING"}
                                  \/ n >= SuccessThreshold
                               THEN "HEALTHY" ELSE m.status]
  ELSE IF m.warming THEN [m EXCEPT !.successes = 0]
  ELSE LET n == m.failures + 1
       IN [m EXCEPT !.successes = 0, !.failures = n,
                    !.status = IF n >= FailureThreshold THEN "UNHEALTHY" ELSE "DEGRADED"]

\* Counters are compared with thresholds only.
Capped(m) == [m EXCEPT !.failures = IF m.failures > Window THEN Window ELSE @,
                       !.successes = IF m.successes > Window THEN Window ELSE @]

Alike(s, x) == IF s # <<>> /\ s[Len(s)] = x THEN s ELSE <<>>
LastOf(s, n) == SubSeq(s, IF Len(s) > n THEN Len(s) - n + 1 ELSE 1, Len(s))
Streak(s, x) == LastOf(Append(Alike(s, x), x), Window)

-----------------------------------------------------------------------------

\* The start of fail(), which returns at once when a stop was asked for.
Fails ==
  \/ stopping /\ UNCHANGED <<fails, monitor>>
  \/ ~stopping /\ fails < MaxFails /\ fails' = fails + 1 /\ StopMonitor

\* launch() throws, or is refused its next state by transition().
Thrown == at' = "none" /\ Fails /\ UNCHANGED <<state, up, stopping, tearing, launch, watch>>

\* transition() lets a launch go on unless the deployment is stopped or has failed.
MayGoOn == state = "starting" /\ ~stopping

\* The old process is gone, or the delay over: STARTING, unless a stop or failure came.
Relaunch ==
  /\ at = "delay"
  /\ \/ /\ state = "restarting" /\ launch < MaxLaunches
        /\ state' = "starting" /\ at' = "spawn" /\ launch' = launch + 1
        /\ UNCHANGED <<up, stopping, tearing, fails, watch, monitor>>
     \/ state # "restarting" /\ Thrown
  /\ UNCHANGED <<health, hosting, results, late>>

Spawn ==
  /\ at = "spawn"
  /\ \/ /\ MayGoOn
        /\ at' = "health" /\ up' = TRUE
        /\ SetHealth("STARTING")
        /\ UNCHANGED <<state, stopping, tearing, fails, launch, watch, monitor>>
     \/ ~MayGoOn /\ Thrown /\ UNCHANGED <<health, hosting>>
  /\ UNCHANGED <<results, late>>

\* The process was not to be had, exited or did not answer in time; no port was free.
LaunchFails ==
  /\ at \in {"spawn", "health", "expose"}
  /\ Thrown
  /\ UNCHANGED <<health, hosting, results, late>>

\* The application answered on a port of its own, which adopt() waits for the allocator for.
Adopt ==
  /\ at = "health" /\ ~stopping
  /\ at' = "adopt"
  /\ UNCHANGED <<state, up, stopping, tearing, fails, launch, watch,
                 health, hosting, monitor, results, late>>

\* HEALTHY is set before transition() looks at what has happened: after adopt(), a stop may
\* be over by then.
StartedHealthy ==
  /\ at = "adopt" \/ (at = "health" /\ ~stopping)
  /\ \/ /\ MayGoOn /\ at' = "expose"
        /\ UNCHANGED <<state, up, stopping, tearing, fails, launch, watch, monitor>>
     \/ ~MayGoOn /\ Thrown
  /\ SetHealth("HEALTHY")
  /\ late' = (late \ {"report"}) \cup (IF stopping /\ ~tearing THEN {"health"} ELSE {})
  /\ UNCHANGED results

\* waitForHealthy() was aborted: `if (ld.stopping) return`.
StartStopped ==
  /\ at = "health" /\ stopping
  /\ at' = "none"
  /\ UNCHANGED <<state, up, stopping, tearing, fails, launch, watch,
                 health, hosting, monitor, results, late>>

\* expose(): the first one of the deployment creates the hosting session, stopped or not.
OpenSession ==
  /\ at = "expose" /\ at' = "check"
  /\ hosting' = IF hosting = "none" THEN "starting" ELSE hosting
  /\ late' = late \cup (IF hosting = "none" /\ stopping /\ ~tearing THEN {"session"} ELSE {})
  /\ UNCHANGED <<state, up, stopping, tearing, fails, launch, watch, health, monitor, results>>

\* The end of launch(): LIVE, and a monitor that starts.  What is awaited in between is
\* the database, which answers before any timer or request is served.
GoLive ==
  /\ at = "check"
  /\ \/ /\ MayGoOn
        /\ state' = "live" /\ at' = "none" /\ hosting' = "live" /\ watch' = launch
        /\ monitor' = [monitor EXCEPT ![launch] = [Created EXCEPT !.loop = "armed"]]
        /\ late' = late \cup (IF fails > 0 THEN {"monitor"} ELSE {})
        /\ UNCHANGED <<up, stopping, tearing, fails, launch>>
     \/ ~MayGoOn /\ Thrown /\ UNCHANGED <<hosting, late>>
  /\ UNCHANGED <<health, results>>

\* The timer fires: tick() begins a probe.
Tick(l) ==
  /\ monitor[l].loop = "armed"
  /\ monitor' = [monitor EXCEPT ![l].loop = "probing"]
  /\ UNCHANGED <<engine, health, hosting, results, late>>

\* onChange(): nobody asks whether the monitor was stopped.
Report(l, to) ==
  /\ SetHealth(to)
  /\ late' = late \cup (IF monitor[l].stopped /\ to # health THEN {"report"} ELSE {})

\* Mutant of Probed: the timer is armed again after a success only.
ProbedOnce(l, ok) ==
  /\ monitor[l].loop = "probing"
  /\ LET m == Capped(Recorded(monitor[l], ok))
     IN /\ monitor' = [monitor EXCEPT ![l] = [m EXCEPT !.loop = IF ok \/ m.stopped THEN "armed" ELSE "off"]]
        /\ IF m.status # monitor[l].status THEN Report(l, m.status)
           ELSE UNCHANGED <<health, hosting, late>>
  /\ results' = [results EXCEPT ![l] =
                   Streak(@, IF ok THEN "ok" ELSE IF monitor[l].warming THEN "warm" ELSE "bad")]
  /\ UNCHANGED engine

\* The probe ends: record() may change the status and report it, and tick() arms the timer.
Probed(l, ok) ==
  /\ monitor[l].loop = "probing"
  /\ LET m == Capped(Recorded(monitor[l], ok))
     IN /\ monitor' = [monitor EXCEPT ![l] = [m EXCEPT !.loop = "armed"]]
        /\ IF m.status # monitor[l].status THEN Report(l, m.status)
           ELSE UNCHANGED <<health, hosting, late>>
  /\ results' = [results EXCEPT ![l] =
                   Streak(@, IF ok THEN "ok" ELSE IF monitor[l].warming THEN "warm" ELSE "bad")]
  /\ UNCHANGED engine

GraceEnds(l) ==
  /\ monitor[l].warming /\ monitor[l].loop # "off"
  /\ monitor' = [monitor EXCEPT ![l].warming = FALSE]
  /\ UNCHANGED <<engine, health, hosting, results, late>>

\* Mutant of Restart: the monitor of the launch that ends is left running.
RestartWatched ==
  /\ state = "live"
  /\ state' = "restarting" /\ at' = "delay" /\ up' = FALSE /\ hosting' = "restarting"
  /\ UNCHANGED <<stopping, tearing, fails, launch, watch, health, monitor, results, late>>

\* relaunch(): asked for by the user.
Restart ==
  /\ state = "live"
  /\ state' = "restarting" /\ at' = "delay" /\ up' = FALSE /\ hosting' = "restarting"
  /\ StopMonitor
  /\ UNCHANGED <<stopping, tearing, fails, launch, watch, health, results, late>>

\* Asked for during a restart: transition() refuses it, and it fails the deployment.
RestartAgain ==
  /\ state = "restarting" /\ Fails
  /\ UNCHANGED <<state, at, up, stopping, tearing, launch, watch, health, hosting, results, late>>

\* The start of teardown(), of which there is one.
TearDown ==
  /\ ~stopping /\ stopping' = TRUE /\ tearing' = TRUE /\ up' = FALSE
  /\ state' = IF state = "over" THEN "over" ELSE "stopping"
  /\ StopMonitor

Stop ==
  /\ TearDown
  /\ UNCHANGED <<at, fails, launch, watch, health, hosting, results, late>>

\* onExit() of a live deployment: it is restarted after a delay, torn down, or fails, which
\* leaves it LIVE until fail() is done.
Crash ==
  /\ state = "live" /\ up /\ up' = FALSE
  /\ SetHealth("CRASHED")
  /\ \/ state' = "restarting" /\ at' = "delay" /\ StopMonitor /\ UNCHANGED <<stopping, tearing, fails>>
     \/ TearDown /\ UNCHANGED <<at, fails>>
     \/ Fails /\ UNCHANGED <<state, at, stopping, tearing>>
  /\ UNCHANGED <<launch, watch, results, late>>

\* onExit() of one that is not live: launch() or fail() sees to it.
Exit ==
  /\ state # "live" /\ up /\ up' = FALSE
  /\ StopMonitor
  /\ UNCHANGED <<state, at, stopping, tearing, fails, launch, watch, health, hosting, results, late>>

\* Either of them is over: STOPPED, and the session with its own status.
Ended(status) ==
  /\ state' = "over" /\ health' = "STOPPED"
  /\ hosting' = IF hosting = "none" THEN "none" ELSE status
  /\ late' = late \ {"report"}
  /\ UNCHANGED <<at, up, stopping, launch, watch, monitor, results>>

FailEnds == fails > 0 /\ fails' = fails - 1 /\ Ended("failed") /\ UNCHANGED tearing

StopEnds == tearing /\ tearing' = FALSE /\ Ended("stopped") /\ UNCHANGED fails

\* What launch() does when its await settles.
Launching ==
  \/ Relaunch \/ Spawn \/ LaunchFails \/ Adopt \/ StartedHealthy \/ StartStopped
  \/ OpenSession \/ GoLive

Next ==
  \/ Launching \/ Restart \/ RestartAgain \/ Stop \/ Crash \/ Exit \/ FailEnds \/ StopEnds
  \/ \E l \in Launch : Tick(l) \/ GraceEnds(l)
  \/ \E l \in Launch, ok \in BOOLEAN : Probed(l, ok)

\* Timers fire, probes have a time limit, and what fail() awaits has one too.
Spec == Init /\ [][Next]_vars
             /\ WF_vars(FailEnds)
             /\ \A l \in Launch : WF_vars(Tick(l) \/ \E ok \in BOOLEAN : Probed(l, ok))

-----------------------------------------------------------------------------

MonitorRecord ==
  [status : Status, failures : 0..Window, successes : 0..Window, loop : Loop,
   warming : BOOLEAN, stopped : BOOLEAN]

TypeOK ==
  /\ state \in {"starting", "live", "restarting", "stopping", "over"}
  /\ at \in Await /\ up \in BOOLEAN /\ stopping \in BOOLEAN /\ tearing \in BOOLEAN
  /\ fails \in 0..MaxFails
  /\ launch \in Launch /\ watch \in 0..MaxLaunches
  /\ health \in Status
  /\ hosting \in {"none", "starting", "live", "degraded", "unhealthy", "restarting", "stopped", "failed"}
  /\ monitor \in [Launch -> MonitorRecord]
  /\ late \subseteq Late

AllLast(l, n, r) ==
  Len(results[l]) >= n /\ \A i \in 1..n : results[l][Len(results[l]) - i + 1] = r

\* The hysteresis promised at 108-114, against the results themselves and not the code's
\* counters: only FailureThreshold counted failures in a row make an application
\* UNHEALTHY, and only SuccessThreshold answers in a row make one with a problem HEALTHY.
HysteresisKept ==
  [][\A l \in Launch :
       LET from == monitor[l].status
           to == monitor'[l].status
       IN /\ to = "UNHEALTHY" /\ from # to => AllLast(l, FailureThreshold, "bad")'
          /\ from \in {"DEGRADED", "UNHEALTHY"} /\ to = "HEALTHY" =>
               AllLast(l, SuccessThreshold, "ok")']_vars

\* What clients see of a live deployment that is not failing, its health and its hosting
\* session, is what the monitor of its launch found last, and one that is over, with no
\* end of it under way, is STOPPED to them.  Excepted is what came late: the report of a
\* monitor that was stopped while it awaited a probe, the monitor of a launch that went
\* live during a failure, which nobody stops, and the HEALTHY or the session of a launch
\* that was in adopt() or expose() when its stop was over.
HealthIsReported ==
  /\ state = "live" /\ fails = 0 /\ "report" \notin late =>
       health = monitor[launch].status /\ hosting = Shown[health]
  /\ state = "over" /\ ~tearing /\ fails = 0 =>
       /\ late \cap {"report", "monitor", "health"} = {} => health = "STOPPED"
       /\ "session" \notin late => hosting \in {"none", "stopped", "failed"}

\* A live application is probed for as long as it is live, whatever has happened before.
LiveIsProbed == state = "live" ~> (monitor[launch].loop = "probing" \/ state # "live")
=============================================================================
