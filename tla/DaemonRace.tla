----------------------------- MODULE DaemonRace -----------------------------
(***************************************************************************)
(* Which process is the daemon: packages/cli/src/daemon-control.ts, whose  *)
(* commands look for a daemon, replace it, stop it or spawn one, and the   *)
(* start and the end of services/daemon/src/main.ts, which agree on one    *)
(* daemon by daemon.json and the API's port.  Any number of commands and   *)
(* of daemons run at once, and each process may be killed at any step.     *)
(*                                                                         *)
(* A step runs from one await that does real I/O to the next.  A daemon    *)
(* that has bound its port writes daemon.json before it answers anybody.   *)
(* Process ids are not used twice while daemon.json names them.            *)
(***************************************************************************)
CONSTANTS
  Daemon,     \* daemon processes that may ever be spawned (the bound)
  Cli,        \* commands that run at the same time
  None

ASSUME RaceSets == None \notin Daemon

VARIABLES
  phase,      \* where each daemon process has come to
  file,       \* daemon.json: the daemon it names, or None
  port,       \* the daemon the API's port belongs to, or None
  hosts,      \* daemons with applications they run
  late,       \* daemons with applications begun during their shutdown
  sessions,   \* daemons with open rows in hosting_sessions
  cli,        \* the commands
  unaware,    \* history: daemons that start and whose check missed a daemon that is up
  clobbered   \* history: a daemon.json was removed by a daemon it does not name

vars == <<phase, file, port, hosts, late, sessions, cli, unaware, clobbered>>
disk == <<file, clobbered>>
apps == <<hosts, late, sessions>>
rest == <<cli, unaware, disk>>

Maybe == Daemon \cup {None}
Phase == {"unborn", "new", "asking", "opening", "setup", "up", "draining", "closing",
          "removing", "gone"}
Task == {"ensure", "start", "stop", "restart"}
Command ==
  [pc : {"idle", "connect", "info", "shutdown", "exit", "poll", "failed", "expired"},
   task : Task,
   seen : Maybe, before : Maybe, child : Maybe]

TypeOK ==
  /\ phase \in [Daemon -> Phase]
  /\ file \in Maybe /\ port \in Maybe
  /\ hosts \subseteq Daemon /\ late \subseteq Daemon /\ sessions \subseteq Daemon
  /\ cli \in [Cli -> Command]
  /\ unaware \subseteq Daemon /\ clobbered \in BOOLEAN

Alive(d) == phase[d] \notin {"unborn", "gone"}
Serving == {"up", "draining"}

Idle == [pc |-> "idle", task |-> "stop", seen |-> None, before |-> None, child |-> None]

Init ==
  /\ phase = [d \in Daemon |-> "unborn"]
  /\ file = None /\ port = None
  /\ hosts = {} /\ late = {} /\ sessions = {}
  /\ cli = [c \in Cli |-> Idle]
  /\ unaware = {} /\ clobbered = FALSE

(***************************************************************************)
(* The daemon, main.ts                                                     *)
(***************************************************************************)
Goto(d, p) == phase' = [phase EXCEPT ![d] = p]

\* The process ends: its port is free, and what it runs ends with it (by the exit
\* hook; after a kill -9 by the next daemon, see DaemonLife).
End(d) ==
  /\ Goto(d, "gone")
  /\ port' = IF port = d THEN None ELSE port
  /\ hosts' = hosts \ {d} /\ late' = late \ {d}
  /\ unaware' = unaware \ {d}
  /\ UNCHANGED <<sessions, cli>>

\* What a request to the API's port meets: whoever listens there answers
\* /api/health, without a token; a busy daemon may be too slow (2 s).
Answer == {port # None, FALSE}

\* daemon.json names a living process.
Named(d) == file # None /\ file # d /\ Alive(file)

\* Mutant: the rows are ended before the check.
BootEndsRows(d) ==
  /\ phase[d] = "new"
  /\ Goto(d, IF Named(d) THEN "asking" ELSE "opening") /\ sessions' = {}
  /\ UNCHANGED <<port, hosts, late, rest>>

\* daemon.json is read; if it names a living process, that one is asked.
Boot(d) ==
  /\ phase[d] = "new"
  /\ Goto(d, IF Named(d) THEN "asking" ELSE "opening")
  /\ UNCHANGED <<port, apps, rest>>

Asked(d) ==
  /\ phase[d] = "asking"
  /\ \E healthy \in Answer :
       \/ healthy /\ End(d) /\ UNCHANGED disk
       \/ /\ ~healthy /\ Goto(d, "opening")
          /\ unaware' = IF port = None THEN unaware ELSE unaware \cup {d}
          /\ UNCHANGED <<port, apps, cli, disk>>

\* No daemon was found.  The database is opened and migrated, for which it may wait 5 s;
\* then the rows that a crashed daemon has left open are ended, whoever is up by now.
EndOrphans(d) ==
  /\ phase[d] = "opening" /\ Goto(d, "setup")
  /\ sessions' = {} /\ unaware' = unaware \ {d}
  /\ UNCHANGED <<port, hosts, late, cli, disk>>

\* Mutant: daemon.json is written before the port is bound.
ListenAfterWriting(d) ==
  /\ phase[d] = "setup"
  /\ file' = d /\ UNCHANGED clobbered
  /\ \/ /\ port = None
        /\ port' = d /\ Goto(d, "up")
        /\ UNCHANGED <<apps, cli, unaware>>
     \/ /\ port # None
        /\ End(d)

\* listen(), and then daemon.json; who cannot listen leaves it alone and exits.  A daemon
\* that has read the file by now does not know of this one.
Listen(d) ==
  /\ phase[d] = "setup"
  /\ \/ /\ port = None
        /\ port' = d /\ file' = d
        /\ Goto(d, "up")
        /\ unaware' = unaware \cup {e \in Daemon : phase[e] = "opening"}
        /\ UNCHANGED <<apps, cli, clobbered>>
     \/ /\ port # None
        /\ End(d) /\ UNCHANGED disk

\* restore() or a request: applications run and have their hosting session.
Host(d) ==
  /\ phase[d] = "up"
  /\ hosts' = hosts \cup {d} /\ sessions' = sessions \cup {d}
  /\ UNCHANGED <<phase, port, late, rest>>

\* The last of them is stopped.
Unhost(d) ==
  /\ phase[d] = "up" /\ d \in hosts
  /\ hosts' = hosts \ {d} /\ sessions' = sessions \ {d}
  /\ UNCHANGED <<phase, port, late, rest>>

\* A signal or POST /api/shutdown.
Shutdown(d) ==
  /\ phase[d] = "up"
  /\ Goto(d, "draining")
  /\ UNCHANGED <<port, apps, rest>>

\* restore() or a request goes on while the shutdown is under way: engine.shutdown()
\* tears down what it found when it was called.
HostLate(d) ==
  /\ phase[d] \in {"draining", "closing"}
  /\ late' = late \cup {d} /\ sessions' = sessions \cup {d}
  /\ UNCHANGED <<phase, port, hosts, rest>>

\* Mutant: the API is closed first.
DrainedLast(d) ==
  /\ phase[d] = "draining"
  /\ Goto(d, "closing")
  /\ port' = None
  /\ UNCHANGED <<apps, rest>>

\* engine.shutdown() has settled, and app.close() begins: the port is free.
Drained(d) ==
  /\ phase[d] = "draining"
  /\ Goto(d, "closing")
  /\ port' = None
  /\ hosts' = hosts \ {d}
  /\ sessions' = IF d \in late THEN sessions ELSE sessions \ {d}
  /\ UNCHANGED <<late, rest>>

\* Mutant: the file is removed whomever it names.
LeaveUnchecked(d) ==
  /\ phase[d] = "closing"
  /\ file' = None
  /\ End(d) /\ UNCHANGED clobbered

\* The rest is closed; daemon.json is read, and removed only if it names this daemon.
Leave(d) ==
  /\ phase[d] = "closing"
  /\ UNCHANGED disk
  /\ \/ /\ file = d
        /\ Goto(d, "removing")
        /\ UNCHANGED <<port, apps, cli, unaware>>
     \/ file # d /\ End(d)

Remove(d) ==
  /\ phase[d] = "removing"
  /\ file' = None
  /\ clobbered' = (clobbered \/ file \notin {d, None})
  /\ End(d)

\* kill -9, a crash, or process.exit(1) 15 s after the shutdown began.
Kill(d) == Alive(d) /\ End(d) /\ UNCHANGED disk

(***************************************************************************)
(* The commands, daemon-control.ts                                         *)
(***************************************************************************)
others == <<port, apps, unaware, disk>>
Set(c, r) == cli' = [cli EXCEPT ![c] = r]
Done(c) == Set(c, Idle) /\ UNCHANGED <<phase, others>>
Await(c, r, pc) ==
  Set(c, [r EXCEPT !.pc = pc]) /\ UNCHANGED <<phase, others>>

\* spawnDaemon(): what daemon.json says is noted, and a daemon started.
SpawnDaemon(c, r) ==
  \E d \in Daemon :
    /\ phase[d] = "unborn"
    /\ Goto(d, "new")
    /\ Set(c, [r EXCEPT !.pc = "poll", !.seen = None, !.before = file, !.child = d])
    /\ UNCHANGED others

\* No daemon answered connect().
Unconnected(c, r) ==
  \/ r.task = "stop" /\ Done(c)
  \/ r.task # "stop" /\ SpawnDaemon(c, r)

\* A command begins; connect() reads daemon.json.
Start(c) ==
  /\ cli[c].pc \in {"idle", "failed", "expired"}
  /\ \E t \in Task :
       LET r == [Idle EXCEPT !.pc = "connect", !.task = t, !.seen = file]
       IN  \/ file # None /\ Set(c, r) /\ UNCHANGED <<phase, others>>
           \/ file = None /\ Unconnected(c, r)

\* connect() has asked for the health; ensureDaemon() keeps a daemon of its own
\* version, `rynk daemon start` any.  Every command may be of a version of its own.
Connect(c) ==
  LET r == cli[c] IN
  /\ r.pc = "connect"
  /\ \E healthy \in Answer :
       \/ ~healthy /\ Unconnected(c, r)
       \/ healthy /\ r.task \in {"stop", "restart"} /\ Await(c, r, "shutdown")
       \/ healthy /\ r.task \in {"start", "ensure"} /\ Done(c)
       \/ healthy /\ r.task = "ensure" /\ Await(c, r, "info")

\* A daemon of another version is replaced unless it says that something runs; an
\* answer that does not come, or a refusal of the token, counts as nothing running.
EnsureReplaces(c) ==
  LET r == cli[c] IN
  /\ r.pc = "info"
  /\ \/ r.seen = port /\ port \in hosts \cup late /\ Done(c)
     \/ Await(c, r, "shutdown")

\* POST /api/shutdown with the token of the daemon read: only that one obeys.
AskShutdown(c) ==
  LET r == cli[c] IN
  /\ r.pc = "shutdown"
  /\ Set(c, [r EXCEPT !.pc = "exit"])
  /\ phase' = IF r.seen = port /\ phase[r.seen] = "up"
              THEN [phase EXCEPT ![r.seen] = "draining"] ELSE phase
  /\ UNCHANGED others

\* waitForExit() is over: the process is gone, or 8 s have passed.
WaitForExit(c) ==
  LET r == cli[c] IN
  /\ r.pc = "exit"
  /\ \/ r.task = "stop" /\ ~Alive(r.seen) /\ Done(c)
     \/ r.task = "restart" /\ ~Alive(r.seen) /\ SpawnDaemon(c, r)
     \/ r.task = "ensure" /\ SpawnDaemon(c, r)

\* stopDaemon() kills what has not ended after 20 s, and goes on.
StopKills(c) ==
  LET r == cli[c]
      d == r.seen
  IN  /\ r.pc = "exit" /\ r.task \in {"stop", "restart"} /\ Alive(d)
      /\ Goto(d, "gone")
      /\ port' = IF port = d THEN None ELSE port
      /\ hosts' = hosts \ {d} /\ late' = late \ {d}
      /\ unaware' = unaware \ {d}
      /\ UNCHANGED <<sessions, cli, disk>>

\* Mutant: only the daemon this command has spawned will do.
IsNewOwn(r) == file # None /\ file = r.child

\* daemon.json names the daemon spawned, or one that was not there before.
IsNew(r) == file # None /\ (file = r.child \/ file # r.before)

DidNotStart(c, how) == Set(c, [Idle EXCEPT !.pc = how]) /\ UNCHANGED <<phase, others>>

\* One turn of the wait: a new daemon that answers is taken.  When the one spawned has exited
\* the command fails ("did not start"), be it that it sees no new daemon ("failed"), or that
\* the one it sees does not answer in time ("expired").
Poll(c) ==
  LET r == cli[c] IN
  /\ r.pc = "poll"
  /\ \/ IsNew(r) /\ port # None /\ Done(c)
     \/ ~Alive(r.child) /\ DidNotStart(c, IF IsNew(r) THEN "expired" ELSE "failed")

\* It fails likewise after 15 s.
PollTimeout(c) == cli[c].pc = "poll" /\ DidNotStart(c, "expired")

(***************************************************************************)
(* The specification                                                       *)
(***************************************************************************)
DaemonStep(d) ==
  \/ Boot(d) \/ Asked(d) \/ EndOrphans(d) \/ Listen(d) \/ Host(d) \/ Unhost(d) \/ Shutdown(d)
  \/ HostLate(d) \/ Drained(d) \/ Leave(d) \/ Remove(d) \/ Kill(d)

CliStep(c) ==
  \/ Start(c) \/ Connect(c) \/ EnsureReplaces(c) \/ AskShutdown(c) \/ WaitForExit(c)
  \/ StopKills(c) \/ Poll(c) \/ PollTimeout(c)

Next == (\E d \in Daemon : DaemonStep(d)) \/ (\E c \in Cli : CliStep(c))

Spec == Init /\ [][Next]_vars

(***************************************************************************)
(* Correctness                                                             *)
(***************************************************************************)
\* A daemon that answers the API is the one daemon.json names, whichever others have
\* started, lost the port, or left since (main.ts:185).  Excepted: a daemon that has
\* read its own name there and then removes the file of its successor.
Discoverable == \A d \in Daemon : phase[d] \in Serving => file = d \/ clobbered

\* Two daemons never run applications at the same time: engine.shutdown() is over
\* before the port is free, restore() begins only on the port (main.ts:176, 199, 240).
\* What starts during a shutdown is in late, and may meet the next daemon.
HostsAlone == \A d, e \in hosts : d = e

\* A daemon that starts ends the rows of a crashed one and not the hosting sessions of one
\* that is up: the single-instance check comes first (main.ts:59-67, 78).  Excepted, and
\* reachable: one that is up but gave no answer in time, and one that came up between the
\* check and the rows, while the other opened its database (unaware).
SessionsAreKept ==
  [][\A d \in sessions :
       \/ d \in sessions' \/ phase[d] # "up" \/ clobbered \/ Unhost(d)
       \/ \E e \in unaware : phase[e] = "opening" /\ phase'[e] = "setup"]_vars

\* Of several commands that start a daemon at once, those whose daemon loses the port
\* take the winner: none fails with "did not start" beside a daemon that is up
\* (daemon-control.ts:70), unless daemon.json named it already when it spawned.  Excepted
\* ("expired"): a new daemon that it has found and that did not answer the health check in
\* time, and the deadline of 15 s.
JoinsTheWinner ==
  [][\A c \in Cli : cli[c].pc = "poll" /\ cli'[c].pc = "failed" =>
       \A d \in Daemon : phase[d] = "up" => d = cli[c].before \/ clobbered]_vars
=============================================================================
