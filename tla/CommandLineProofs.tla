------------------------- MODULE CommandLineProofs -------------------------
(***************************************************************************)
(* What holds of the command line for every value of the constants, in     *)
(* three parts.                                                            *)
(*                                                                         *)
(* DaemonRace: the API's port and daemon.json agree on one daemon, and     *)
(* with them who runs applications and what a command finds.  The port     *)
(* does the work: only who holds it writes daemon.json, and who has given  *)
(* it up removes the file only when it names him.                          *)
(*                                                                         *)
(* HostingSession: `rynk` in the foreground, its popup and the daemon.     *)
(* What each knows of the others is in queues and answers that are behind: *)
(* the invariant says by how much.                                         *)
(*                                                                         *)
(* ProjectPlan: every layer is a partial function, and what a request is   *)
(* resolved to is computed field by field, through all the layers.         *)
(***************************************************************************)
EXTENDS DaemonRace, HostingSession, ProjectPlan, Integers, SequenceTheorems,
        WellFoundedInduction, TLAPS

-----------------------------------------------------------------------------
(* DaemonRace                                                              *)

\* The daemons that serve are those the port belongs to: at most one.
PortHeld == \A d \in Daemon : phase[d] \in Serving <=> port = d

\* Applications counted in hosts run where the API is open.
HostsServe == \A d \in hosts : phase[d] \in {"up", "draining"}

\* A command that has found a daemon knows which.
Sees(r) == r.pc \in {"connect", "info", "shutdown", "exit"} => r.seen \in Daemon
SeenDaemon == \A c \in Cli : Sees(cli[c])

\* A daemon that has found nobody is alone, or is known not to know who came up.
Informed ==
  \A e \in Daemon : phase[e] = "opening" /\ e \notin unaware =>
    clobbered \/ \A d \in Daemon : phase[d] # "up"

RaceInv == TypeOK /\ PortHeld /\ HostsServe /\ SeenDaemon /\ Discoverable /\ Informed

-----------------------------------------------------------------------------
\* A command may change its own record and nothing else.
LEMMA CommandTypes ==
  ASSUME TypeOK, NEW c \in Cli
  PROVE  /\ Idle \in Command /\ Sees(Idle)
         /\ \A p \in {"failed", "expired"} :
              [Idle EXCEPT !.pc = p] \in Command /\ Sees([Idle EXCEPT !.pc = p])
         /\ \A p \in {"info", "shutdown", "exit"} : [cli[c] EXCEPT !.pc = p] \in Command
         /\ \A t \in Task :
              [Idle EXCEPT !.pc = "connect", !.task = t, !.seen = file] \in Command
         /\ cli[c] \in Command
<1>1. Idle \in Command /\ Sees(Idle)
  BY DEF Command, Idle, Maybe, Task, Sees
<1>2. \A p \in {"failed", "expired"} :
        [Idle EXCEPT !.pc = p] \in Command /\ Sees([Idle EXCEPT !.pc = p])
  BY <1>1 DEF Command, Idle, Sees
<1>3. cli[c] \in Command /\ file \in Maybe
  BY DEF TypeOK
<1>4. \A p \in {"info", "shutdown", "exit"} : [cli[c] EXCEPT !.pc = p] \in Command
  BY <1>3 DEF Command
<1>5. \A t \in Task : [Idle EXCEPT !.pc = "connect", !.task = t, !.seen = file] \in Command
  BY <1>1, <1>3 DEF Command
<1> QED BY <1>1, <1>2, <1>3, <1>4, <1>5

\* What is not up, or stays as it is, keeps the invariant when nothing else changes.
LEMMA CommandOnly ==
  ASSUME RaceInv, NEW c \in Cli, NEW r \in Command, Sees(r), Set(c, r),
         UNCHANGED <<phase, others>>
  PROVE  RaceInv'
BY DEF RaceInv, TypeOK, PortHeld, HostsServe, SeenDaemon, Discoverable, Informed, Set, others,
       apps, disk

\* The end of a process that leaves daemon.json alone.
LEMMA Ends ==
  ASSUME RaceInv, NEW d \in Daemon, End(d), UNCHANGED disk
  PROVE  RaceInv'
<1>1. TypeOK'
  BY DEF RaceInv, TypeOK, End, Goto, disk, Phase, Maybe
<1>2. PortHeld'
  BY RaceSets DEF RaceInv, TypeOK, PortHeld, End, Goto, Serving, Maybe
<1>3. HostsServe' /\ SeenDaemon' /\ Discoverable'
  BY DEF RaceInv, TypeOK, HostsServe, SeenDaemon, Discoverable, End, Goto, disk, Serving
<1>4. Informed'
  BY DEF RaceInv, TypeOK, Informed, End, Goto, disk
<1> QED BY <1>1, <1>2, <1>3, <1>4 DEF RaceInv

\* A daemon that starts and has not bound the port moves on.
LEMMA Begins ==
  ASSUME RaceInv, NEW d \in Daemon, phase[d] \in {"new", "asking", "opening"},
         NEW p \in {"asking", "opening", "setup"}, Goto(d, p),
         UNCHANGED <<port, hosts, late, cli, disk>>, sessions' \subseteq sessions,
         unaware' \subseteq Daemon, unaware \ {d} \subseteq unaware',
         p = "opening" /\ d \notin unaware' => clobbered \/ \A e \in Daemon : phase[e] # "up"
  PROVE  RaceInv'
<1>1. TypeOK' /\ SeenDaemon'
  BY DEF RaceInv, TypeOK, SeenDaemon, Goto, disk, Phase
<1>2. PortHeld' /\ HostsServe' /\ Discoverable'
  BY DEF RaceInv, TypeOK, PortHeld, HostsServe, Discoverable, Goto, disk, Serving
<1>3. Informed'
  BY DEF RaceInv, TypeOK, Informed, Goto, disk
<1> QED BY <1>1, <1>2, <1>3 DEF RaceInv

\* A command spawns a daemon that has not been born.
LEMMA Spawns ==
  ASSUME RaceInv, NEW c \in Cli, NEW r \in Command, SpawnDaemon(c, r)
  PROVE  RaceInv'
<1> PICK d \in Daemon :
      /\ phase[d] = "unborn" /\ Goto(d, "new")
      /\ Set(c, [r EXCEPT !.pc = "poll", !.seen = None, !.before = file, !.child = d])
      /\ UNCHANGED others
  BY DEF SpawnDaemon
<1>1. [r EXCEPT !.pc = "poll", !.seen = None, !.before = file, !.child = d] \in Command
  BY DEF Command, RaceInv, TypeOK, Maybe
<1>2. TypeOK' /\ SeenDaemon'
  BY <1>1 DEF RaceInv, TypeOK, SeenDaemon, Sees, Goto, Set, others, apps, disk, Phase, Command
<1>3. PortHeld' /\ HostsServe' /\ Discoverable' /\ Informed'
  BY DEF RaceInv, TypeOK, PortHeld, HostsServe, Discoverable, Informed, Goto, others, apps, disk,
         Serving
<1> QED BY <1>2, <1>3 DEF RaceInv

-----------------------------------------------------------------------------

\* Every step of a daemon, ...
LEMMA DaemonInv == ASSUME RaceInv, NEW d \in Daemon, DaemonStep(d) PROVE RaceInv'
<1>1. CASE Boot(d)
  <2>1. ~Named(d) => clobbered \/ \A e \in Daemon : phase[e] # "up"
    BY <1>1, RaceSets DEF Boot, Named, Alive, RaceInv, TypeOK, Discoverable, Serving
  <2>2. unaware \subseteq Daemon
    BY DEF RaceInv, TypeOK
  <2> QED BY <1>1, <2>1, <2>2, Begins DEF Boot, apps, rest
<1>2. CASE Asked(d)
  <2>1. CASE End(d) /\ UNCHANGED disk
    BY <2>1, Ends
  <2>2. CASE /\ Goto(d, "opening") /\ UNCHANGED <<port, apps, cli, disk>>
             /\ unaware' = IF port = None THEN unaware ELSE unaware \cup {d}
    <3>1. port = None => \A e \in Daemon : phase[e] # "up"
      BY RaceSets DEF RaceInv, PortHeld, Serving
    <3>2. unaware' \subseteq Daemon /\ unaware \subseteq unaware'
      BY <2>2 DEF RaceInv, TypeOK
    <3> QED BY <1>2, <2>2, <3>1, <3>2, Begins DEF Asked, apps
  <2> QED BY <1>2, <2>1, <2>2 DEF Asked
<1>3. CASE EndOrphans(d)
  <2>1. unaware' \subseteq Daemon /\ sessions' \subseteq sessions
    BY <1>3 DEF EndOrphans, RaceInv, TypeOK
  <2> QED BY <1>3, <2>1, Begins DEF EndOrphans
<1> USE DEF RaceInv, TypeOK, PortHeld, HostsServe, SeenDaemon, Discoverable, Informed, Goto,
            Serving, Phase, disk, rest
<1>4. CASE Listen(d)
  <2>1. CASE port = None
    <3>1. TypeOK' /\ SeenDaemon' /\ HostsServe'
      BY <1>4, <2>1, RaceSets DEF Listen, apps, Maybe
    <3>2. PortHeld' /\ Discoverable'
      BY <1>4, <2>1, RaceSets DEF Listen, apps, Maybe
    <3>3. Informed'
      BY <1>4, <2>1, RaceSets DEF Listen
    <3> QED BY <3>1, <3>2, <3>3
  <2>2. CASE port # None
    BY <1>4, <2>2, Ends DEF Listen
  <2> QED BY <2>1, <2>2
<1>5. CASE Host(d) \/ Unhost(d) \/ HostLate(d)
  BY <1>5 DEF Host, Unhost, HostLate
<1>6. CASE Drained(d)
  BY <1>6, RaceSets DEF Drained, Maybe
<1>7. CASE Shutdown(d)
  BY <1>7 DEF Shutdown, apps
<1>8. CASE Leave(d)
  BY <1>8, Ends DEF Leave, apps
<1>9. CASE Remove(d)
  <2>1. TypeOK'
    BY <1>9 DEF Remove, End, Maybe
  <2>2. PortHeld' /\ HostsServe' /\ SeenDaemon'
    BY <1>9, RaceSets DEF Remove, End, Maybe
  <2>3. Discoverable' /\ Informed'
    BY <1>9, RaceSets DEF Remove, End, Maybe
  <2> QED BY <2>1, <2>2, <2>3
<1>10. CASE Kill(d)
  BY <1>10, Ends DEF Kill
<1> QED BY <1>1, <1>2, <1>3, <1>4, <1>5, <1>6, <1>7, <1>8, <1>9, <1>10 DEF DaemonStep

\* ... every step of a command ...
LEMMA CliInv == ASSUME RaceInv, NEW c \in Cli, CliStep(c) PROVE RaceInv'
<1>0. /\ TypeOK /\ Sees(cli[c])
      /\ \A p \in {"info", "shutdown", "exit"} :
           cli[c].pc \in {"connect", "info", "shutdown"} => Sees([cli[c] EXCEPT !.pc = p])
  BY DEF RaceInv, SeenDaemon, Sees, TypeOK, Command
<1>1. ASSUME NEW r \in Command, Unconnected(c, r) PROVE RaceInv'
  BY <1>0, <1>1, CommandTypes, CommandOnly, Spawns DEF Unconnected, Done
<1>2. CASE Start(c)
  <2> PICK t \in Task :
        LET r == [Idle EXCEPT !.pc = "connect", !.task = t, !.seen = file]
        IN  \/ file # None /\ Set(c, r) /\ UNCHANGED <<phase, others>>
            \/ file = None /\ Unconnected(c, r)
    BY <1>2 DEF Start
  <2> DEFINE r == [Idle EXCEPT !.pc = "connect", !.task = t, !.seen = file]
  <2>1. r \in Command
    BY <1>0, CommandTypes
  <2>2. file # None => Sees(r)
    BY <1>0 DEF Sees, TypeOK, Maybe, Idle
  <2> QED BY <1>1, <2>1, <2>2, CommandOnly
<1>3. CASE Connect(c)
  BY <1>0, <1>1, <1>3, CommandTypes, CommandOnly DEF Connect, Await, Done
<1>4. CASE EnsureReplaces(c)
  BY <1>0, <1>4, CommandTypes, CommandOnly DEF EnsureReplaces, Await, Done
<1>5. CASE AskShutdown(c)
  <2>1. [cli[c] EXCEPT !.pc = "exit"] \in Command /\ Sees([cli[c] EXCEPT !.pc = "exit"])
    BY <1>0, <1>5, CommandTypes DEF AskShutdown
  <2>2. TypeOK' /\ SeenDaemon'
    BY <1>5, <2>1 DEF AskShutdown, RaceInv, TypeOK, SeenDaemon, Set, others, apps,
                disk, Phase
  <2>3. PortHeld' /\ HostsServe' /\ Discoverable' /\ Informed'
    BY <1>5 DEF AskShutdown, RaceInv, TypeOK, PortHeld, HostsServe, Discoverable, Informed,
                others, apps, disk, Serving
  <2> QED BY <2>2, <2>3 DEF RaceInv
<1>6. CASE WaitForExit(c)
  BY <1>0, <1>6, CommandTypes, CommandOnly, Spawns DEF WaitForExit, Done
<1>7. CASE StopKills(c)
  <2>1. cli[c].seen \in Daemon
    BY <1>0, <1>7 DEF StopKills, Sees
  <2>2. End(cli[c].seen) /\ UNCHANGED disk
    BY <1>7 DEF StopKills, End, disk
  <2> QED BY <2>1, <2>2, Ends
<1>8. CASE Poll(c) \/ PollTimeout(c)
  <2>1. Done(c) \/ \E p \in {"failed", "expired"} : DidNotStart(c, p)
    BY <1>8 DEF Poll, PollTimeout
  <2>2. CASE Done(c)
    BY <1>0, <2>2, CommandTypes, CommandOnly DEF Done
  <2>3. ASSUME NEW p \in {"failed", "expired"}, DidNotStart(c, p) PROVE RaceInv'
    BY <1>0, <2>3, CommandTypes, CommandOnly DEF DidNotStart
  <2> QED BY <2>1, <2>2, <2>3
<1> QED BY <1>2, <1>3, <1>4, <1>5, <1>6, <1>7, <1>8 DEF CliStep

\* Before them nobody holds the port and nobody is named.
LEMMA RaceInit == Init => RaceInv
<1> SUFFICES ASSUME Init PROVE RaceInv
  OBVIOUS
<1>1. Idle \in Command /\ Sees(Idle)
  BY DEF Command, Idle, Maybe, Task, Sees
<1>2. TypeOK /\ SeenDaemon
  BY <1>1 DEF Init, TypeOK, SeenDaemon, Phase, Maybe
<1>3. PortHeld /\ HostsServe /\ Discoverable /\ Informed
  BY RaceSets DEF Init, PortHeld, HostsServe, Discoverable, Informed, Serving
<1> QED BY <1>2, <1>3 DEF RaceInv

\* ... and so every step of the race keeps the invariant.
LEMMA RaceStep == RaceInv /\ [Next]_vars => RaceInv'
<1>1. RaceInv /\ UNCHANGED vars => RaceInv'
  BY DEF RaceInv, TypeOK, PortHeld, HostsServe, SeenDaemon, Discoverable, Informed, vars
<1> QED BY <1>1, DaemonInv, CliInv DEF Next

-----------------------------------------------------------------------------

\* The types of the race's state, for any number of daemons and commands.
THEOREM RaceTypes == Spec => []TypeOK
<1>1. RaceInv => TypeOK
  BY DEF RaceInv
<1> QED BY <1>1, RaceInit, RaceStep, PTL DEF Spec

\* Whoever answers the API is named by daemon.json.
THEOREM RaceDiscoverable == Spec => []Discoverable
<1>1. RaceInv => Discoverable
  BY DEF RaceInv
<1> QED BY <1>1, RaceInit, RaceStep, PTL DEF Spec

\* Two daemons never run applications at the same time.
THEOREM RaceHostsAlone == Spec => []HostsAlone
<1>1. RaceInv => HostsAlone
  BY DEF RaceInv, TypeOK, PortHeld, HostsServe, HostsAlone, Serving
<1> QED BY <1>1, RaceInit, RaceStep, PTL DEF Spec

\* A daemon that starts costs one that is up none of its hosting sessions, unless that one
\* came up after its check or did not answer it.
THEOREM RaceSessionsAreKept == Spec => SessionsAreKept
<1> DEFINE Kept == \A d \in sessions :
              \/ d \in sessions' \/ phase[d] # "up" \/ clobbered \/ Unhost(d)
              \/ \E e \in unaware : phase[e] = "opening" /\ phase'[e] = "setup"
<1>1. ASSUME RaceInv, Next PROVE Kept
  <2>1. ASSUME NEW e \in Daemon, DaemonStep(e) PROVE Kept
    <3>1. CASE EndOrphans(e)
      <4>1. e \in unaware \/ clobbered \/ \A d \in Daemon : phase[d] # "up"
        BY <1>1, <3>1 DEF RaceInv, Informed, EndOrphans
      <4>2. phase[e] = "opening" /\ phase'[e] = "setup" /\ sessions \subseteq Daemon
        BY <1>1, <3>1 DEF EndOrphans, Goto, RaceInv, TypeOK
      <4> QED BY <4>1, <4>2
    <3>2. CASE Boot(e) \/ Asked(e)
      BY <3>2 DEF Boot, Asked, End, apps
    <3>3. CASE Unhost(e) \/ Drained(e)
      BY <3>3 DEF Unhost, Drained
    <3>4. CASE Listen(e) \/ Shutdown(e) \/ Leave(e)
      BY <3>4 DEF Listen, Shutdown, Leave, End, apps
    <3>5. CASE Host(e) \/ HostLate(e) \/ Remove(e) \/ Kill(e)
      BY <3>5 DEF Host, HostLate, Remove, Kill, End
    <3> QED BY <2>1, <3>1, <3>2, <3>3, <3>4, <3>5 DEF DaemonStep
  <2>2. ASSUME NEW c \in Cli, CliStep(c) PROVE sessions' = sessions
    <3>1. CASE Poll(c) \/ PollTimeout(c)
      BY <3>1 DEF Poll, PollTimeout, Done, DidNotStart, others, apps
    <3>2. CASE Start(c) \/ Connect(c)
      BY <3>2 DEF Start, Connect, Unconnected, SpawnDaemon, Done, Await, others, apps
    <3>3. CASE EnsureReplaces(c) \/ AskShutdown(c) \/ WaitForExit(c) \/ StopKills(c)
      BY <3>3 DEF EnsureReplaces, AskShutdown, WaitForExit, StopKills, SpawnDaemon, Done,
                  Await, others, apps
    <3> QED BY <2>2, <3>1, <3>2, <3>3 DEF CliStep
  <2> QED BY <1>1, <2>1, <2>2 DEF Next
<1>2. RaceInv /\ [Next]_vars => [Kept]_vars
  BY <1>1
<1> QED BY <1>2, RaceInit, RaceStep, PTL DEF Spec, SessionsAreKept

\* A command fails for want of a daemon only when there is none it could have taken.
THEOREM RaceJoinsTheWinner == Spec => JoinsTheWinner
<1> DEFINE Joins == \A c \in Cli : cli[c].pc = "poll" /\ cli'[c].pc = "failed" =>
              \A d \in Daemon : phase[d] = "up" => d = cli[c].before \/ clobbered
<1>1. ASSUME RaceInv, Next PROVE Joins
  <2>1. ASSUME NEW e \in Daemon, DaemonStep(e) PROVE cli' = cli
    BY <2>1 DEF DaemonStep, Boot, Asked, EndOrphans, Listen, Host, Unhost, Shutdown, HostLate,
                Drained, Leave, Remove, Kill, End, rest
  <2>2. ASSUME NEW b \in Cli, CliStep(b), NEW c \in Cli, cli[c].pc = "poll",
               cli'[c].pc = "failed", NEW d \in Daemon, phase[d] = "up", ~clobbered
        PROVE  d = cli[c].before
    <3>1. file = d /\ file # None
      BY <1>1, <2>2, RaceSets DEF RaceInv, Discoverable, Serving
    <3>2. ASSUME NEW r, Set(b, r) PROVE b = c /\ r.pc = "failed"
      BY <1>1, <2>2, <3>2 DEF Set, RaceInv, TypeOK
    <3>3. CASE Poll(b)
      <4>1. CASE Done(b)
        BY <3>2, <4>1 DEF Done, Idle
      <4>2. CASE IsNew(cli[b]) /\ DidNotStart(b, "expired")
        BY <3>2, <4>2 DEF DidNotStart, Idle
      <4>3. CASE ~IsNew(cli[b]) /\ DidNotStart(b, "failed")
        <5>1. b = c
          BY <3>2, <4>3 DEF DidNotStart
        <5> QED BY <3>1, <4>3, <5>1 DEF IsNew
      <4> QED BY <3>3, <4>1, <4>2, <4>3 DEF Poll
    <3>4. CASE StopKills(b)
      BY <2>2, <3>4 DEF StopKills, rest
    <3>5. CASE Start(b)
      <4>1. b # c
        BY <2>2, <3>5 DEF Start
      <4>2. \A r : ~Set(b, r)
        BY <3>2, <4>1
      <4> QED BY <3>5, <4>2 DEF Start, Unconnected, SpawnDaemon, Done
    <3>6. CASE Connect(b) \/ EnsureReplaces(b) \/ AskShutdown(b) \/ WaitForExit(b)
      <4>1. b # c
        BY <2>2, <3>6 DEF Connect, EnsureReplaces, AskShutdown, WaitForExit
      <4>2. \A r : ~Set(b, r)
        BY <3>2, <4>1
      <4> QED BY <3>6, <4>2 DEF Connect, EnsureReplaces, AskShutdown, WaitForExit,
                              Unconnected, SpawnDaemon, Done, Await
    <3>7. CASE PollTimeout(b)
      BY <3>2, <3>7 DEF PollTimeout, DidNotStart, Idle
    <3> QED BY <2>2, <3>3, <3>4, <3>5, <3>6, <3>7 DEF CliStep
  <2> QED BY <1>1, <2>1, <2>2 DEF Next
<1>2. RaceInv /\ [Next]_vars => [Joins]_vars
  BY <1>1
<1> QED BY <1>2, RaceInit, RaceStep, PTL DEF Spec, JoinsTheWinner

-----------------------------------------------------------------------------
(* HostingSession: the invariant                                           *)

\* Where a deployment runs, the events of its end, every event and every message.
Hosted == {"starting", "live", "restarting"}
Ending == {"failed", "stopped", "closed"}
Event == {"completed", "restarting"} \cup Ending
Message == {"start", "cancel", "closed", "exited", "stop"}

\* An end is announced only of a deployment that has ended, ...
Announced == events \in Seq(IF dep \in Over THEN Event ELSE Event \ Ending)

\* ... and the window sends "stop" when its user has pressed Stop Hosting.
Pressed == messages \in Seq(IF asked THEN Message ELSE Message \ {"stop"})

\* What has been read of a deployment is older than its end, or true; or nothing, for a failure.
Snapshot ==
  {"none", "asked"} \cup Hosted \cup (IF dep \in Over THEN Over ELSE {})
    \cup (IF lapsed THEN {"lost"} ELSE {})
Reported == reply \in Snapshot /\ fetch \in Snapshot

\* No stop is sent unless the user or a signal has asked for it, and nothing else of this CLI
\* stops a deployment but a request that has failed.
StopIsAsked ==
  /\ stopping # "no" => asked \/ signalled
  /\ stoppedBy = "cli" => asked \/ signalled \/ lapsed

\* Before the request nothing is known of a deployment.
Fresh ==
  exit = "none" /\ pc \in {"opening", "choosing", "deploying"} =>
    /\ reply = "none" /\ fetch = "none" /\ events = <<>>
    /\ outcome = "none" /\ ~stopped /\ ~subscribed
    /\ existing \/ dep = "none"

\* Who follows a deployment has found one, and a program that waits waits for its own.
Attached ==
  /\ pc \in {"settling", "resettling", "reading", "following"} => existing
  /\ pc = "awaiting" => mode = "waiting"

\* What up() takes for an end is one, or a request that has failed; and what it calls the end
\* of a deployment that was live is one.
Known ==
  /\ outcome = "error" \/ pc = "leaving" => dep \in Over \/ lapsed
  /\ stopped => dep \in Over

\* `rynk` in the foreground does not exit before what it hosts unless its user or a signal
\* asked it to, or a request of its own failed although the daemon lives.
OutlivesHosting ==
  mode = "foreground" /\ ~existing /\ exit # "none" =>
    asked \/ signalled \/ lapsed \/ dep \notin Hosted

SessionInv ==
  /\ SessionTypeOK
  /\ Announced
  /\ Pressed
  /\ Reported
  /\ StopIsAsked
  /\ Fresh
  /\ Attached
  /\ Known
  /\ OutlivesHosting

-----------------------------------------------------------------------------

\* The ends of a queue of events or messages.
LEMMA Queues ==
  ASSUME NEW S, NEW q \in Seq(S)
  PROVE  /\ <<>> \in Seq(S)
         /\ q # <<>> => Head(q) \in S /\ Tail(q) \in Seq(S)
         /\ \A e \in S : Append(q, e) \in Seq(S)
         /\ \A e \in S : q \o <<e>> \in Seq(S)
         /\ \A e, f \in S : q \o <<e, f>> \in Seq(S)
         /\ \A T : S \subseteq T => q \in Seq(T)
<1>1. \A T : S \subseteq T => q \in Seq(T)
  BY SeqMonotonic
<1>2. \A e, f \in S : <<e>> \in Seq(S) /\ <<e, f>> \in Seq(S)
  OBVIOUS
<1>3. \A e, f \in S : q \o <<e>> \in Seq(S) /\ q \o <<e, f>> \in Seq(S)
  BY <1>2, ConcatProperties
<1>4. q # <<>> => Head(q) \in S /\ Tail(q) \in Seq(S)
  BY HeadTailProperties
<1> QED BY <1>1, <1>3, <1>4

\* Before the session there is no deployment, and nothing is announced of one.
LEMMA SessionStarts == SessionInit => SessionInv
<1> SUFFICES ASSUME SessionInit PROVE SessionInv
  OBVIOUS
<1>1. Announced /\ Pressed
  BY EmptySeq DEF SessionInit, Announced, Pressed
<1>2. SessionTypeOK
  BY DEF SessionInit, SessionTypeOK
<1>3. Reported /\ StopIsAsked /\ Fresh /\ Attached /\ Known /\ OutlivesHosting
  BY DEF SessionInit, Reported, Snapshot, StopIsAsked, Fresh, Attached, Known, OutlivesHosting
<1> QED BY <1>1, <1>2, <1>3 DEF SessionInv

\* A step of the deployment leads on, or to its end, and announces it.
LEMMA BecomesInv ==
  ASSUME SessionInv, NEW from, NEW to, NEW e,
         from \subseteq Hosted,
         \/ to \in Hosted /\ e \in Event \ Ending
         \/ to \in {"failed", "stopped"} /\ e \in Event,
         Becomes(from, to, e),
         lapsed => lapsed',
         stoppedBy' = "cli" => asked \/ signalled \/ lapsed'
  PROVE  SessionInv'
<1> USE DEF Becomes, rynk, popup, causes
<1>1. /\ dep \in Hosted /\ dep \notin Over /\ dep' = to
      /\ to \in Over <=> to \notin Hosted
  BY DEF Hosted, Over
<1>2. Announced'
  <2> DEFINE S == IF to \in Over THEN Event ELSE Event \ Ending
  <2>1. events \in Seq(Event \ Ending) /\ Event \ Ending \subseteq S /\ e \in S
    BY <1>1 DEF SessionInv, Announced, Over
  <2> HIDE DEF S
  <2>2. events \in Seq(S)
    BY <2>1, Queues
  <2>3. Append(events, e) \in Seq(S)
    BY <2>1, <2>2, Queues
  <2>4. events' \in Seq(S)
    BY <2>2, <2>3 DEF Emit
  <2> QED BY <1>1, <2>4 DEF Announced, S
<1>3. Pressed' /\ Reported'
  BY <1>1 DEF SessionInv, Pressed, Reported, Snapshot
<1>4. SessionTypeOK'
  BY DEF SessionInv, SessionTypeOK, Hosted
<1>5. StopIsAsked' /\ Attached'
  BY DEF SessionInv, StopIsAsked, Attached
<1>6. Known'
  BY <1>1 DEF SessionInv, Known
<1>7. Fresh'
  BY <1>1 DEF SessionInv, Fresh, Emit, Hosted
<1>8. OutlivesHosting'
  BY <1>1 DEF SessionInv, OutlivesHosting
<1> QED BY <1>2, <1>3, <1>4, <1>5, <1>6, <1>7, <1>8 DEF SessionInv

\* What the user does.
LEMMA UserInv ==
  ASSUME SessionInv,
         \/ (\E w \in {"config", "form", "none"} : OpenPopup(w))
         \/ PressStart
         \/ CloseWindow
         \/ PressStop
         \/ Interrupt
         \/ Signalled
  PROVE  SessionInv'
<1>1. CASE \E w \in {"config", "form", "none"} : OpenPopup(w)
  <2> USE <1>1 DEF OpenPopup, Running, daemon, rynk, popup, causes
  <2>1. Announced' /\ Pressed'
    BY DEF SessionInv, Announced, Pressed
  <2>2. SessionTypeOK' /\ StopIsAsked' /\ Attached'
    BY DEF SessionInv, SessionTypeOK, StopIsAsked, Attached
  <2>3. Reported' /\ Fresh' /\ Known'
    BY DEF SessionInv, Reported, Snapshot, Known, Fresh
  <2>4. OutlivesHosting'
    BY DEF OutlivesHosting
  <2> QED BY <2>1, <2>2, <2>3, <2>4 DEF SessionInv
<1>2. CASE PressStart
  <2> USE <1>2 DEF PressStart, Running, daemon, rynk, popup, causes
  <2>1. Announced'
    BY DEF SessionInv, Announced
  <2>2. Pressed'
    BY Queues DEF SessionInv, Pressed, Message
  <2>3. SessionTypeOK' /\ StopIsAsked' /\ Attached'
    BY DEF SessionInv, SessionTypeOK, StopIsAsked, Attached
  <2>4. Reported' /\ Fresh' /\ Known'
    BY DEF SessionInv, Reported, Snapshot, Known, Fresh
  <2>5. OutlivesHosting'
    BY DEF SessionInv, OutlivesHosting
  <2> QED BY <2>1, <2>2, <2>3, <2>4, <2>5 DEF SessionInv
<1>3. CASE CloseWindow
  <2> USE <1>3 DEF CloseWindow, Running, daemon, rynk,
                   popup, causes
  <2>1. Announced'
    BY DEF SessionInv, Announced
  <2>2. Pressed'
    BY Queues DEF SessionInv, Pressed, Message
  <2>3. SessionTypeOK' /\ StopIsAsked' /\ Attached'
    BY DEF SessionInv, SessionTypeOK, StopIsAsked, Attached
  <2>4. Reported' /\ Fresh' /\ Known'
    BY DEF SessionInv, Reported, Snapshot, Known, Fresh
  <2>5. OutlivesHosting'
    BY DEF SessionInv, OutlivesHosting
  <2> QED BY <2>1, <2>2, <2>3, <2>4, <2>5 DEF SessionInv
<1>4. CASE PressStop
  <2> USE <1>4 DEF PressStop, Running, daemon, rynk, popup, causes
  <2>1. Announced'
    BY DEF SessionInv, Announced
  <2>2. Pressed'
    BY Queues DEF SessionInv, Pressed, Message
  <2>3. SessionTypeOK' /\ StopIsAsked' /\ Attached'
    BY DEF SessionInv, SessionTypeOK, StopIsAsked, Attached
  <2>4. Reported' /\ Fresh' /\ Known'
    BY DEF SessionInv, Reported, Snapshot, Known, Fresh
  <2>5. OutlivesHosting'
    BY DEF OutlivesHosting
  <2> QED BY <2>1, <2>2, <2>3, <2>4, <2>5 DEF SessionInv
<1>5. CASE Interrupt \/ Signalled
  <2> USE <1>5 DEF Interrupt, Signalled, OnSigint, Running, Exits, daemon, rynk,
                   popup, causes
  <2>1. Announced'
    BY DEF SessionInv, Announced
  <2>2. Pressed'
    BY Queues DEF SessionInv, Pressed, Message
  <2>3. SessionTypeOK' /\ StopIsAsked' /\ Attached'
    BY DEF SessionInv, SessionTypeOK, StopIsAsked, Attached
  <2>4. Reported' /\ Fresh' /\ Known'
    BY DEF SessionInv, Reported, Snapshot, Known, Fresh
  <2>5. OutlivesHosting'
    BY DEF OutlivesHosting
  <2> QED BY <2>1, <2>2, <2>3, <2>4, <2>5 DEF SessionInv
<1> QED BY <1>1, <1>2, <1>3, <1>4, <1>5

\* Requests and their answers.
LEMMA RequestInv ==
  ASSUME SessionInv,
         \/ Answers
         \/ Deploy
         \/ DeployAndWait
         \/ Subscribe
         \/ Unreachable
         \/ StopAnswered
         \/ NoAnswer
         \/ DeployFails
         \/ StopUnanswered
  PROVE  SessionInv'
<1>1. CASE Answers
  <2> USE <1>1 DEF Answers, Running, daemon, rynk, popup, causes
  <2>1. Announced' /\ Pressed'
    BY DEF SessionInv, Announced, Pressed
  <2>2. SessionTypeOK' /\ StopIsAsked' /\ Attached'
    BY DEF SessionInv, SessionTypeOK, StopIsAsked, Attached
  <2>3. Reported' /\ Fresh' /\ Known'
    BY DEF SessionInv, Reported, Snapshot, Known, Fresh, Hosted, Over, SessionTypeOK
  <2>4. OutlivesHosting'
    BY DEF SessionInv, OutlivesHosting
  <2> QED BY <2>1, <2>2, <2>3, <2>4 DEF SessionInv
<1>2. CASE Deploy
  <2> USE <1>2 DEF Deploy, Running, Deploys, daemon, rynk,
                   popup, causes
  <2>1. Announced'
    BY Queues DEF SessionInv, Announced, Fresh
  <2>2. Pressed'
    BY DEF SessionInv, Pressed
  <2>3. SessionTypeOK' /\ StopIsAsked' /\ Attached'
    BY DEF SessionInv, SessionTypeOK, StopIsAsked, Attached
  <2>4. Reported' /\ Fresh' /\ Known'
    BY DEF SessionInv, Reported, Snapshot, Known, Fresh
  <2>5. OutlivesHosting'
    BY DEF OutlivesHosting
  <2> QED BY <2>1, <2>2, <2>3, <2>4, <2>5 DEF SessionInv
<1>3. CASE DeployAndWait
  <2> USE <1>3 DEF DeployAndWait, Running, Deploys, daemon,
                   rynk, popup, causes
  <2>1. Announced'
    BY Queues DEF SessionInv, Announced, Fresh
  <2>2. Pressed'
    BY DEF SessionInv, Pressed
  <2>3. SessionTypeOK' /\ StopIsAsked' /\ Attached'
    BY DEF SessionInv, SessionTypeOK, StopIsAsked, Attached
  <2>4. Reported' /\ Fresh' /\ Known'
    BY DEF SessionInv, Reported, Snapshot, Known, Fresh
  <2>5. OutlivesHosting'
    BY DEF OutlivesHosting
  <2> QED BY <2>1, <2>2, <2>3, <2>4, <2>5 DEF SessionInv
<1>4. CASE Subscribe
  <2> USE <1>4 DEF Subscribe, Running, daemon, rynk, popup, causes
  <2>1. Announced' /\ Pressed'
    BY DEF SessionInv, Announced, Pressed
  <2>2. SessionTypeOK' /\ StopIsAsked' /\ Attached'
    BY DEF SessionInv, SessionTypeOK, StopIsAsked, Attached
  <2>3. Reported' /\ Fresh' /\ Known'
    BY DEF SessionInv, Reported, Snapshot, Known, Fresh
  <2>4. OutlivesHosting'
    BY DEF OutlivesHosting
  <2> QED BY <2>1, <2>2, <2>3, <2>4 DEF SessionInv
<1>5. CASE Unreachable
  <2> USE <1>5 DEF Unreachable, Running, Exits, daemon,
                   rynk, popup, causes
  <2>1. Announced' /\ Pressed'
    BY DEF SessionInv, Announced, Pressed
  <2>2. SessionTypeOK' /\ StopIsAsked' /\ Attached'
    BY DEF SessionInv, SessionTypeOK, StopIsAsked, Attached
  <2>3. Reported' /\ Fresh' /\ Known'
    BY DEF SessionInv, Reported, Snapshot, Known, Fresh
  <2>4. OutlivesHosting'
    BY DEF SessionInv, OutlivesHosting, Hosted, Attached
  <2> QED BY <2>1, <2>2, <2>3, <2>4 DEF SessionInv
<1>6. CASE StopAnswered
  <2> USE <1>6 DEF StopAnswered, Running, Exits, daemon,
                   rynk, popup, causes
  <2>1. Announced' /\ Pressed'
    BY DEF SessionInv, Announced, Pressed
  <2>2. SessionTypeOK' /\ StopIsAsked' /\ Attached'
    BY DEF SessionInv, SessionTypeOK, StopIsAsked, Attached
  <2>3. Reported' /\ Fresh' /\ Known'
    BY DEF SessionInv, Reported, Snapshot, Known, Fresh
  <2>4. OutlivesHosting'
    BY DEF OutlivesHosting, Hosted, Over
  <2> QED BY <2>1, <2>2, <2>3, <2>4 DEF SessionInv
<1>7. CASE NoAnswer
  <2> USE <1>7 DEF NoAnswer, Running, Exits, daemon, rynk,
                   popup, causes
  <2>1. Announced' /\ Pressed'
    BY DEF SessionInv, Announced, Pressed
  <2>2. SessionTypeOK' /\ StopIsAsked' /\ Attached'
    BY DEF SessionInv, SessionTypeOK, StopIsAsked, Attached
  <2>3. Reported' /\ Fresh' /\ Known'
    BY DEF SessionInv, Reported, Snapshot, Known, Fresh
  <2>4. OutlivesHosting'
    BY DEF OutlivesHosting
  <2> QED BY <2>1, <2>2, <2>3, <2>4 DEF SessionInv
<1>8. CASE DeployFails
  <2> USE <1>8 DEF DeployFails, Deploys, Running, Exits, daemon, rynk,
                   popup, causes
  <2>1. Announced'
    BY Queues DEF SessionInv, Announced, Fresh
  <2>2. Pressed'
    BY DEF SessionInv, Pressed
  <2>3. SessionTypeOK' /\ StopIsAsked' /\ Attached'
    BY DEF SessionInv, SessionTypeOK, StopIsAsked, Attached
  <2>4. Reported' /\ Fresh' /\ Known'
    BY DEF SessionInv, Reported, Snapshot, Known, Fresh
  <2>5. OutlivesHosting'
    BY DEF OutlivesHosting
  <2> QED BY <2>1, <2>2, <2>3, <2>4, <2>5 DEF SessionInv
<1>9. CASE StopUnanswered
  <2> USE <1>9 DEF StopUnanswered, Running, Exits, daemon, rynk,
                   popup, causes
  <2>1. Announced' /\ Pressed'
    BY DEF SessionInv, Announced, Pressed
  <2>2. SessionTypeOK' /\ StopIsAsked' /\ Attached'
    BY DEF SessionInv, SessionTypeOK, StopIsAsked, Attached
  <2>3. Reported' /\ Fresh' /\ Known'
    BY DEF SessionInv, Reported, Snapshot, Known, Fresh
  <2>4. OutlivesHosting'
    BY DEF OutlivesHosting
  <2> QED BY <2>1, <2>2, <2>3, <2>4 DEF SessionInv
<1> QED BY <1>1, <1>2, <1>3, <1>4, <1>5, <1>6, <1>7, <1>8, <1>9

\* up() of a deployment of its own.
LEMMA UpInv ==
  ASSUME SessionInv,
         \/ WindowSays
         \/ Check
         \/ OnEvent
         \/ Fetched
         \/ Announce
         \/ LeaveHosting
         \/ Finish
  PROVE  SessionInv'
<1>1. CASE WindowSays
  <2> USE <1>1 DEF WindowSays, Running, Chooses, Acts,
                   Unheard, Listening, Exits, daemon, rynk,
                   popup, causes
  <2>0. messages # <<>> => Head(messages) \in (IF asked THEN Message ELSE Message \ {"stop"})
    BY Queues DEF SessionInv, Pressed
  <2>1. Announced'
    BY DEF SessionInv, Announced
  <2>2. Pressed'
    BY Queues DEF SessionInv, Pressed
  <2>3. SessionTypeOK' /\ StopIsAsked' /\ Attached'
    BY <2>0 DEF SessionInv, SessionTypeOK, StopIsAsked, Attached
  <2>4. Reported' /\ Fresh' /\ Known'
    BY DEF SessionInv, Reported, Snapshot, Known, Fresh
  <2>5. OutlivesHosting'
    BY DEF SessionInv, OutlivesHosting, Fresh, Hosted
  <2> QED BY <2>1, <2>2, <2>3, <2>4, <2>5 DEF SessionInv
<1>2. CASE Check
  <2> USE <1>2 DEF Check, Running, Resolves, daemon, rynk,
                   popup, causes
  <2>1. Announced' /\ Pressed'
    BY DEF SessionInv, Announced, Pressed
  <2>2. SessionTypeOK' /\ StopIsAsked' /\ Attached'
    BY DEF SessionInv, SessionTypeOK, StopIsAsked, Attached
  <2>3. Reported' /\ Fresh' /\ Known'
    BY DEF SessionInv, Reported, Snapshot, Known, Fresh, Hosted
  <2>4. OutlivesHosting'
    BY DEF OutlivesHosting
  <2> QED BY <2>1, <2>2, <2>3, <2>4 DEF SessionInv
<1>3. CASE OnEvent
  <2> USE <1>3 DEF OnEvent, Running, OnCompleted, OnFailed,
                   OnStopped, OnClosed, Resolves, daemon, rynk,
                   popup, causes
  <2>0. events # <<>> => Head(events) \in (IF dep \in Over THEN Event ELSE Event \ Ending)
    BY Queues DEF SessionInv, Announced
  <2>1. Announced'
    BY Queues DEF SessionInv, Announced
  <2>2. Pressed'
    BY DEF SessionInv, Pressed
  <2>3. SessionTypeOK' /\ StopIsAsked' /\ Attached'
    BY DEF SessionInv, SessionTypeOK, StopIsAsked, Attached
  <2>4. Reported' /\ Fresh' /\ Known'
    BY <2>0 DEF SessionInv, Reported, Snapshot, Known, Fresh, Ending
  <2>5. OutlivesHosting'
    BY DEF OutlivesHosting
  <2> QED BY <2>1, <2>2, <2>3, <2>4, <2>5 DEF SessionInv
<1>4. CASE Fetched
  <2> USE <1>4 DEF Fetched, Running, Resolves, daemon,
                   rynk, popup, causes
  <2>1. Announced' /\ Pressed'
    BY DEF SessionInv, Announced, Pressed
  <2>2. SessionTypeOK' /\ StopIsAsked' /\ Attached'
    BY DEF SessionInv, SessionTypeOK, StopIsAsked, Attached
  <2>3. Reported' /\ Fresh' /\ Known'
    BY DEF SessionInv, Reported, Snapshot, Known, Fresh, Hosted
  <2>4. OutlivesHosting'
    BY DEF OutlivesHosting
  <2> QED BY <2>1, <2>2, <2>3, <2>4 DEF SessionInv
<1>5. CASE Announce
  <2> USE <1>5 DEF Announce, Running, Exits, daemon, rynk,
                   popup, causes
  <2>1. Announced' /\ Pressed'
    BY DEF SessionInv, Announced, Pressed
  <2>2. SessionTypeOK' /\ StopIsAsked' /\ Attached'
    BY DEF SessionInv, SessionTypeOK, StopIsAsked, Attached
  <2>3. Reported' /\ Fresh' /\ Known'
    BY DEF SessionInv, Reported, Snapshot, Known, Fresh, SessionTypeOK
  <2>4. OutlivesHosting'
    BY DEF OutlivesHosting
  <2> QED BY <2>1, <2>2, <2>3, <2>4 DEF SessionInv
<1>6. CASE LeaveHosting
  <2> USE <1>6 DEF LeaveHosting, Running, Exits, daemon, rynk,
                   popup, causes
  <2>1. Announced' /\ Pressed'
    BY DEF SessionInv, Announced, Pressed
  <2>2. SessionTypeOK' /\ StopIsAsked' /\ Attached'
    BY DEF SessionInv, SessionTypeOK, StopIsAsked, Attached
  <2>3. Reported' /\ Fresh' /\ Known'
    BY DEF SessionInv, Reported, Snapshot, Known, Fresh
  <2>4. OutlivesHosting'
    BY DEF SessionInv, OutlivesHosting, Known, Hosted, Over
  <2> QED BY <2>1, <2>2, <2>3, <2>4 DEF SessionInv
<1>7. CASE Finish
  <2> USE <1>7 DEF Finish, Running, Exits, daemon, rynk,
                   popup, causes
  <2>1. Announced' /\ Pressed'
    BY DEF SessionInv, Announced, Pressed
  <2>2. SessionTypeOK' /\ StopIsAsked' /\ Attached'
    BY DEF SessionInv, SessionTypeOK, StopIsAsked, Attached
  <2>3. Reported' /\ Fresh' /\ Known'
    BY DEF SessionInv, Reported, Snapshot, Known, Fresh
  <2>4. OutlivesHosting'
    BY DEF SessionInv, OutlivesHosting, Known, Hosted, Over
  <2> QED BY <2>1, <2>2, <2>3, <2>4 DEF SessionInv
<1> QED BY <1>1, <1>2, <1>3, <1>4, <1>5, <1>6, <1>7

\* attachExisting(), waitUntilSettled() and a program that waits.
LEMMA AttachInv ==
  ASSUME SessionInv,
         \/ WaitEnds
         \/ Settle
         \/ SettledByEvent
         \/ Read
         \/ Follow
  PROVE  SessionInv'
<1>1. CASE WaitEnds
  <2> USE <1>1 DEF WaitEnds, Running, daemon, rynk, popup, causes
  <2>1. Announced'
    BY Queues DEF SessionInv, Announced
  <2>2. Pressed'
    BY DEF SessionInv, Pressed
  <2>3. SessionTypeOK' /\ StopIsAsked' /\ Attached'
    BY DEF SessionInv, SessionTypeOK, StopIsAsked, Attached
  <2>4. Reported' /\ Fresh' /\ Known'
    BY DEF SessionInv, Reported, Snapshot, Known, Fresh
  <2>5. OutlivesHosting'
    BY DEF SessionInv, OutlivesHosting, Attached
  <2> QED BY <2>1, <2>2, <2>3, <2>4, <2>5 DEF SessionInv
<1>2. CASE Settle
  <2> USE <1>2 DEF Settle, Running, Settled, daemon, rynk,
                   popup, causes
  <2>1. Announced' /\ Pressed'
    BY DEF SessionInv, Announced, Pressed
  <2>2. SessionTypeOK' /\ StopIsAsked' /\ Attached'
    BY DEF SessionInv, SessionTypeOK, StopIsAsked, Attached
  <2>3. Reported' /\ Fresh' /\ Known'
    BY DEF SessionInv, Reported, Snapshot, Known, Fresh
  <2>4. OutlivesHosting'
    BY DEF OutlivesHosting
  <2> QED BY <2>1, <2>2, <2>3, <2>4 DEF SessionInv
<1>3. CASE SettledByEvent
  <2> USE <1>3 DEF SettledByEvent, Running, daemon, rynk,
                   popup, causes
  <2>1. Announced'
    <3>1. events' \in {Tail(events), <<>>} /\ dep' = dep
      OBVIOUS
    <3>2. \A S : events \in Seq(S) => events' \in Seq(S)
      BY <3>1, Queues
    <3> QED BY <3>1, <3>2 DEF SessionInv, Announced
  <2>2. Pressed'
    BY DEF SessionInv, Pressed
  <2>3. SessionTypeOK' /\ StopIsAsked' /\ Attached'
    BY DEF SessionInv, SessionTypeOK, StopIsAsked, Attached
  <2>4. Reported' /\ Fresh' /\ Known'
    BY DEF SessionInv, Reported, Snapshot, Known, Fresh
  <2>5. OutlivesHosting'
    BY DEF OutlivesHosting
  <2> QED BY <2>1, <2>2, <2>3, <2>4, <2>5 DEF SessionInv
<1>4. CASE Read
  <2> USE <1>4 DEF Read, Running, Exits, daemon, rynk,
                   popup, causes
  <2>1. Announced'
    BY Queues DEF Announced
  <2>2. Pressed'
    BY DEF SessionInv, Pressed
  <2>3. SessionTypeOK' /\ StopIsAsked' /\ Attached'
    BY DEF SessionInv, SessionTypeOK, StopIsAsked, Attached
  <2>4. Reported' /\ Fresh' /\ Known'
    BY DEF SessionInv, Reported, Snapshot, Known, Fresh
  <2>5. OutlivesHosting'
    BY DEF SessionInv, OutlivesHosting, Attached
  <2> QED BY <2>1, <2>2, <2>3, <2>4, <2>5 DEF SessionInv
<1>5. CASE Follow
  <2> USE <1>5 DEF Follow, Running, daemon, rynk, popup, causes
  <2>1. Announced'
    BY Queues DEF SessionInv, Announced
  <2>2. Pressed'
    BY DEF SessionInv, Pressed
  <2>3. SessionTypeOK' /\ StopIsAsked' /\ Attached'
    BY DEF SessionInv, SessionTypeOK, StopIsAsked, Attached
  <2>4. Reported' /\ Fresh' /\ Known'
    BY DEF SessionInv, Reported, Snapshot, Known, Fresh
  <2>5. OutlivesHosting'
    BY DEF SessionInv, OutlivesHosting, Attached
  <2> QED BY <2>1, <2>2, <2>3, <2>4, <2>5 DEF SessionInv
<1> QED BY <1>1, <1>2, <1>3, <1>4, <1>5

\* The daemon.
LEMMA SessionDaemonInv ==
  ASSUME SessionInv,
         \/ GoesLive
         \/ Fails
         \/ Restarts
         \/ StoppedByOther
         \/ StopArrives
         \/ LeaseEnds
         \/ DaemonDies
  PROVE  SessionInv'
<1> USE DEF Hosted, Event, Ending
<1>1. CASE GoesLive
  BY <1>1, BecomesInv DEF GoesLive, SessionInv, StopIsAsked
<1>2. CASE Fails
  BY <1>2, BecomesInv DEF Fails, SessionInv, StopIsAsked
<1>3. CASE Restarts
  BY <1>3, BecomesInv DEF Restarts, SessionInv, StopIsAsked
<1>4. CASE StoppedByOther
  BY <1>4, BecomesInv DEF StoppedByOther, StoppedBy
<1>5. CASE StopArrives
  BY <1>5, BecomesInv DEF StopArrives, StoppedBy, SessionInv, StopIsAsked
<1>6. CASE LeaseEnds
  <2>1. lapsed' \/ asked \/ signalled
    BY <1>6 DEF LeaseEnds, StoppedBy, Becomes, SessionInv, OutlivesHosting, Hosted
  <2>2. StoppedBy("cli") /\ (lapsed => lapsed')
    BY <1>6 DEF LeaseEnds
  <2> QED BY <2>1, <2>2, BecomesInv DEF StoppedBy
<1>7. CASE DaemonDies
  <2> USE <1>7 DEF DaemonDies, Over, rynk, popup, causes
  <2>1. events \in Seq(Event) /\ "closed" \in Event
    BY Queues DEF SessionInv, Announced
  <2>2. Announced'
    BY <2>1, Queues DEF Announced
  <2>3. Pressed' /\ SessionTypeOK' /\ StopIsAsked' /\ Attached'
    BY DEF SessionInv, Pressed, SessionTypeOK, StopIsAsked, Attached
  <2>4. Reported' /\ Fresh' /\ Known' /\ OutlivesHosting'
    BY DEF SessionInv, Reported, Snapshot, Fresh, Known, OutlivesHosting
  <2> QED BY <2>2, <2>3, <2>4 DEF SessionInv
<1> QED BY <1>1, <1>2, <1>3, <1>4, <1>5, <1>6, <1>7

\* Every step of the user, the command line, the window and the daemon keeps it.
LEMMA SessionSteps == SessionInv /\ [SessionNext]_sessionVars => SessionInv'
<1> SUFFICES ASSUME SessionInv, [SessionNext]_sessionVars PROVE SessionInv'
  OBVIOUS
<1>1. CASE SessionNext
  BY <1>1, UserInv, RequestInv, UpInv, AttachInv, SessionDaemonInv DEF SessionNext
<1>2. CASE UNCHANGED sessionVars
  BY <1>2 DEF sessionVars, daemon, rynk, popup, causes, SessionInv,
              SessionTypeOK, Announced, Pressed, Reported, Snapshot, StopIsAsked, Fresh,
              Attached, Known, OutlivesHosting
<1> QED BY <1>1, <1>2

-----------------------------------------------------------------------------
\* For every number of restarts: an end is announced and read after it has come, what up() acts
\* upon is one or a request that has failed, and a stop is sent when the user or a signal asked.
THEOREM SessionInductive == SessionSpec => []SessionInv
BY SessionStarts, SessionSteps, PTL DEF SessionSpec

\* Closing the window stops nothing: a deployment ends by this CLI when its user or a signal
\* asked for it, or when a request failed although the daemon lives.
THEOREM SessionClosingNeverStops == SessionSpec => []ClosingNeverStops
<1>1. SessionInv => ClosingNeverStops
  BY DEF SessionInv, StopIsAsked, ClosingNeverStops
<1> QED BY <1>1, SessionInductive, PTL

\* A `rynk` that hosts in the foreground ends with what it hosts, because its user or a signal
\* asked for it, or by a request that failed.
THEOREM SessionOutlivesHosting == SessionSpec => []OutlivesHosting
<1>1. SessionInv => OutlivesHosting
  BY DEF SessionInv
<1> QED BY <1>1, SessionInductive, PTL

-----------------------------------------------------------------------------
(* ProjectPlan: layers                                                     *)

\* The fields of a layer above another, ...
LEMMA Merged ==
  ASSUME NEW f, NEW g, NEW x
  PROVE  \A d : Get((f @@ g), x, d) = Get(f, x, Get(g, x, d))
<1> DEFINE m == Merge(f, g)
<1>1. /\ DOMAIN m = DOMAIN f \cup DOMAIN g
      /\ x \in DOMAIN f \cup DOMAIN g => m[x] = IF x \in DOMAIN f THEN f[x] ELSE g[x]
  BY DEF Merge
<1>2. (f @@ g) = m
  BY DEF @@
<1> HIDE DEF m
<1> QED BY <1>1, <1>2 DEF Has, Get

\* ... of one with some of the fields of another, ...
LEMMA Some ==
  ASSUME NEW f, NEW S, NEW x
  PROVE  \A d : Get(Only(f, S), x, d) = IF x \in S THEN Get(f, x, d) ELSE d
BY DEF Only, Restrict, Has, Get

\* ... and whether they have one.
LEMMA Present ==
  ASSUME NEW f, NEW x
  PROVE  /\ Has(f, x) => \A d : Get(f, x, d) = f[x]
         /\ ~Has(f, x) <=> \A d : Get(f, x, d) = d
         /\ \A g : (\A d : Get(f, x, d) = Get(g, x, d)) =>
              /\ Has(f, x) <=> Has(g, x)
              /\ Has(f, x) => f[x] = g[x]
         /\ \A v : (\A d : Get(f, x, d) = v) => Has(f, x)
<1>1. \A g : /\ Has(g, x) => \A d : Get(g, x, d) = g[x]
             /\ ~Has(g, x) => \A d : Get(g, x, d) = d
  BY DEF Get
<1>2. Has(f, x) => \A d : Get(f, x, d) = f[x]
  BY DEF Get
<1>3. ~Has(f, x) => \A d : Get(f, x, d) = d
  BY DEF Get
<1>4. ASSUME NEW v, \A d : Get(f, x, d) = v
      PROVE  Has(f, x)
  <2>1. Get(f, x, 0) = Get(f, x, 1)
    BY <1>4
  <2> QED BY <2>1, <1>3
<1>5. ASSUME NEW g, \A d : Get(f, x, d) = Get(g, x, d)
      PROVE  /\ Has(f, x) <=> Has(g, x)
             /\ Has(f, x) => f[x] = g[x]
  <2>1. Get(f, x, 0) = Get(g, x, 0) /\ Get(f, x, 1) = Get(g, x, 1)
    BY <1>5
  <2> QED BY <2>1, <1>1, <1>2, <1>3
<1>6. (\A d : Get(f, x, d) = d) => ~Has(f, x)
  <2> SUFFICES ASSUME \A d : Get(f, x, d) = d, Has(f, x) PROVE FALSE
    OBVIOUS
  <2>1. f[x] = 0 /\ f[x] = 1
    BY <1>2
  <2> QED BY <2>1
<1> QED BY <1>2, <1>3, <1>4, <1>5, <1>6

\* Literals that the provers take better by name.
Off == FALSE
On == TRUE

\* The exposure that is sent, and the access that a request asks for.
Lowered(s) == IF s.exposure = "public" THEN "lan" ELSE s.exposure
Mode(r) == IF Get(r, "protected", FALSE) THEN "protected" ELSE "open"

\* What the flags make of a request, field by field: the layers of buildRequest().
LEMMA Built ==
  ASSUME NEW o
  PROVE  LET q == BuildRequest(o)
         IN  /\ \A x \in {"command", "port", "runtime", "name", "network", "maxUsers", "public",
                         "protected"} :
                  \A d : Get(q, x, d) = Get(o, x, d)
             /\ \A d : Get(q, "host", d) =
                    IF Get(o, "host", "auto") # "auto" THEN "flag" ELSE d
             /\ \A d : Get(q, "exposure", d) =
                    IF Has(o, "local") THEN "local"
                    ELSE IF Has(o, "lan") \/ Has(o, "public") THEN "lan" ELSE d
             /\ \A d : Get(q, "advertise", d) = IF Has(o, "no-advertise") THEN Off ELSE d
             /\ \A d : Get(q, "restart", d) = IF Has(o, "no-restart") THEN "never" ELSE d
             /\ \A d : Get(q, "healthCheck", d) = IF Has(o, "no-health-check") THEN Off ELSE d
<1> DEFINE q == BuildRequest(o)
           l1 == Only(o, {"command", "port", "runtime", "name", "network", "maxUsers",
                               "public", "protected"})
           l2 == Given(Get(o, "host", "auto") # "auto", "host", "flag")
           l3 == Given(Has(o, "local"), "exposure", "local")
           l4 == Given(Has(o, "lan") \/ Has(o, "public"), "exposure", "lan")
           l5 == Given(Has(o, "no-advertise"), "advertise", FALSE)
           l6 == Given(Has(o, "no-restart"), "restart", "never")
           l7 == Given(Has(o, "no-health-check"), "healthCheck", FALSE)
<1>1. \A x, d : Get(l1, x, d) =
        IF x \in {"command", "port", "runtime", "name", "network", "maxUsers", "public", "protected"}
        THEN Get(o, x, d) ELSE d
  BY Some
<1>2. \A x, d : Get(l2, x, d) =
        IF x = "host" /\ Get(o, "host", "auto") # "auto" THEN "flag" ELSE d
  BY DEF Given, Get, Has
<1>3. \A x, d : Get(l3, x, d) = IF x = "exposure" /\ Has(o, "local") THEN "local" ELSE d
  BY DEF Given, Get, Has
<1>4. \A x, d : Get(l4, x, d) =
        IF x = "exposure" /\ (Has(o, "lan") \/ Has(o, "public")) THEN "lan" ELSE d
  BY DEF Given, Get, Has
<1>5. \A x, d : Get(l5, x, d) = IF x = "advertise" /\ Has(o, "no-advertise") THEN Off ELSE d
  BY DEF Given, Get, Has, Off
<1>6. \A x, d : Get(l6, x, d) = IF x = "restart" /\ Has(o, "no-restart") THEN "never" ELSE d
  BY DEF Given, Get, Has
<1>7. \A x, d : Get(l7, x, d) =
        IF x = "healthCheck" /\ Has(o, "no-health-check") THEN Off ELSE d
  BY DEF Given, Get, Has, Off
<1> DEFINE all == l1 @@ l2 @@ l3 @@ l4 @@ l5 @@ l6 @@ l7
<1>8. q = all
  BY DEF BuildRequest
<1> HIDE DEF q, l1, l2, l3, l4, l5, l6, l7
<1>9. \A x, d : Get(all, x, d) =
        Get(l1, x, Get(l2, x, Get(l3, x, Get(l4, x, Get(l5, x, Get(l6, x,
        Get(l7, x, d)))))))
  BY Merged
<1> HIDE DEF all
<1>10. \A x \in {"command", "port", "runtime", "name", "network", "maxUsers", "public", "protected"} :
         \A d : Get(q, x, d) = Get(o, x, d)
  BY <1>1, <1>2, <1>3, <1>4, <1>5, <1>6, <1>7, <1>8, <1>9
<1>11. \A d : Get(q, "host", d) = IF Get(o, "host", "auto") # "auto" THEN "flag" ELSE d
  BY <1>1, <1>2, <1>3, <1>4, <1>5, <1>6, <1>7, <1>8, <1>9
<1>12. \A d : Get(q, "exposure", d) =
           IF Has(o, "local") THEN "local"
           ELSE IF Has(o, "lan") \/ Has(o, "public") THEN "lan" ELSE d
  BY <1>1, <1>2, <1>3, <1>4, <1>5, <1>6, <1>7, <1>8, <1>9
<1>13. \A d : Get(q, "advertise", d) = IF Has(o, "no-advertise") THEN Off ELSE d
  BY <1>1, <1>2, <1>3, <1>4, <1>5, <1>6, <1>7, <1>8, <1>9
<1>14. \A d : Get(q, "restart", d) = IF Has(o, "no-restart") THEN "never" ELSE d
  BY <1>1, <1>2, <1>3, <1>4, <1>5, <1>6, <1>7, <1>8, <1>9
<1>15. \A d : Get(q, "healthCheck", d) = IF Has(o, "no-health-check") THEN Off ELSE d
  BY <1>1, <1>2, <1>3, <1>4, <1>5, <1>6, <1>7, <1>8, <1>9
<1> HIDE DEF q
<1> QED BY <1>10, <1>11, <1>12, <1>13, <1>14, <1>15 DEF q

\* What a request overrides: cliOverrides().
LEMMA Overridden ==
  ASSUME NEW r
  PROVE  LET q == CliOverrides(r)
         IN  /\ \A x \in {"name", "runtime", "command", "port", "host", "exposure", "maxUsers",
                         "advertise", "healthCheck"} :
                  \A d : Get(q, x, d) = Get(r, x, d)
             /\ \A d : Get(q, "mode", d) = IF Has(r, "protected") THEN Mode(r) ELSE d
             /\ \A d : Get(q, "restart", d) = Get(r, "restart", d)
<1> DEFINE q == CliOverrides(r)
           l1 == Only(r, {"name", "runtime", "command", "port", "host", "exposure",
                               "maxUsers", "advertise", "healthCheck"})
           l2 == Given(Has(r, "protected"), "mode", Mode(r))
           l3 == Given(Has(r, "restart"), "restart",
                               Get(r, "restart", Absent))
<1>1. \A x, d : Get(l1, x, d) =
        IF x \in {"name", "runtime", "command", "port", "host", "exposure", "maxUsers", "advertise",
                 "healthCheck"}
        THEN Get(r, x, d) ELSE d
  BY Some
<1>2. \A x, d : Get(l2, x, d) = IF x = "mode" /\ Has(r, "protected") THEN Mode(r) ELSE d
  BY DEF Given, Get, Has
<1>3. \A x, d : Get(l3, x, d) = IF x = "restart" THEN Get(r, "restart", d) ELSE d
  BY DEF Given, Get, Has
<1> DEFINE all == l1 @@ l2 @@ l3
<1>4. q = all
  BY DEF CliOverrides, Mode
<1> HIDE DEF q, l1, l2, l3
<1>5. \A x, d : Get(all, x, d) =
        Get(l1, x, Get(l2, x, Get(l3, x, d)))
  BY Merged
<1> HIDE DEF all
<1>6. \A x \in {"name", "runtime", "command", "port", "host", "exposure", "maxUsers", "advertise",
               "healthCheck"} :
        \A d : Get(q, x, d) = Get(r, x, d)
  BY <1>1, <1>2, <1>3, <1>4, <1>5
<1>7. \A d : Get(q, "mode", d) = IF Has(r, "protected") THEN Mode(r) ELSE d
  BY <1>1, <1>2, <1>3, <1>4, <1>5
<1>8. \A d : Get(q, "restart", d) = Get(r, "restart", d)
  BY <1>1, <1>2, <1>3, <1>4, <1>5
<1> HIDE DEF q
<1> QED BY <1>6, <1>7, <1>8 DEF q

\* What the form's settings make of a request: applySettings().
LEMMA Applied ==
  ASSUME NEW r, NEW s, NEW init
  PROVE  LET q == ApplySettings(r, s, init)
         IN  /\ \A d : Get(q, "name", d) =
                    IF s.name \notin {Absent, init.name} THEN s.name ELSE Get(r, "name", d)
             /\ \A d : Get(q, "command", d) =
                    IF s.command # Absent /\ (s.command # init.command \/ s.runtime = "custom")
                    THEN s.command ELSE Get(r, "command", d)
             /\ \A d : Get(q, "runtime", d) =
                    IF s.runtime # "auto" THEN s.runtime ELSE Get(r, "runtime", d)
             /\ \A d : Get(q, "port", d) = IF s.port # 0 THEN s.port ELSE Get(r, "port", d)
             /\ \A d : Get(q, "host", d) =
                    IF s.host # "auto" THEN s.host ELSE Get(r, "host", d)
             /\ \A d : Get(q, "exposure", d) = Lowered(s)
             /\ \A d : Get(q, "public", d) =
                    IF s.exposure = "public" THEN On ELSE Get(r, "public", d)
             /\ \A d : Get(q, "maxUsers", d) = s.maxUsers
             /\ \A d : Get(q, "protected", d) = s.protected
             /\ \A d : Get(q, "advertise", d) = s.advertise
             /\ \A d : Get(q, "restart", d) =
                    IF ~s.autoRestart THEN "never" ELSE Get(r, "restart", d)
             /\ \A d : Get(q, "healthCheck", d) =
                    IF ~s.healthCheck THEN Off ELSE Get(r, "healthCheck", d)
<1> DEFINE q == ApplySettings(r, s, init)
           l1 == Given(s.name \notin {Absent, init.name}, "name", s.name)
           l2 == Given(s.command # Absent
                                 /\ (s.command # init.command \/ s.runtime = "custom"),
                               "command", s.command)
           l3 == Given(s.runtime # "auto", "runtime", s.runtime)
           l4 == Given(s.port # 0, "port", s.port)
           l5 == Given(s.host # "auto", "host", s.host)
           l6 == "network" :> s.network
           l7 == "exposure" :> Lowered(s)
           l8 == Given(s.exposure = "public", "public", TRUE)
           l9 == [maxUsers |-> s.maxUsers, protected |-> s.protected, advertise |-> s.advertise]
           l10 == Given(~s.autoRestart, "restart", "never")
           l11 == Given(~s.healthCheck, "healthCheck", FALSE)
<1>1. \A x, d : Get(l1, x, d) =
        IF x = "name" /\ s.name \notin {Absent, init.name} THEN s.name ELSE d
  BY DEF Given, Get, Has
<1>2. \A x, d : Get(l2, x, d) =
        IF x = "command" /\ s.command # Absent
             /\ (s.command # init.command \/ s.runtime = "custom")
        THEN s.command ELSE d
  BY DEF Given, Get, Has
<1>3. \A x, d : Get(l3, x, d) = IF x = "runtime" /\ s.runtime # "auto" THEN s.runtime ELSE d
  BY DEF Given, Get, Has
<1>4. \A x, d : Get(l4, x, d) = IF x = "port" /\ s.port # 0 THEN s.port ELSE d
  BY DEF Given, Get, Has
<1>5. \A x, d : Get(l5, x, d) = IF x = "host" /\ s.host # "auto" THEN s.host ELSE d
  BY DEF Given, Get, Has
<1>6. \A x, d : Get(l6, x, d) = IF x = "network" THEN s.network ELSE d
  BY DEF :>, Get, Has
<1>7. \A x, d : Get(l7, x, d) = IF x = "exposure" THEN Lowered(s) ELSE d
  BY DEF :>, Get, Has
<1>8. \A x, d : Get(l8, x, d) = IF x = "public" /\ s.exposure = "public" THEN On ELSE d
  BY DEF Given, Get, Has, On
<1>9. \A x, d : Get(l9, x, d) =
        IF x = "maxUsers" THEN s.maxUsers ELSE IF x = "protected" THEN s.protected
        ELSE IF x = "advertise" THEN s.advertise ELSE d
  BY DEF Get, Has
<1>10. \A x, d : Get(l10, x, d) = IF x = "restart" /\ ~s.autoRestart THEN "never" ELSE d
  BY DEF Given, Get, Has
<1>11. \A x, d : Get(l11, x, d) = IF x = "healthCheck" /\ ~s.healthCheck THEN Off ELSE d
  BY DEF Given, Get, Has, Off
<1> DEFINE all == l1 @@ l2 @@ l3 @@ l4 @@ l5 @@ l6 @@ l7 @@ l8 @@ l9 @@ l10 @@ l11 @@ r
<1>12. q = all
  BY DEF ApplySettings, Lowered
<1> HIDE DEF q, l1, l2, l3, l4, l5, l6, l7, l8, l9, l10, l11
<1>13. \A x, d : Get(all, x, d) =
        Get(l1, x, Get(l2, x, Get(l3, x, Get(l4, x, Get(l5, x, Get(l6, x,
        Get(l7, x, Get(l8, x, Get(l9, x, Get(l10, x, Get(l11, x,
        Get(r, x, d))))))))))))
  BY Merged
<1> HIDE DEF all
<1>14. \A d : Get(q, "name", d) =
           IF s.name \notin {Absent, init.name} THEN s.name ELSE Get(r, "name", d)
  BY <1>1, <1>2, <1>3, <1>4, <1>5, <1>6, <1>7, <1>8, <1>9, <1>10, <1>11, <1>12, <1>13
<1>15. \A d : Get(q, "command", d) =
           IF s.command # Absent /\ (s.command # init.command \/ s.runtime = "custom")
           THEN s.command ELSE Get(r, "command", d)
  BY <1>1, <1>2, <1>3, <1>4, <1>5, <1>6, <1>7, <1>8, <1>9, <1>10, <1>11, <1>12, <1>13
<1>16. \A d : Get(q, "runtime", d) =
           IF s.runtime # "auto" THEN s.runtime ELSE Get(r, "runtime", d)
  BY <1>1, <1>2, <1>3, <1>4, <1>5, <1>6, <1>7, <1>8, <1>9, <1>10, <1>11, <1>12, <1>13
<1>17. \A d : Get(q, "port", d) = IF s.port # 0 THEN s.port ELSE Get(r, "port", d)
  BY <1>1, <1>2, <1>3, <1>4, <1>5, <1>6, <1>7, <1>8, <1>9, <1>10, <1>11, <1>12, <1>13
<1>18. \A d : Get(q, "host", d) = IF s.host # "auto" THEN s.host ELSE Get(r, "host", d)
  BY <1>1, <1>2, <1>3, <1>4, <1>5, <1>6, <1>7, <1>8, <1>9, <1>10, <1>11, <1>12, <1>13
<1>19. \A d : Get(q, "exposure", d) = Lowered(s)
  BY <1>1, <1>2, <1>3, <1>4, <1>5, <1>6, <1>7, <1>8, <1>9, <1>10, <1>11, <1>12, <1>13
<1>20. \A d : Get(q, "public", d) = IF s.exposure = "public" THEN On ELSE Get(r, "public", d)
  BY <1>1, <1>2, <1>3, <1>4, <1>5, <1>6, <1>7, <1>8, <1>9, <1>10, <1>11, <1>12, <1>13
<1>21. \A d : Get(q, "maxUsers", d) = s.maxUsers
  BY <1>1, <1>2, <1>3, <1>4, <1>5, <1>6, <1>7, <1>8, <1>9, <1>10, <1>11, <1>12, <1>13
<1>22. \A d : Get(q, "protected", d) = s.protected
  BY <1>1, <1>2, <1>3, <1>4, <1>5, <1>6, <1>7, <1>8, <1>9, <1>10, <1>11, <1>12, <1>13
<1>23. \A d : Get(q, "advertise", d) = s.advertise
  BY <1>1, <1>2, <1>3, <1>4, <1>5, <1>6, <1>7, <1>8, <1>9, <1>10, <1>11, <1>12, <1>13
<1>24. \A d : Get(q, "restart", d) = IF ~s.autoRestart THEN "never" ELSE Get(r, "restart", d)
  BY <1>1, <1>2, <1>3, <1>4, <1>5, <1>6, <1>7, <1>8, <1>9, <1>10, <1>11, <1>12, <1>13
<1>25. \A d : Get(q, "healthCheck", d) =
           IF ~s.healthCheck THEN Off ELSE Get(r, "healthCheck", d)
  BY <1>1, <1>2, <1>3, <1>4, <1>5, <1>6, <1>7, <1>8, <1>9, <1>10, <1>11, <1>12, <1>13
<1> HIDE DEF q
<1> QED BY <1>14, <1>15, <1>16, <1>17, <1>18, <1>19, <1>20, <1>21, <1>22, <1>23, <1>24, <1>25 DEF q

-----------------------------------------------------------------------------
(* The plan of a request: resolveProject(), field by field                 *)

Layers(r) == CliOverrides(r) @@ yaml
Detected(r) == Best(files, Preferred(r))
RunsOn(r) == RuntimeOf(CliOverrides(r), yaml, Detected(r))
StartOf(r) ==
  IF Has(Layers(r), "command") THEN Layers(r).command
  ELSE LET found == {d \in Detected(r) : d.start # Absent}
       IN  IF found = {} THEN Absent ELSE (CHOOSE d \in found : TRUE).start
ExposureOf(r) == Get(Layers(r), "exposure", "lan")
HostOf(r) ==
  Get(Layers(r), "host", IF ExposureOf(r) = "local" THEN "127.0.0.1" ELSE "0.0.0.0")
HealthOf(r) ==
  IF ~Get(CliOverrides(r), "healthCheck", TRUE) THEN "process"
  ELSE Get(yaml, "health", "http")
PortOf(r) == IF Detected(r) = {} THEN 0 ELSE (CHOOSE d \in Detected(r) : TRUE).port
Controls(r) == ~Has(Layers(r), "command") /\ \E d \in Detected(r) : d.controllable
NameOf(r) == Get(Layers(r), "name", IF named THEN "package" ELSE "folder")
AdvertiseOf(r) == Get(Layers(r), "advertise", ExposureOf(r) # "local")

\* A request comes before rynk.yaml.
LEMMA Layered ==
  ASSUME NEW r
  PROVE  /\ \A x \in {"name", "runtime", "command", "port", "host", "exposure", "maxUsers",
                     "advertise"} :
              \A d : Get(Layers(r), x, d) = Get(r, x, Get(yaml, x, d))
         /\ \A d : Get(Layers(r), "mode", d) =
              IF Has(r, "protected") THEN Mode(r) ELSE Get(yaml, "mode", d)
         /\ \A d : Get(Layers(r), "restart", d) = Get(r, "restart", Get(yaml, "restart", d))
BY Merged, Overridden DEF Layers

\* What a request resolves to, where it resolves to a project, ...
Record(r) ==
  [name |-> NameOf(r), runtime |-> RunsOn(r), start |-> StartOf(r), exposure |-> ExposureOf(r),
   port |-> Get(Layers(r), "port", 0), host |-> HostOf(r), defaultPort |-> PortOf(r),
   controllable |-> Controls(r), health |-> HealthOf(r),
   restart |-> Get(Layers(r), "restart", "on-failure"),
   mode |-> Get(Layers(r), "mode", "open"),
   maxUsers |-> Get(Layers(r), "maxUsers", 0), advertise |-> AdvertiseOf(r)]

\* ... which is unless rynk.yaml is refused or there is nothing to start.
LEMMA Planned ==
  ASSUME NEW r
  PROVE  Plan(r) =
           IF ConfigInvalid(yaml) THEN Failure("CONFIG_INVALID")
           ELSE IF StartOf(r) = Absent /\ RunsOn(r) \notin RunsWithoutCommand
           THEN Failure("DETECTION_FAILED")
           ELSE Record(r)
BY DEF Plan, Resolve, Record, NameOf, RunsOn, StartOf, ExposureOf, HostOf, PortOf,
       Controls, HealthOf, AdvertiseOf, Layers, Detected

\* A project is no failure.
LEMMA NoFailure ==
  ASSUME NEW r
  PROVE  /\ ~Failed(Record(r))
         /\ \A c : Failed(Failure(c))
BY DEF Failed, Failure, Has, Record, :>

\* What is started, and how, depends on a request by its runtime and its command alone.
LEMMA Same ==
  ASSUME NEW r, NEW q, \A x \in {"runtime", "command"} : \A d : Get(r, x, d) = Get(q, x, d)
  PROVE  /\ Detected(r) = Detected(q)
         /\ RunsOn(r) = RunsOn(q)
         /\ StartOf(r) = StartOf(q)
         /\ PortOf(r) = PortOf(q)
         /\ Controls(r) = Controls(q)
<1>1. Preferred(r) = Preferred(q)
  <2>1. /\ Get(r, "runtime", "auto") = Get(q, "runtime", "auto")
        /\ Has(r, "runtime") <=> Has(q, "runtime")
        /\ Has(r, "runtime") => r["runtime"] = q["runtime"]
    BY Present
  <2>2. ~Has(r, "runtime") => Get(r, "runtime", "auto") = "auto"
    BY Present
  <2> QED BY <2>1, <2>2 DEF Preferred
<1>2. Detected(r) = Detected(q) /\ PortOf(r) = PortOf(q)
  BY <1>1 DEF Detected, PortOf
<1>3. /\ Get(Layers(r), "runtime", "auto") = Get(Layers(q), "runtime", "auto")
      /\ Has(Layers(r), "command") <=> Has(Layers(q), "command")
      /\ Has(Layers(r), "command") => Layers(r)["command"] = Layers(q)["command"]
  <2>1. \A x \in {"runtime", "command"} : \A d : Get(Layers(r), x, d) = Get(Layers(q), x, d)
    BY Layered
  <2> QED BY <2>1, Present
<1>4. StartOf(r) = StartOf(q)
  BY <1>2, <1>3 DEF StartOf
<1>5. Controls(r) = Controls(q)
  BY <1>2, <1>3 DEF Controls
<1>6. RunsOn(r) = RunsOn(q)
  BY <1>2, <1>3 DEF RunsOn, RuntimeOf, Layers
<1> QED BY <1>2, <1>4, <1>5, <1>6

-----------------------------------------------------------------------------
(* The invariant of the plan                                               *)

\* The request that the flags make.
Flagged == BuildRequest(flags)

\* What has been sent is what the flags say, or that and the form as it was confirmed.
Sent ==
  /\ stage \in {"asking", "deploying", "hosting", "failed"} =>
       IF chosen = Nothing THEN request = Flagged
       ELSE /\ form = PopupInit(Plan(PlanQuery(Flagged)), Flagged)
            /\ PopupSettings(chosen)
            /\ request = ApplySettings(Flagged, chosen, form)

\* The popup shows what would be hosted.
Shows == stage = "asking" => form = PopupInit(Plan(PlanQuery(Flagged)), Flagged)

\* The settings are the answer to the form.
Unasked == stage \in {"invoked", "asking"} => chosen = Nothing

\* What is hosted, or why nothing is, is the plan of what has been sent.
Resolved ==
  IF stage \in {"hosting", "failed"}
  THEN project = Plan(request) /\ (stage = "failed" <=> Failed(project))
  ELSE project = Nothing

\* Where a command is given, it is one.
Inputs == Get(flags, "command", "some") # Absent /\ Schema(yaml)


PlanInv == Inputs /\ Unasked /\ Shows /\ Sent /\ Resolved

\* Before the flags are read there is nothing else.
LEMMA PlanStarts == PlanInit => PlanInv
BY DEF PlanInit, Invoked, PlanInv, Inputs, Unasked, Shows, Sent, Resolved

\* A plan is a function of what nobody changes.
LEMMA InputsStay == ASSUME UNCHANGED <<files, named, flags, yaml>>
  PROVE  /\ Flagged' = Flagged
         /\ \A r : Plan(r)' = Plan(r)
         /\ Inputs' = Inputs
BY DEF Flagged, Plan, Resolve, Inputs

\* Nobody changes what has been sent.
LEMMA PlanSteps == PlanInv /\ [PlanNext]_planVars => PlanInv'
<1> SUFFICES ASSUME PlanInv, [PlanNext]_planVars PROVE PlanInv'
  OBVIOUS
<1>1. CASE Refuse
  BY <1>1, InputsStay DEF Refuse, PlanInv, Unasked, Shows, Sent, Resolved
<1>2. CASE Ask
  BY <1>2, InputsStay DEF Ask, PlanInv, Unasked, Shows, Sent, Resolved, Flagged
<1>3. CASE AskNothing
  BY <1>3, InputsStay DEF AskNothing, PlanInv, Unasked, Shows, Sent, Resolved, Flagged
<1>4. CASE Cancel
  BY <1>4, InputsStay DEF Cancel, PlanInv, Unasked, Shows, Sent, Resolved
<1>5. CASE HostProject
  BY <1>5, InputsStay DEF HostProject, PlanInv, Unasked, Shows, Sent, Resolved, PopupSettings
<1>6. ASSUME NEW s, Confirm(s)
      PROVE  PlanInv'
  <2> USE <1>6 DEF Confirm
  <2>1. form = PopupInit(Plan(PlanQuery(Flagged)), Flagged) /\ request = Flagged
    BY DEF PlanInv, Unasked, Shows, Sent
  <2>2. Has(s, "name")
    BY <2>1 DEF PopupInit, PopupSettings, Has
  <2>3. s # Nothing
    BY <2>2 DEF Has, Nothing
  <2>4. Sent'
    BY <2>1, <2>3, InputsStay DEF Sent, PopupSettings
  <2> QED BY <2>4, InputsStay DEF PlanInv, Unasked, Shows, Resolved
<1>7. CASE UNCHANGED planVars
  BY <1>7, InputsStay DEF planVars, PlanInv, Unasked, Shows, Sent, Resolved, PopupSettings
<1> QED BY <1>1, <1>2, <1>3, <1>4, <1>5, <1>6, <1>7 DEF PlanNext

-----------------------------------------------------------------------------
(* The popup                                                               *)

\* The fields that the popup asks its plan for.
LEMMA AskedFor ==
  ASSUME NEW r
  PROVE  \A x, d : Get(PlanQuery(r), x, d) =
           IF x \in {"runtime", "command", "port", "name", "network"} THEN Get(r, x, d) ELSE d
BY Some DEF PlanQuery

\* The form has no runtime, and no command but the one that the plan would start.
LEMMA FormShows ==
  ASSUME NEW r, NEW f, f = PopupInit(Plan(PlanQuery(r)), r)
  PROVE  /\ f.runtime = "auto"
         /\ f.command # Absent => f.command = StartOf(PlanQuery(r))
<1> DEFINE a == PlanQuery(r)
<1>1. f.runtime = "auto" /\ (Failed(Plan(a)) => f.command = Absent)
  BY DEF PopupInit
<1>2. ~Failed(Plan(a)) => f.command = Plan(a).start
  BY DEF PopupInit
<1>3. ~Failed(Plan(a)) => Plan(a) = Record(a)
  BY Planned, NoFailure
<1>4. Record(a).start = StartOf(a)
  BY DEF Record
<1> QED BY <1>1, <1>2, <1>3, <1>4

\* Each of the settings is above the request, and that above rynk.yaml.
LEMMA Obeyed == PlanInv => PopupIsObeyed
<1> SUFFICES ASSUME PlanInv, stage = "hosting", chosen # Nothing
             PROVE  PopupIsObeyed
  BY DEF PopupIsObeyed
<1>1. /\ form = PopupInit(Plan(PlanQuery(Flagged)), Flagged)
      /\ PopupSettings(chosen)
      /\ request = ApplySettings(Flagged, chosen, form)
  BY DEF PlanInv, Sent
<1>2. project = Record(request)
  BY Planned, NoFailure DEF PlanInv, Resolved
<1>3. /\ project.maxUsers = Get(Layers(request), "maxUsers", 0)
      /\ project.advertise = AdvertiseOf(request)
      /\ project.mode = Get(Layers(request), "mode", "open")
      /\ project.exposure = ExposureOf(request)
      /\ project.restart = Get(Layers(request), "restart", "on-failure")
      /\ project.health = HealthOf(request)
      /\ project.port = Get(Layers(request), "port", 0)
      /\ project.host = HostOf(request)
      /\ project.runtime = RunsOn(request)
      /\ project.name = NameOf(request)
      /\ project.start = StartOf(request)
  BY <1>2 DEF Record
<1>4. project.maxUsers = chosen.maxUsers /\ project.advertise = chosen.advertise
  BY <1>1, <1>3, Layered, Applied DEF AdvertiseOf
<1>5. (project.mode = "protected") = chosen.protected
  <2>1. Has(request, "protected")
    BY <1>1, Applied, Present
  <2>4. \A d : Get(request, "protected", d) = chosen.protected
    BY <1>1, Applied
  <2>2. Mode(request) = IF chosen.protected THEN "protected" ELSE "open"
    <3>1. Get(request, "protected", FALSE) = chosen.protected
      BY <2>4, Zenon
    <3>2. CASE chosen.protected
      BY <3>1, <3>2 DEF Mode
    <3>3. CASE ~chosen.protected
      BY <3>1, <3>3 DEF Mode
    <3> QED BY <3>2, <3>3
  <2>3. chosen.protected \in BOOLEAN
    BY <1>1 DEF PopupSettings, Switches
  <2> QED BY <1>3, <2>1, <2>2, <2>3, Layered
<1>6. IF chosen.exposure = "public" THEN Shared(request, project) /\ project.exposure = "lan"
      ELSE /\ project.exposure = chosen.exposure
           /\ Shared(request, project) => Has(flags, "public")
  <2>1. project.exposure = IF chosen.exposure = "public" THEN "lan" ELSE chosen.exposure
    BY <1>1, <1>3, Applied, Layered DEF ExposureOf, Lowered
  <2>4. /\ chosen.exposure = "public" => \A d : Get(request, "public", d) = On
        /\ chosen.exposure # "public" /\ ~Has(flags, "public") =>
             \A d : Get(request, "public", d) = d
    BY <1>1, Applied, Built, Present DEF Flagged
  <2>2. chosen.exposure = "public" => Get(request, "public", FALSE)
    BY <2>4, Zenon DEF On
  <2>3. chosen.exposure # "public" /\ ~Has(flags, "public") =>
          ~Get(request, "public", FALSE)
    BY <2>4, Zenon
  <2> QED BY <2>1, <2>2, <2>3 DEF Shared
<1>7. ~chosen.autoRestart => project.restart = "never"
  BY <1>1, <1>3, Applied, Layered
<1>8. ~chosen.healthCheck => project.health = "process"
  <2>1. ~chosen.healthCheck => \A d : Get(CliOverrides(request), "healthCheck", d) = Off
    BY <1>1, Applied, Overridden
  <2>2. ~chosen.healthCheck => ~Get(CliOverrides(request), "healthCheck", TRUE)
    BY <2>1, Zenon DEF Off
  <2> QED BY <2>2, <1>3 DEF HealthOf
<1>9. /\ chosen.port # 0 => project.port = chosen.port
      /\ chosen.host # "auto" => project.host = chosen.host
      /\ chosen.name \notin {Absent, form.name} => project.name = chosen.name
  BY <1>1, <1>3, Applied, Layered DEF HostOf, NameOf
<1>10. chosen.runtime # "auto" => project.runtime = chosen.runtime
  <2>1. chosen.runtime # "auto" => Get(Layers(request), "runtime", "auto") = chosen.runtime
    BY <1>1, Applied, Layered
  <2> QED BY <2>1, <1>3 DEF RunsOn, RuntimeOf, Layers
<1>11. ASSUME chosen.command # Absent, chosen.runtime \in {"auto", "custom"}
       PROVE  project.start = chosen.command
  <2>1. CASE chosen.command # form.command \/ chosen.runtime = "custom"
    <3>1. \A d : Get(Layers(request), "command", d) = chosen.command
      BY <1>1, <1>11, <2>1, Applied, Layered
    <3> QED BY <3>1, <1>3, Present DEF StartOf
  <2>2. CASE chosen.command = form.command /\ chosen.runtime = "auto"
    <3>1. form.command = StartOf(PlanQuery(Flagged))
      BY <1>1, <1>11, <2>2, FormShows
    <3>2. \A x \in {"runtime", "command"} : \A d : Get(request, x, d) = Get(PlanQuery(Flagged), x, d)
      BY <1>1, <2>2, Applied, AskedFor
    <3> QED BY <3>1, <3>2, Same, <1>3, <2>2
  <2> QED BY <1>11, <2>1, <2>2
<1> QED BY <1>4, <1>5, <1>6, <1>7, <1>8, <1>9, <1>10, <1>11 DEF PopupIsObeyed

\* Exposure and probes are compared by their effect, ...
LEMMA Effected ==
  ASSUME NEW f, NEW g, NEW e, NEW h, DOMAIN f = DOMAIN g,
         \A k \in DOMAIN f \ {"exposure", "health"} : f[k] = g[k]
  PROVE  [f EXCEPT !.exposure = e, !.health = h] = [g EXCEPT !.exposure = e, !.health = h]
OBVIOUS

\* ... and the other fields as they are.
LEMMA Alike ==
  ASSUME NEW r, NEW q, NameOf(r) = NameOf(q), RunsOn(r) = RunsOn(q), StartOf(r) = StartOf(q),
         PortOf(r) = PortOf(q), Controls(r) = Controls(q), HostOf(r) = HostOf(q),
         AdvertiseOf(r) = AdvertiseOf(q),
         Get(Layers(r), "port", 0) = Get(Layers(q), "port", 0),
         Get(Layers(r), "restart", "on-failure") = Get(Layers(q), "restart", "on-failure"),
         Get(Layers(r), "mode", "open") = Get(Layers(q), "mode", "open"),
         Get(Layers(r), "maxUsers", 0) = Get(Layers(q), "maxUsers", 0)
  PROVE  /\ DOMAIN Record(r) = DOMAIN Record(q)
         /\ \A k \in DOMAIN Record(r) \ {"exposure", "health"} : Record(r)[k] = Record(q)[k]
BY DEF Record

\* A form that is sent as it came says what the plan would have been without it.
LEMMA LeftAlone == PlanInv => PopupLeftAlone
<1> SUFFICES ASSUME PlanInv, Started, chosen # Nothing, chosen = form,
                    NotAsked \cap DOMAIN flags = {}
             PROVE  Effect(request, project) = Effect(Flagged, Plan(Flagged))
  BY DEF PopupLeftAlone, Flagged
<1> DEFINE a == PlanQuery(Flagged)
<1>1. /\ form = PopupInit(Plan(a), Flagged)
      /\ request = ApplySettings(Flagged, form, form)
      /\ project = Plan(request)
  BY DEF PlanInv, Sent, Resolved, Started
<1>2. \A x \in NotAsked : ~Has(flags, x)
  BY DEF Has
<1>3. /\ \A x \in {"exposure", "public", "maxUsers", "protected", "advertise"} :
           \A d : Get(Flagged, x, d) = d
      /\ \A x \in {"exposure", "maxUsers", "advertise", "restart", "healthCheck", "protected"} :
           \A d : Get(a, x, d) = d
  BY <1>2, Built, AskedFor, Present DEF Flagged, NotAsked
<1>4. /\ ~Has(Flagged, "public") /\ ~Has(Flagged, "protected")
      /\ ~Has(a, "protected")
      /\ Has(request, "protected")
  <2>1. /\ \A d : Get(Flagged, "public", d) = d
        /\ \A d : Get(Flagged, "protected", d) = d
        /\ \A d : Get(a, "protected", d) = d
        /\ \A d : Get(request, "protected", d) = form.protected
    BY <1>1, <1>3, Applied
  <2> QED BY <2>1, Present
<1>5. form.runtime = "auto"
  BY <1>1, FormShows
<1>6. \A x \in {"runtime", "command"} :
        \A d : /\ Get(request, x, d) = Get(Flagged, x, d)
               /\ Get(a, x, d) = Get(Flagged, x, d)
  BY <1>1, <1>5, Applied, AskedFor
<1>7. /\ RunsOn(request) = RunsOn(Flagged) /\ RunsOn(a) = RunsOn(Flagged)
      /\ StartOf(request) = StartOf(Flagged) /\ StartOf(a) = StartOf(Flagged)
      /\ PortOf(request) = PortOf(Flagged) /\ Controls(request) = Controls(Flagged)
  BY <1>6, Same
<1> DEFINE fails == \/ ConfigInvalid(yaml)
                    \/ StartOf(Flagged) = Absent /\ RunsOn(Flagged) \notin RunsWithoutCommand
<1>8. CASE fails
  <2>1. project = Plan(Flagged) /\ Failed(project)
    BY <1>1, <1>7, <1>8, Planned, NoFailure
  <2> QED BY <2>1 DEF Effect
<1>9. CASE ~fails
  <2>1. /\ project = Record(request) /\ Plan(a) = Record(a)
        /\ Plan(Flagged) = Record(Flagged)
    BY <1>1, <1>7, <1>9, Planned
  <2>2. /\ form.name = NameOf(a) /\ form.port = Get(Flagged, "port", 0)
        /\ form.host = Get(Flagged, "host", "auto") /\ form.exposure = ExposureOf(a)
        /\ form.maxUsers = Get(Layers(a), "maxUsers", 0)
        /\ form.advertise = AdvertiseOf(a)
        /\ form.protected <=> Get(Layers(a), "mode", "open") = "protected"
        /\ form.autoRestart <=> Get(Layers(a), "restart", "on-failure") # "never"
        /\ form.healthCheck <=> HealthOf(a) \notin {"process", "none"}
    <3> HIDE DEF a
    <3>1. ~Failed(Plan(a))
      BY <2>1, NoFailure
    <3>2. /\ form.name = Record(a).name /\ form.port = Get(Flagged, "port", 0)
          /\ form.host = Get(Flagged, "host", "auto") /\ form.exposure = Record(a).exposure
          /\ form.maxUsers = Record(a).maxUsers /\ form.advertise = Record(a).advertise
      BY <1>1, <1>4, <2>1, <3>1 DEF PopupInit
    <3>3. /\ form.protected <=> Record(a).mode = "protected"
          /\ form.autoRestart <=> Record(a).restart # "never"
          /\ form.healthCheck <=> Record(a).health \notin {"process", "none"}
      BY <1>1, <2>1, <3>1 DEF PopupInit
    <3> QED BY <3>2, <3>3 DEF Record
  <2>3. NameOf(request) = NameOf(Flagged)
    BY <1>1, Applied, Layered DEF NameOf
  <2>4. Get(Layers(request), "port", 0)
          = Get(Layers(Flagged), "port", 0)
    <3>1. \A d : Get(request, "port", d) =
                   IF Get(Flagged, "port", 0) # 0 THEN Get(Flagged, "port", 0)
                   ELSE Get(Flagged, "port", d)
      BY <1>1, <2>2, Applied
    <3>2. Get(Flagged, "port", 0) # 0 =>
            \A d : Get(Flagged, "port", d) = Get(Flagged, "port", 0)
      BY DEF Get
    <3> QED BY <3>1, <3>2, Layered
  <2>5. Get(Layers(request), "restart", "on-failure")
          = Get(Layers(Flagged), "restart", "on-failure")
    BY <1>1, <1>3, <2>2, Applied, Layered, Built DEF Flagged
  <2>6. Get(Layers(request), "mode", "open")
          = Get(Layers(Flagged), "mode", "open")
    <3>1. /\ Get(Layers(a), "mode", "open") = Get(yaml, "mode", "open")
          /\ Get(Layers(Flagged), "mode", "open") = Get(yaml, "mode", "open")
      BY <1>4, Layered
    <3>2. Get(yaml, "mode", "open") \in {"open", "protected"}
      BY <1>9 DEF PlanInv, Inputs, Schema
    <3>3. \A d : Get(request, "protected", d) = form.protected
      BY <1>1, Applied
    <3>4. Get(request, "protected", FALSE) = form.protected
      BY <3>3, Zenon
    <3>5. Mode(request) = Get(yaml, "mode", "open")
      <4>1. CASE form.protected
        BY <3>1, <3>4, <4>1, <2>2 DEF Mode
      <4>2. CASE ~form.protected
        BY <3>1, <3>2, <3>4, <4>2, <2>2 DEF Mode
      <4> QED BY <4>1, <4>2
    <3> QED BY <1>4, <3>1, <3>5, Layered
  <2>7. Get(Layers(request), "maxUsers", 0)
          = Get(Layers(Flagged), "maxUsers", 0)
    BY <1>1, <1>3, <2>2, Applied, Layered
  <2>8. /\ ExposureOf(a) = Get(yaml, "exposure", "lan")
        /\ ExposureOf(Flagged) = Get(yaml, "exposure", "lan")
        /\ ExposureOf(request) = Lowered(form)
    BY <1>1, <1>3, Applied, Layered DEF ExposureOf
  <2>9. AdvertiseOf(request) = AdvertiseOf(Flagged)
    BY <1>1, <1>3, <2>2, <2>8, Applied, Layered DEF AdvertiseOf
  <2>10. HostOf(request) = HostOf(Flagged)
    BY <1>1, <2>2, <2>8, Applied, Layered, Built DEF HostOf, Lowered, Flagged
  <2>11. (IF Shared(request, project) THEN "public" ELSE project.exposure)
          = (IF Shared(Flagged, Record(Flagged)) THEN "public" ELSE Record(Flagged).exposure)
    <3>1. /\ project.exposure = Lowered(form)
          /\ Record(Flagged).exposure = form.exposure
      BY <2>1, <2>2, <2>8 DEF Record
    <3>2. /\ \A d : Get(Flagged, "public", d) = d
          /\ form.exposure = "public" => \A d : Get(request, "public", d) = On
          /\ form.exposure # "public" => \A d : Get(request, "public", d) = d
      BY <1>1, <1>3, Applied
    <3>3. /\ ~Get(Flagged, "public", FALSE)
          /\ form.exposure = "public" => Get(request, "public", FALSE)
          /\ form.exposure # "public" => ~Get(request, "public", FALSE)
      BY <3>2, Zenon DEF On
    <3> QED BY <3>1, <3>3 DEF Shared, Lowered
  <2>12. (IF project.health \in {"process", "none"} THEN "none" ELSE project.health)
         = (IF Record(Flagged).health \in {"process", "none"} THEN "none" ELSE Record(Flagged).health)
    <3>1. /\ project.health = HealthOf(request) /\ Record(Flagged).health = HealthOf(Flagged)
      BY <2>1 DEF Record
    <3>2. /\ \A d : Get(CliOverrides(a), "healthCheck", d) = d
          /\ form.healthCheck =>
               \A d : Get(CliOverrides(request), "healthCheck", d)
                        = Get(CliOverrides(Flagged), "healthCheck", d)
          /\ ~form.healthCheck =>
               \A d : Get(CliOverrides(request), "healthCheck", d) = Off
      BY <1>1, <1>3, Applied, Overridden
    <3>3. /\ Get(CliOverrides(a), "healthCheck", TRUE)
          /\ form.healthCheck =>
               Get(CliOverrides(request), "healthCheck", TRUE)
                 = Get(CliOverrides(Flagged), "healthCheck", TRUE)
          /\ ~form.healthCheck => ~Get(CliOverrides(request), "healthCheck", TRUE)
      BY <3>2, Zenon DEF Off
    <3>4. HealthOf(a) = Get(yaml, "health", "http")
      BY <3>3 DEF HealthOf
    <3>5. CASE form.healthCheck
      <4>1. HealthOf(request) = HealthOf(Flagged)
        BY <3>3, <3>5, Zenon DEF HealthOf
      <4> QED BY <3>1, <4>1
    <3>6. CASE ~form.healthCheck
      <4>1. HealthOf(request) = "process"
        BY <3>3, <3>6 DEF HealthOf
      <4>2. HealthOf(Flagged) \in {"process", HealthOf(a)}
        BY <3>4 DEF HealthOf
      <4> QED BY <2>2, <3>1, <3>6, <4>1, <4>2
    <3> QED BY <3>5, <3>6
  <2> DEFINE e == IF Shared(request, project) THEN "public" ELSE project.exposure
             h == IF project.health \in {"process", "none"} THEN "none" ELSE project.health
  <2>13. Effect(request, project) = [Record(request) EXCEPT !.exposure = e, !.health = h]
    BY <2>1, NoFailure DEF Effect
  <2>14. Effect(Flagged, Record(Flagged)) = [Record(Flagged) EXCEPT !.exposure = e, !.health = h]
    <3>1. Effect(Flagged, Record(Flagged)) =
            [Record(Flagged) EXCEPT
               !.exposure = IF Shared(Flagged, Record(Flagged)) THEN "public"
                            ELSE Record(Flagged).exposure,
               !.health = IF Record(Flagged).health \in {"process", "none"} THEN "none"
                          ELSE Record(Flagged).health]
      BY NoFailure DEF Effect
    <3> QED BY <3>1, <2>11, <2>12
  <2> HIDE DEF e, h
  <2>15. /\ DOMAIN Record(request) = DOMAIN Record(Flagged)
         /\ \A k \in DOMAIN Record(request) \ {"exposure", "health"} : Record(request)[k] = Record(Flagged)[k]
    BY <1>7, <2>3, <2>4, <2>5, <2>6, <2>7, <2>9, <2>10, Alike
  <2> QED BY <2>1, <2>13, <2>14, <2>15, Effected
<1> QED BY <1>8, <1>9

-----------------------------------------------------------------------------
(* Detection                                                               *)

\* A detector has one result at most, in its own name.
Single(results, detector) ==
  \A r, s \in results :
    /\ r = s /\ r.detector = detector
    /\ r.confidence \in 20 .. 93 /\ r.runtime # Absent

\* What it is sure of can be started.
Sure(results) ==
  \A r \in results : IF CanStart(r) THEN r.confidence > 40 ELSE r.confidence < 40

\* By its confidence every detector but three says whether its result can be started.
LEMMA Detectors ==
  ASSUME NEW f
  PROVE  /\ Single(Node(f), "node") /\ Sure(Node(f))
         /\ Single(Python(f), "python") /\ Sure(Python(f))
         /\ Single(Go(f), "go") /\ Sure(Go(f))
         /\ Single(Rust(f), "rust") /\ Sure(Rust(f))
         /\ Single(Java(f), "java") /\ Sure(Java(f))
         /\ Single(Php(f), "php")
         /\ Single(Ruby(f), "ruby") /\ Sure(Ruby(f))
         /\ Single(Dotnet(f), "dotnet") /\ Sure(Dotnet(f))
         /\ Single(Deno(f), "deno")
         /\ Single(Docker(f), "docker") /\ Sure(Docker(f))
         /\ Single(Compose(f), "compose") /\ Sure(Compose(f))
         /\ Single(Procfile(f), "procfile") /\ Sure(Procfile(f))
         /\ Single(Static(f), "static")
         /\ Single(Compiled(f), "compiled") /\ Sure(Compiled(f))
         /\ \A r \in Php(f) : r.confidence >= 40
         /\ \A r \in Static(f) :
              r.confidence >= 40 /\ (r.confidence = 40 => "dist/index.html" \in f)
         /\ \A r \in Deno(f) :
              r.confidence >= 40 /\ (~CanStart(r) => r.confidence = 40 /\ "deno.json" \in f)
         /\ \A r \in Php(f) \cup Static(f) : CanStart(r)
<1> USE DEF Single, Sure, CanStart, RunsWithoutCommand, Absent,
            Native, Result
<1>1. Single(Node(f), "node") /\ Sure(Node(f))
  BY DEF Node
<1>2. Single(Python(f), "python") /\ Sure(Python(f))
  BY DEF Python
<1>3. Single(Go(f), "go") /\ Sure(Go(f))
  BY DEF Go
<1>4. Single(Rust(f), "rust") /\ Sure(Rust(f))
  BY DEF Rust
<1>5. Single(Java(f), "java") /\ Sure(Java(f))
  BY DEF Java
<1>6. /\ Single(Php(f), "php")
      /\ \A r \in Php(f) : r.confidence >= 40 /\ CanStart(r)
  BY DEF Php
<1>7. Single(Ruby(f), "ruby") /\ Sure(Ruby(f))
  BY DEF Ruby
<1>8. Single(Dotnet(f), "dotnet") /\ Sure(Dotnet(f))
  BY DEF Dotnet
<1>9. /\ Single(Deno(f), "deno")
      /\ \A r \in Deno(f) :
           r.confidence >= 40 /\ (~CanStart(r) => r.confidence = 40 /\ "deno.json" \in f)
  BY DEF Deno
<1>10. Single(Docker(f), "docker") /\ Sure(Docker(f))
  BY DEF Docker
<1>11. Single(Compose(f), "compose") /\ Sure(Compose(f))
  BY DEF Compose
<1>12. Single(Procfile(f), "procfile") /\ Sure(Procfile(f))
  BY DEF Procfile
<1>13. /\ Single(Static(f), "static")
       /\ \A r \in Static(f) :
            r.confidence >= 40 /\ (r.confidence = 40 => "dist/index.html" \in f) /\ CanStart(r)
  BY DEF Static
<1>14. Single(Compiled(f), "compiled") /\ Sure(Compiled(f))
  BY DEF Compiled
<1> HIDE DEF Single, Sure, CanStart
<1> QED BY <1>1, <1>2, <1>3, <1>4, <1>5, <1>6, <1>7, <1>8, <1>9, <1>10, <1>11, <1>12, <1>13, <1>14

\* The place of a result is that of its detector in the order of registration.
LEMMA Places ==
  ASSUME NEW r
  PROVE  \A i \in 1 .. 14 : r.detector = Order[i] => Place(r) = i
<1>1. DOMAIN Order = 1 .. 14
  BY DEF Order
<1>2. \A i, j \in 1 .. 14 : Order[i] = Order[j] => i = j
  BY DEF Order
<1> QED BY <1>1, <1>2 DEF Place

\* No two results of a directory are in one place.
LEMMA Located ==
  ASSUME NEW f
  PROVE  \A r, s \in Results(f) :
           /\ r.confidence \in 20 .. 93 /\ r.runtime # Absent
           /\ Place(r) \in 1 .. 14
           /\ Place(r) = Place(s) => r = s
<1> DEFINE D == <<Node(f), Python(f), Go(f), Rust(f), Java(f),
                  Php(f), Ruby(f), Dotnet(f), Deno(f), Docker(f),
                  Compose(f), Procfile(f), Static(f), Compiled(f)>>
<1>1. \A i \in 1 .. 14 : Single(D[i], Order[i])
  BY Detectors DEF Order
<1>2. \A r \in Results(f) : \E i \in 1 .. 14 : r \in D[i]
  BY DEF Results
<1> HIDE DEF D
<1>3. \A i \in 1 .. 14 : \A r \in D[i] : /\ Place(r) = i
                                         /\ r.confidence \in 20 .. 93 /\ r.runtime # Absent
                                         /\ \A s \in D[i] : r = s
  BY <1>1, Places DEF Single
<1> QED BY <1>2, <1>3

\* A set of naturals has a least element.
LEMMA Least ==
  ASSUME NEW S \in SUBSET Nat, S # {}
  PROVE  \E n \in S : \A m \in S : n <= m
<1>1. PICK n \in S : \A m \in S : <<m, n>> \notin OpToRel(<, Nat)
  BY NatLessThanWellFounded, WFMin
<1>2. ASSUME NEW m \in S
      PROVE  n <= m
  <2>1. <<m, n>> \in Nat \X Nat
    OBVIOUS
  <2>2. ~(m < n)
    BY <1>1, <2>1 DEF OpToRel
  <2> QED BY <2>2
<1> QED BY <1>2

\* Confidence and place in one number.
LEMMA Greater ==
  ASSUME NEW c \in 20 .. 93, NEW e \in 20 .. 93, NEW i \in 1 .. 14, NEW j \in 1 .. 14,
         15 * (100 - c) + i <= 15 * (100 - e) + j, i # j
  PROVE  c > e \/ (c = e /\ i < j)
OBVIOUS

\* One of the results comes before every other.
LEMMA Ranked ==
  ASSUME NEW f, Results(f) # {}
  PROVE  LET first == First(Results(f), Absent)
         IN  /\ first \in Results(f)
             /\ \A s \in Results(f) \ {first} : Before(first, s, Absent)
<1> DEFINE results == Results(f)
           rank == [r \in results |-> 15 * (100 - r.confidence) + Place(r)]
           ranks == {rank[r] : r \in results}
<1>1. \A r \in results : rank[r] \in Nat /\ rank[r] = 15 * (100 - r.confidence) + Place(r)
  BY Located
<1>2. ranks \in SUBSET Nat /\ ranks # {}
  BY <1>1
<1>3. PICK n \in ranks : \A m \in ranks : n <= m
  <2> HIDE DEF ranks
  <2> QED BY <1>2, Least
<1>4. PICK r \in results : rank[r] = n
  OBVIOUS
<1>5. ASSUME NEW s \in results \ {r}
      PROVE  Before(r, s, Absent)
  <2>1. rank[r] <= rank[s]
    BY <1>3, <1>4
  <2>2. /\ rank[r] = 15 * (100 - r.confidence) + Place(r)
        /\ rank[s] = 15 * (100 - s.confidence) + Place(s)
    BY <1>1
  <2>3. /\ r.confidence \in 20 .. 93 /\ s.confidence \in 20 .. 93
        /\ Place(r) \in 1 .. 14 /\ Place(s) \in 1 .. 14
        /\ Place(r) # Place(s)
        /\ r.runtime # Absent /\ s.runtime # Absent
    BY Located
  <2> HIDE DEF rank, results
  <2>4. \/ r.confidence > s.confidence
        \/ r.confidence = s.confidence /\ Place(r) < Place(s)
    <3>1. PICK c, e, i, j : /\ c = r.confidence /\ e = s.confidence
                            /\ i = Place(r) /\ j = Place(s)
      OBVIOUS
    <3>2. /\ c \in 20 .. 93 /\ e \in 20 .. 93 /\ i \in 1 .. 14 /\ j \in 1 .. 14 /\ i # j
          /\ 15 * (100 - c) + i <= 15 * (100 - e) + j
      BY <2>1, <2>2, <2>3, <3>1
    <3>3. c > e \/ (c = e /\ i < j)
      BY <3>2, Greater
    <3> QED BY <3>1, <3>3
  <2> QED BY <2>3, <2>4 DEF Before
<1>6. r \in results /\ \A s \in results \ {r} : Before(r, s, Absent)
  BY <1>5
<1> HIDE DEF rank, ranks, results
<1> QED BY <1>6 DEF First, results

\* What cannot be started comes before what can in one case: a deno.json without tasks.
LEMMA Weak ==
  ASSUME NEW f, NEW d \in Results(f), NEW r \in Results(f),
         ~CanStart(d), CanStart(r), Before(d, r, Absent)
  PROVE  r.detector = "static" /\ {"deno.json", "dist/index.html"} \subseteq f
<1>1. d.confidence >= r.confidence /\ d.confidence \in 20 .. 93 /\ r.confidence \in 20 .. 93
  BY Located DEF Before
<1> DEFINE Firm == UNION {Node(f), Python(f), Go(f), Rust(f), Java(f),
                          Ruby(f), Dotnet(f), Docker(f), Compose(f),
                          Procfile(f), Compiled(f)}
           Loose == UNION {Php(f), Static(f), Deno(f)}
<1>2. Results(f) = Firm \cup Loose
  BY DEF Results
<1>3. Sure(Firm)
  BY Detectors DEF Sure
<1>4. \A x \in Loose : x.confidence >= 40
  BY Detectors
<1> HIDE DEF Firm
<1>5. r \notin Firm
  <2> SUFFICES ASSUME r \in Firm PROVE FALSE
    OBVIOUS
  <2>1. r.confidence > 40
    BY <1>3 DEF Sure
  <2>2. d \notin Firm
    BY <1>1, <1>3, <2>1 DEF Sure
  <2>3. d.confidence = 40
    BY <1>2, <2>2, Detectors
  <2> QED BY <1>1, <2>1, <2>3
<1>6. d \notin Firm
  BY <1>1, <1>2, <1>3, <1>4, <1>5 DEF Sure
<1>7. d \in Deno(f) /\ d.confidence = 40 /\ "deno.json" \in f
  BY <1>2, <1>6, Detectors
<1>8. r.confidence = 40
  BY <1>1, <1>2, <1>4, <1>5, <1>7
<1>9. r \notin Deno(f)
  BY <1>7, Detectors DEF Single
<1>10. r \notin Php(f)
  <2> SUFFICES ASSUME r \in Php(f) PROVE FALSE
    OBVIOUS
  <2>1. r.detector = "php" /\ d.detector = "deno"
    BY <1>7, Detectors DEF Single
  <2>2. Order[9] = "deno" /\ Order[6] = "php"
    BY DEF Order
  <2>3. Place(r) = 6
    BY <2>1, <2>2, Places
  <2>4. Place(d) = 9
    BY <2>1, <2>2, Places
  <2>5. Place(d) < Place(r)
    BY <1>7, <1>8, Located DEF Before
  <2> QED BY <2>3, <2>4, <2>5
<1>11. r \in Static(f)
  BY <1>2, <1>5, <1>9, <1>10
<1> QED BY <1>7, <1>8, <1>11, Detectors DEF Single

\* A command that may be absent, and is none only where the default is.
LEMMA Commanded ==
  ASSUME NEW f, NEW x, NEW d, Get(f, x, "some") # Absent, d # Absent
  PROVE  Get(f, x, d) # Absent
BY DEF Get

\* Nothing is to be started only where the first result is without a command.
LEMMA Startable == PlanInv => StartsIfItCan
<1> SUFFICES ASSUME PlanInv, Get(Layers(request), "runtime", "auto") = "auto",
                    project = Failure("DETECTION_FAILED"),
                    NEW r \in Results(files), CanStart(r)
             PROVE  r.detector = "static" /\ {"deno.json", "dist/index.html"} \subseteq files
  BY DEF StartsIfItCan, Layers
<1>1. stage \in {"hosting", "failed"} /\ project = Plan(request)
  <2>1. "error" \in DOMAIN Failure("DETECTION_FAILED")
    BY DEF Failure, :>
  <2>2. DOMAIN Nothing = {}
    BY DEF Nothing
  <2> QED BY <2>1, <2>2 DEF PlanInv, Resolved
<1>2. /\ ~ConfigInvalid(yaml)
      /\ StartOf(request) = Absent /\ RunsOn(request) \notin RunsWithoutCommand
  <2>1. Failure("DETECTION_FAILED") # Failure("CONFIG_INVALID")
    <3>1. \A c : Failure(c)["error"] = c
      BY DEF Failure, :>
    <3> QED BY <3>1
  <2>2. Record(request) # Failure("DETECTION_FAILED")
    BY NoFailure
  <2> QED BY <1>1, <2>1, <2>2, Planned
<1>3. ~Has(Layers(request), "command")
  <2> SUFFICES ASSUME Has(Layers(request), "command") PROVE FALSE
    OBVIOUS
  <2>1. Get(Layers(request), "command", "some") = Absent
    BY <1>2, Present DEF StartOf
  <2>2. Get(yaml, "command", "some") # Absent
    BY <1>2 DEF PlanInv, Inputs, Schema
  <2>3. Get(Layers(request), "command", "some")
          = Get(request, "command", Get(yaml, "command", "some"))
    BY Layered
  <2>4. \A d : d # Absent => Get(Flagged, "command", d) # Absent
    <3>1. \A d : Get(Flagged, "command", d) = Get(flags, "command", d)
      BY Built DEF Flagged
    <3> QED BY <3>1, Commanded DEF PlanInv, Inputs
  <2>5. CASE chosen = Nothing
    BY <1>1, <2>1, <2>2, <2>3, <2>4, <2>5 DEF PlanInv, Sent
  <2>6. CASE chosen # Nothing
    <3>1. request = ApplySettings(Flagged, chosen, form)
      BY <1>1, <2>6 DEF PlanInv, Sent
    <3>2. \A d : Get(request, "command", d) =
                   IF chosen.command # Absent /\ (chosen.command # form.command \/ chosen.runtime = "custom")
                   THEN chosen.command ELSE Get(Flagged, "command", d)
      BY <3>1, Applied
    <3> QED BY <2>1, <2>2, <2>3, <2>4, <3>2
  <2> QED BY <2>5, <2>6
<1>4. Preferred(request) = Absent
  <2>1. Get(Layers(request), "runtime", "auto")
          = Get(request, "runtime", Get(yaml, "runtime", "auto"))
    BY Layered
  <2>2. Get(request, "runtime", "auto") = "auto"
    BY <2>1, Present
  <2> QED BY <2>2 DEF Preferred
<1>5. PICK d : d = First(Results(files), Absent)
  OBVIOUS
<1>6. /\ d \in Results(files)
      /\ \A s \in Results(files) \ {d} : Before(d, s, Absent)
  BY <1>5, Ranked
<1>7. Detected(request) = {d}
  BY <1>4, <1>5 DEF Detected, Best
<1>8. ~CanStart(d)
  <2>1. d.start = Absent
    BY <1>2, <1>3, <1>7 DEF StartOf
  <2>2. RunsOn(request) = d.runtime
    BY <1>3, <1>7 DEF RunsOn, RuntimeOf, Layers
  <2> QED BY <1>2, <2>1, <2>2 DEF CanStart
<1>9. Before(d, r, Absent)
  BY <1>6, <1>8
<1> QED BY <1>6, <1>8, <1>9, Weak

-----------------------------------------------------------------------------
\* For every directory, every combination of flags, rynk.yaml and settings: the form is the
\* plan of the flags, the request the flags below the settings, the project its plan.
THEOREM PlanInductive == PlanSpec => []PlanInv
BY PlanStarts, PlanSteps, PTL DEF PlanSpec


\* A detection fails only where nothing that was found can be started.
THEOREM PlanStartsIfItCan == PlanSpec => []StartsIfItCan
BY PlanInductive, Startable, PTL

\* A popup that is confirmed as it came hosts what the command line would.
THEOREM PlanPopupLeftAlone == PlanSpec => []PopupLeftAlone
BY PlanInductive, LeftAlone, PTL

\* What is set in the popup is hosted, whatever flags and rynk.yaml say.
THEOREM PlanPopupIsObeyed == PlanSpec => []PopupIsObeyed
BY PlanInductive, Obeyed, PTL
=============================================================================
