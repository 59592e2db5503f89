--------------------------- MODULE PortAllocator ---------------------------
(***************************************************************************)
(* The port allocator of packages/ports/src/index.ts and the two ways the  *)
(* engine uses it: "share" is the allocator of the share ports, on which   *)
(* the access gateways listen, kept in the database; "app" the allocator   *)
(* of the loopback ports the applications listen on, kept in memory.       *)
(*                                                                         *)
(* Calls of allocate(), peek() and adopt() queue behind one lock; the one  *)
(* at the head runs from probe to probe.  release() does not wait for the  *)
(* lock.  A run is one deployment of a project as far as ports go:         *)
(* expose() with its attempts to listen, launch() with the port its        *)
(* application chose, the teardown and fail().  Other programs take and    *)
(* give back ports at any time.                                            *)
(***************************************************************************)
EXTENDS Integers, Sequences, FiniteSets

CONSTANTS
  Project,      \* projects of the node
  Nobody,       \* no project
  MaxPort,      \* the highest port (65535 in the code)
  Low, High,    \* the allocator's range
  ScanSpan,     \* how far a scan goes above the preferred port (100)
  Avoid,        \* ports a scan skips
  GraceRetries, \* extra probes of the port the project had last (4)
  MaxListens,   \* attempts of expose() to open its gateway (3)
  Preferred,    \* ports projects ask for
  MaxRuns,      \* bound: deployments
  MaxBusy,      \* bound: ports other programs hold at once
  MaxEvents     \* bound: dry runs (`rynk plan`) and crashes of the daemon

ASSUME PortBounds ==
  /\ Nobody \notin Project
  /\ MaxPort \in Nat \ {0} /\ Low \in 1..MaxPort /\ High \in Low..MaxPort
  /\ ScanSpan \in Nat /\ GraceRetries \in Nat /\ MaxListens \in Nat \ {0}
  /\ MaxRuns \in Nat \ {0} /\ Preferred \subseteq 1..MaxPort
  /\ MaxBusy \in Nat /\ MaxEvents \in Nat

Port == 1..MaxPort
NoPort == 0
Run == 1..MaxRuns

VARIABLES
  use,        \* which of the daemon's two allocators this is: "share" or "app"
  reserved,   \* port -> the project it is reserved for
  sticky,     \* project -> the port it had last, as the allocator remembers it
  loaded,     \* sticky has been read from the store
  stored,     \* project -> the port it had last, in the store
  queue,      \* calls waiting for the lock; the first one holds it
  stage,      \* where the first call is suspended
  todo,       \* the probes it has still to make
  run,        \* the deployments
  busy,       \* ports other programs hold
  events,
  had, steady \* history: the port last answered; ports free during the whole call

allocator == <<reserved, sticky, loaded, stored, queue, stage, todo>>
vars == <<use, reserved, sticky, loaded, stored, queue, stage, todo, run, busy, events,
          had, steady>>

NewRun ==
  [project |-> Nobody, want |-> NoPort, explicit |-> FALSE, pc |-> "none",
   attempt |-> 0, port |-> NoPort, bound |-> NoPort, down |-> "no"]

Init ==
  /\ use \in {"share", "app"}
  /\ reserved = [p \in Port |-> Nobody]
  /\ sticky = [q \in Project |-> NoPort] /\ stored = [q \in Project |-> NoPort]
  /\ loaded = FALSE
  /\ queue = <<>> /\ stage = "idle" /\ todo = <<>>
  /\ run = [r \in Run |-> NewRun]
  /\ busy = {}
  /\ events = 0
  /\ had = [q \in Project |-> NoPort] /\ steady = {}

-----------------------------------------------------------------------------
(* The operating system: isPortFree() and isListening(). *)

Bound(p) == \E r \in Run : run[r].bound = p
Free(p) == p \notin busy /\ ~Bound(p)

\* Another program opens or closes a port.
Others ==
  /\ \/ /\ Cardinality(busy) < MaxBusy
        /\ \E p \in Port : Free(p) /\ busy' = busy \cup {p}
     \/ \E p \in busy : busy' = busy \ {p}
  /\ steady' = steady \ busy'
  /\ UNCHANGED <<use, allocator, run, events, had>>

-----------------------------------------------------------------------------
(* The allocator. *)

Call(by, kind, q, want, strict) ==
  [by |-> by, kind |-> kind, project |-> q, want |-> want, strict |-> strict]

Ask(call) == queue' = Append(queue, call)

\* A scan passes over a port to avoid: NoPort is in its place.
Upward(from, to) ==
  [i \in 1..(to - from + 1) |-> IF from + i - 1 \in Avoid THEN NoPort ELSE from + i - 1]
Least(a, b) == IF a <= b THEN a ELSE b

\* Mutant of Scan: `p < end` for `p <= end`.
ScanShort(want) ==
  LET start == IF want = NoPort THEN Low ELSE want
  IN Upward(start + 1, Least(start + ScanSpan, High) - 1) \o Upward(Low, High - 1)

\* A scan goes up from the preferred port, then over the whole range.
Scan(want) ==
  LET start == IF want = NoPort THEN Low ELSE want
  IN Upward(start + 1, Least(start + ScanSpan, High)) \o Upward(Low, High)

\* The system may still be closing the socket of the port the project had last.
WithGrace(p, last) == [i \in 1..(IF p = last THEN GraceRetries + 1 ELSE 1) |-> p]

\* What choose() tries, in this order.
Candidates(call, last) ==
  (IF call.want = NoPort THEN <<>> ELSE WithGrace(call.want, last)) \o
  (IF call.strict THEN <<>>
   ELSE (IF last \in {NoPort, call.want} THEN <<>> ELSE WithGrace(last, last)) \o
        Scan(call.want))

Reserve(q, p) ==
  /\ reserved' = [x \in Port |-> IF x = p THEN q
                                 ELSE IF reserved[x] = q THEN Nobody ELSE reserved[x]]
  /\ sticky' = [sticky EXCEPT ![q] = p]

\* release() gives back the first port it finds, without waiting for the lock.
Unreserve(q) ==
  IF \E p \in Port : reserved[p] = q
  THEN \E p \in Port : reserved[p] = q /\ reserved' = [reserved EXCEPT ![p] = Nobody]
  ELSE UNCHANGED reserved

\* The promise of the first call settles and the next call gets the lock.
Settle ==
  queue' = Tail(queue) /\ stage' = "idle" /\ todo' = <<>> /\ steady' = {}

\* Nothing of a deployment that is over is looked at again, but the socket it may hold.
Over(r) == [NewRun EXCEPT !.project = r.project, !.pc = "done", !.bound = r.bound,
                          !.down = r.down]

\* run() catches what expose() or launch() threw: fail(), unless it is being stopped.
Thrown(r) == IF r.down = "no" THEN [r EXCEPT !.pc = "failing"] ELSE Over(r)

\* What its caller does with port p (NoPort: the call has thrown).
Resumed(r, call, p) ==
  CASE call.kind = "adopt" -> [r EXCEPT !.pc = "running"]
    [] p # NoPort          -> [r EXCEPT !.pc = "granted", !.port = p]
    [] OTHER               -> Thrown(r)

Answer(p) ==
  LET call == Head(queue)
  IN /\ Settle
     /\ run' = IF call.by = 0 THEN run
               ELSE [run EXCEPT ![call.by] = Resumed(run[call.by], call, p)]
     /\ had' = IF call.kind = "peek" \/ p = NoPort THEN had
               ELSE [had EXCEPT ![call.project] = p]

\* allocate() and peek() get the lock: a port the project holds is answered at once.
BeginChoice ==
  /\ stage = "idle" /\ queue # <<>> /\ Head(queue).kind # "adopt"
  /\ loaded' = TRUE
  /\ sticky' = IF loaded THEN sticky ELSE stored
  /\ LET call == Head(queue)
         mine == {p \in Port : reserved[p] = call.project /\ call.want \in {NoPort, p}}
     IN \/ /\ \E p \in mine : Answer(p)
        \/ /\ mine = {}
           /\ stage' = "check" /\ todo' = Candidates(call, sticky'[call.project])
           /\ steady' = {p \in Port : Free(p) /\ reserved[p] \in {Nobody, call.project}}
           /\ UNCHANGED <<queue, run, had>>
  /\ UNCHANGED <<use, reserved, stored, busy, events>>

\* Mutant of Check: the holder is not looked at.
CheckRange ==
  /\ stage = "check" /\ todo # <<>>
  /\ IF Head(todo) \in Port THEN stage' = "probe" /\ UNCHANGED todo
     ELSE todo' = Tail(todo) /\ UNCHANGED stage
  /\ UNCHANGED <<use, reserved, sticky, loaded, stored, queue, run, busy, events, had, steady>>

\* tryPort(): a port of another project, or one to avoid, is passed over without a probe.
Check ==
  /\ stage = "check" /\ todo # <<>>
  /\ LET p == Head(todo)
     IN IF p \in Port /\ reserved[p] \in {Nobody, Head(queue).project}
        THEN stage' = "probe" /\ UNCHANGED todo
        ELSE todo' = Tail(todo) /\ UNCHANGED stage
  /\ UNCHANGED <<use, reserved, sticky, loaded, stored, queue, run, busy, events, had, steady>>

PassOver ==
  /\ stage = "probe" /\ ~Free(Head(todo))
  /\ stage' = "check" /\ todo' = Tail(todo)
  /\ UNCHANGED <<use, reserved, sticky, loaded, stored, queue, run, busy, events, had, steady>>

\* The probe found the port free: peek() is done, allocate() commits.
Commit ==
  /\ stage = "probe" /\ Free(Head(todo))
  /\ Head(queue).kind = "allocate"
  /\ Reserve(Head(queue).project, Head(todo))
  /\ stage' = "save" /\ todo' = <<>>
  /\ UNCHANGED <<use, loaded, stored, queue, run, busy, events, had, steady>>

Peeked ==
  /\ stage = "probe" /\ Free(Head(todo))
  /\ Head(queue).kind = "peek"
  /\ Answer(Head(todo))
  /\ UNCHANGED <<use, reserved, sticky, loaded, stored, busy, events>>

\* No candidate is left: PORT_UNAVAILABLE.
Exhausted ==
  /\ stage = "check" /\ todo = <<>>
  /\ Answer(NoPort)
  /\ UNCHANGED <<use, reserved, sticky, loaded, stored, busy, events>>

\* adopt() gets the lock: it commits without a look at who holds the port.
BeginAdopt ==
  /\ stage = "idle" /\ queue # <<>> /\ Head(queue).kind = "adopt"
  /\ Reserve(Head(queue).project, Head(queue).want)
  /\ stage' = "save"
  /\ UNCHANGED <<use, loaded, stored, queue, todo, run, busy, events, had, steady>>

\* Mutant of Save: the store is not told.
SaveNothing ==
  /\ stage = "save" /\ Answer(sticky[Head(queue).project])
  /\ UNCHANGED <<use, reserved, sticky, loaded, stored, busy, events>>

\* The end of commit(): the store has the row, the call is answered.
Save ==
  /\ stage = "save"
  /\ LET q == Head(queue).project
     IN stored' = [stored EXCEPT ![q] = sticky[q]] /\ Answer(sticky[q])
  /\ UNCHANGED <<use, reserved, sticky, loaded, busy, events>>

-----------------------------------------------------------------------------
(* The engine. *)

\* A project has one deployment at a time: the last one is torn down or has failed.
Gone(r) == run[r].pc = "done" \/ run[r].down = "down"

\* allocateAppPort(), or the first attempt of expose().
Start(r, q, want, explicit) ==
  /\ run[r].pc = "none" /\ \A o \in 1..(r - 1) : run[o].pc # "none"
  /\ \A o \in Run : run[o].project = q => Gone(o)
  /\ use = "app" => want = NoPort
  /\ explicit => want # NoPort
  /\ run' = [run EXCEPT ![r] = [NewRun EXCEPT !.project = q, !.want = want,
                                  !.explicit = explicit, !.pc = "asked"]]
  /\ Ask(Call(r, "allocate", q, want, explicit))
  /\ UNCHANGED <<use, reserved, sticky, loaded, stored, stage, todo, busy, events, had, steady>>

\* The gateway listens on its share port.
Listen(r) ==
  /\ use = "share" /\ run[r].pc = "granted" /\ Free(run[r].port)
  /\ run' = [run EXCEPT ![r].pc = "running", ![r].bound = run[r].port]
  /\ steady' = steady \ {run[r].port}
  /\ UNCHANGED <<use, allocator, busy, events, had>>

MayRetry(r) == run[r].attempt + 1 < MaxListens

\* The port is in use after all: give it back and ask again, unless it was the user's.
ListenFails(r) ==
  /\ use = "share" /\ run[r].pc = "granted" /\ ~Free(run[r].port)
  /\ IF run[r].explicit /\ run[r].attempt = 0
     THEN run' = [run EXCEPT ![r] = Thrown(run[r])] /\ UNCHANGED <<reserved, queue>>
     ELSE /\ Unreserve(run[r].project)
          /\ IF MayRetry(r)
             THEN /\ run' = [run EXCEPT ![r].pc = "asked", ![r].attempt = @ + 1]
                  /\ Ask(Call(r, "allocate", run[r].project, run[r].want, FALSE))
             ELSE run' = [run EXCEPT ![r] = Thrown(run[r])] /\ UNCHANGED queue
  /\ UNCHANGED <<use, sticky, loaded, stored, stage, todo, busy, events, had, steady>>

\* The application listens on the port it was given, or on one of its own choice.
AppListens(r, p) ==
  /\ use = "app" /\ run[r].pc = "granted" /\ run[r].down = "no" /\ Free(p)
  /\ run' = [run EXCEPT ![r].pc = IF p = run[r].port THEN "running" ELSE "astray",
                        ![r].bound = p]
  /\ steady' = steady \ {p}
  /\ UNCHANGED <<use, allocator, busy, events, had>>

\* discoverPort() finds the application, on a port no other project has reserved.
Discover(r) ==
  /\ run[r].pc = "astray" /\ run[r].bound # NoPort
  /\ reserved[run[r].bound] \in {Nobody, run[r].project}
  /\ run' = [run EXCEPT ![r].pc = "found", ![r].port = run[r].bound]
  /\ UNCHANGED <<use, allocator, busy, events, had, steady>>

Adopt(r) ==
  /\ run[r].pc = "found" /\ run[r].down = "no"
  /\ run' = [run EXCEPT ![r].pc = "asked"]
  /\ Ask(Call(r, "adopt", run[r].project, run[r].port, FALSE))
  /\ UNCHANGED <<use, reserved, sticky, loaded, stored, stage, todo, busy, events, had, steady>>

\* An application that exits, or never answers, fails its deployment.
AppFails(r) ==
  /\ use = "app" /\ run[r].pc \in {"granted", "astray", "found", "running"}
  /\ run' = [run EXCEPT ![r] = Thrown([run[r] EXCEPT !.bound = NoPort])]
  /\ UNCHANGED <<use, allocator, busy, events, had, steady>>

\* It exits while its port is being recorded: nobody looks before adopt() is done.
AppExits(r) ==
  /\ use = "app" /\ run[r].pc = "asked" /\ run[r].bound # NoPort
  /\ run' = [run EXCEPT ![r].bound = NoPort]
  /\ UNCHANGED <<use, allocator, busy, events, had, steady>>

\* fail(): the awaits are over and releaseResources() gives back the ports.
FailRelease(r) ==
  /\ run[r].pc = "failing"
  /\ run' = [run EXCEPT ![r] = Over(run[r])]
  /\ Unreserve(run[r].project)
  /\ UNCHANGED <<use, sticky, loaded, stored, queue, stage, todo, busy, events, had, steady>>

\* teardown(): closes the gateway and kills the process; a pending call goes on.
Stop(r) ==
  /\ run[r].pc \notin {"none", "done"} /\ run[r].down = "no"
  /\ LET closed == [run[r] EXCEPT !.down = "closing", !.bound = NoPort]
     IN run' = [run EXCEPT ![r] = IF run[r].pc = "running" THEN Over(closed) ELSE closed]
  /\ UNCHANGED <<use, allocator, busy, events, had, steady>>

TeardownRelease(r) ==
  /\ run[r].down = "closing"
  /\ run' = [run EXCEPT ![r].down = "down"]
  /\ Unreserve(run[r].project)
  /\ UNCHANGED <<use, sticky, loaded, stored, queue, stage, todo, busy, events, had, steady>>

\* `rynk plan` asks which port would be used, here by a project that asks for none.
Peek(q) ==
  /\ use = "share" /\ events < MaxEvents
  /\ events' = events + 1
  /\ Ask(Call(0, "peek", q, NoPort, FALSE))
  /\ UNCHANGED <<use, reserved, sticky, loaded, stored, stage, todo, run, busy, had, steady>>

\* The daemon dies and is started again: only the store is left, of the share ports.
Restart ==
  /\ events < MaxEvents
  /\ events' = events + 1
  /\ reserved' = [p \in Port |-> Nobody]
  /\ loaded' = FALSE /\ sticky' = [q \in Project |-> NoPort]
  /\ IF use = "share" THEN UNCHANGED <<stored, had>>
     ELSE stored' = [q \in Project |-> NoPort] /\ had' = stored'
  /\ queue' = <<>> /\ stage' = "idle" /\ todo' = <<>> /\ steady' = {}
  /\ run' = [r \in Run |-> IF run[r].pc = "none" THEN run[r]
                           ELSE [Over(run[r]) EXCEPT !.bound = NoPort, !.down = "down"]]
  /\ UNCHANGED <<use, busy>>

-----------------------------------------------------------------------------

AllocatorStep == BeginChoice \/ Check \/ PassOver \/ Commit \/ Peeked \/ Exhausted
                 \/ BeginAdopt \/ Save

EngineStep(r) ==
  \/ \E q \in Project, want \in Preferred \cup {NoPort}, explicit \in BOOLEAN :
       Start(r, q, want, explicit)
  \/ Listen(r) \/ ListenFails(r) \/ Discover(r) \/ Adopt(r) \/ AppFails(r) \/ AppExits(r)
  \/ \E p \in Port : AppListens(r, p)
  \/ FailRelease(r) \/ Stop(r) \/ TeardownRelease(r)

Next ==
  \/ AllocatorStep
  \/ \E r \in Run : EngineStep(r)
  \/ \E q \in Project : Peek(q)
  \/ Others \/ Restart

Spec == Init /\ [][Next]_vars

-----------------------------------------------------------------------------

Calls ==
  [by : 0..MaxRuns, kind : {"allocate", "adopt", "peek"}, project : Project,
   want : Port \cup {NoPort}, strict : BOOLEAN]

Runs ==
  [project : Project \cup {Nobody}, want : Port \cup {NoPort}, explicit : BOOLEAN,
   pc : {"none", "asked", "granted", "running", "astray", "found", "failing", "done"},
   attempt : 0..(MaxListens - 1), port : Port \cup {NoPort}, bound : Port \cup {NoPort},
   down : {"no", "closing", "down"}]

\* The type invariant: the values each variable of the allocator and its callers takes.
TypeOK ==
  /\ use \in {"share", "app"}
  /\ reserved \in [Port -> Project \cup {Nobody}]
  /\ sticky \in [Project -> Port \cup {NoPort}] /\ stored \in [Project -> Port \cup {NoPort}]
  /\ loaded \in BOOLEAN
  /\ queue \in Seq(Calls)
  /\ stage \in {"idle", "check", "probe", "save"} /\ (stage # "idle" => queue # <<>>)
  /\ run \in [Run -> Runs]
  /\ busy \subseteq Port
  /\ had \in [Project -> Port \cup {NoPort}] /\ steady \subseteq Port

\* The allocator is a table in which allocate() never takes a port from another
\* project and a project holds one port, although the check of tryPort() and the commit
\* are separated by a probe, releases are not serialised and callers retry.
Table == INSTANCE PortTable WITH owner <- reserved, adopts <- (use = "app")
ImplementsPortTable == Table!Spec

Answered == queue # <<>> /\ queue' = Tail(queue) /\ events' = events

\* "A project keeps its port across restarts when free" (the comment at 62): if the port
\* it was last given was free and nobody else's during the whole call, a project gets it
\* again, and a restart of the daemon changes nothing. The one port that may take its place
\* is the one the call prefers, which choose() tries first: expose() always names one (628,
\* the port of rynk.yaml, the framework's default or 3000), so a project that was moved
\* away from its default goes back to it once that is free, and its old links are dead.
\* docs/networking.md:33 puts the default first; the comment, and "bookmarks keep working"
\* of docs/runtimes.md:55, leave this case out.
KeepsItsPort ==
  [][Answered =>
       LET call == Head(queue)
       IN (call.kind = "allocate" /\ had[call.project] \in steady)
            => had'[call.project] \in {had[call.project], call.want}]_vars

\* A call throws only if every port it may choose was taken at some time during it.
MissesNoFreePort ==
  [][Answered /\ stage = "check" =>
       LET call == Head(queue)
       IN steady \cap (IF call.strict THEN {call.want} ELSE (Low..High) \ Avoid) = {}]_vars
=============================================================================
