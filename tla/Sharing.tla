------------------------------ MODULE Sharing ------------------------------
(***************************************************************************)
(* The links of one deployment.  The public one leads to a cloudflared     *)
(* process: share() and unshare() of the engine over the provider of       *)
(* packages/exposure/src/index.ts, called by users, by the pipeline (a     *)
(* caller like them) and, to close it, by teardown() and fail().  With     *)
(* --provider lan it is the LAN address and no process.  The network one   *)
(* holds the address of this computer: NetworkWatcher of                   *)
(* packages/network/src/index.ts, expose() and refreshUrls().              *)
(*                                                                         *)
(* What awaits the database only goes on before any timer, process or      *)
(* request is served, and is one step with what precedes it.               *)
(***************************************************************************)
EXTENDS Naturals, Sequences, FiniteSetsExt, SequencesExt

CONSTANTS
  Caller,       \* requests and the pipeline, each with one call at a time
  MaxTunnels,   \* bound: cloudflared processes spawned
  Address,      \* addresses of this computer, the better ones first
  MaxLaunches   \* bound: launches of the deployment

ASSUME SharingBounds ==
  /\ Address \subseteq Nat \ {0} /\ IsFiniteSet(Address)
  /\ MaxTunnels \in Nat /\ MaxLaunches \in Nat \ {0}
  /\ IsFiniteSet(Caller) /\ Caller \cap {"teardown", "fail"} = {}

Tunnel == 1..MaxTunnels
None == 0
Lan == MaxTunnels + 1      \* what the LAN provider exposes
Closer == {"teardown", "fail"}
Actor == Caller \cup Closer

VARIABLES
  state,       \* "launching", "exposing", "live", "restarting", "stopping", "over"
  launches,
  closing,     \* how far teardown() and fail() are: "no", "begun", "unsharing", "closed", "done"
  exposure,    \* ld.exposure: the tunnel it names, or Lan
  public,      \* ld.urls.public: the tunnel it leads to, or Lan
  registered,  \* tunnels.get(projectId) of the provider
  proc,        \* the cloudflared processes
  act,         \* the share() or unshare() each actor is in
  waiting,     \* the actors that await a kill, in the order of their calls
  overlap,     \* history: a call began while another one was under way
  displaced,   \* history: the tunnel ld.exposure named when Lan took its place
  ifs, route,  \* the computer's addresses and the one of its default route
  known,       \* the watcher's last list
  probing,     \* the route a refresh() has learnt, if one is under way
  link,        \* ld.urls.network
  missed       \* history: the list changed between expose() and LIVE

deployment == <<state, launches, closing>>
tunnels == <<exposure, public, registered, proc, act, waiting, overlap, displaced>>
network == <<ifs, route, known, probing>>
links == <<link, missed>>
vars == <<deployment, tunnels, network, links>>

Idle == [op |-> "none", pc |-> "idle", tunnel |-> None]

\* A physical interface (no VPN) that carries the default route is ranked first.
Primary(list) ==
  IF list.star # None THEN list.star
  ELSE IF list.ifs = {} THEN None ELSE Min(list.ifs)

Listed(addresses, r) == [ifs |-> addresses, star |-> IF r \in addresses THEN r ELSE None]

Init ==
  /\ state = "launching" /\ launches = 1
  /\ closing = [c \in Closer |-> "no"]
  /\ exposure = None /\ public = None /\ registered = None
  /\ proc = [t \in Tunnel |-> "unused"]
  /\ act = [a \in Actor |-> Idle] /\ waiting = <<>> /\ overlap = FALSE
  /\ displaced = None
  /\ ifs \in SUBSET Address /\ route \in ifs \cup {None}
  /\ known = Listed(ifs, route) /\ probing = <<>>
  /\ link = None /\ missed = FALSE

-----------------------------------------------------------------------------
(* The provider.  What follows the end of a process runs at once, in the   *)
(* order in which it was awaited; Settled says that none of it is left.    *)

Ready(a) == act[a].pc = "kill" /\ proc[act[a].tunnel] = "dead"
Settled == \A a \in Actor : ~Ready(a)
Busy(a) == act[a].pc \notin {"idle", "hung"}

Closing(c) == closing[c] \notin {"no", "done"}

\* A call of a begins: is another one under way, or the end of the deployment?
Begins(a) ==
  overlap' = (overlap \/ (\E b \in Actor \ {a} : Busy(b)) \/ (\E c \in Closer \ {a} : Closing(c)))

Unused == {t \in Tunnel : proc[t] = "unused"}
\* The bound leaves a process for each call that is about to spawn one.
CanSpawn == Cardinality(Unused) > Cardinality({a \in Actor : act[a].op = "share" /\ act[a].pc = "kill"})

\* create() from the spawn on: its promise is settled by the URL, the timer, or never.
Spawn(a) ==
  /\ LET t == Min(Unused)
     IN /\ proc' = [proc EXCEPT ![t] = "opening"]
        /\ registered' = t
        /\ act' = [act EXCEPT ![a] = [op |-> "share", pc |-> "opening", tunnel |-> t]]
  /\ UNCHANGED <<exposure, public>>

\* destroy() of a registered process: kill() is awaited.
AwaitKill(a, op) ==
  /\ proc' = [proc EXCEPT ![registered] = "dying"]
  /\ act' = [act EXCEPT ![a] = [op |-> op, pc |-> "kill", tunnel |-> registered]]
  /\ waiting' = Append(waiting, a)
  /\ UNCHANGED <<exposure, public, registered>>

\* share() with cloudflare: an earlier tunnel of the project is destroyed first.
Share(a) ==
  /\ state \in {"live", "restarting"} /\ act[a] = Idle /\ Begins(a)
  /\ CanSpawn
  /\ IF registered = None THEN Spawn(a) /\ UNCHANGED waiting
     ELSE AwaitKill(a, "share")
  /\ UNCHANGED <<displaced, deployment, network, links>>

\* share() with lan: the exposure is overwritten, whatever it names, and nothing awaited.
\* Without a network create() throws.
ShareLan(a) ==
  /\ state \in {"live", "restarting"} /\ act[a] = Idle /\ ifs # {} /\ Begins(a)
  /\ exposure' = Lan /\ public' = Lan
  /\ displaced' = IF exposure \in Tunnel THEN exposure ELSE displaced
  /\ UNCHANGED <<registered, proc, act, waiting, deployment, network, links>>

\* The end of unshare(): the exposure and the public link go together.
Unshared(a) ==
  /\ exposure' = None /\ public' = None
  /\ act' = [act EXCEPT ![a] = Idle]

\* Mutant of UnshareBy: the process is left to itself.
UnshareByName(a) ==
  IF exposure = None THEN UNCHANGED <<exposure, public, registered, proc, act, waiting>>
  ELSE registered' = None /\ Unshared(a) /\ UNCHANGED <<proc, waiting>>

\* unshare(): nothing to do unless share() has come to its end.  The provider that made
\* the exposure destroys it, and lan has no process.
UnshareBy(a) ==
  IF exposure = None THEN UNCHANGED <<exposure, public, registered, proc, act, waiting>>
  ELSE IF exposure = Lan \/ registered = None
       THEN Unshared(a) /\ UNCHANGED <<registered, proc, waiting>>
       ELSE AwaitKill(a, "unshare")

Unshare(a) ==
  /\ act[a] = Idle /\ exposure # None /\ Begins(a)
  /\ UnshareBy(a)
  /\ UNCHANGED <<displaced, deployment, network, links>>

\* The awaited process has ended: destroy() forgets whatever process is registered by
\* now, then share() spawns and unshare() clears.  An unshare() that finds the exposure
\* gone throws.
Resume(a) ==
  /\ Ready(a) /\ a = SelectSeq(waiting, Ready)[1]
  /\ waiting' = Remove(waiting, a)
  /\ IF act[a].op = "share" THEN Spawn(a)
     ELSE /\ registered' = None /\ UNCHANGED proc
          /\ Unshared(a)
  /\ UNCHANGED <<deployment, overlap, displaced, network, links>>

\* cloudflared prints its URL: create() resolves and share() goes on, whatever has become
\* of the deployment meanwhile.
Opened(a) ==
  /\ act[a].pc = "opening"
  /\ LET t == act[a].tunnel
     IN /\ proc[t] \in {"opening", "dying"}
        /\ proc' = [proc EXCEPT ![t] = IF @ = "opening" THEN "open" ELSE @]
        /\ exposure' = t /\ public' = t
  /\ act' = [act EXCEPT ![a] = Idle]
  /\ UNCHANGED <<registered, waiting, overlap, displaced, deployment, network, links>>

\* The timer of create(): the process is killed, and share() throws.
TimesOut(a) ==
  /\ act[a].pc = "opening"
  /\ proc' = [proc EXCEPT ![act[a].tunnel] = "dying"]
  /\ act' = [act EXCEPT ![a] = Idle]
  /\ UNCHANGED <<exposure, public, registered, waiting, overlap, displaced, deployment, network, links>>

\* cloudflared ends, killed or by itself: the entry of its project is deleted and the
\* timer cleared, so that a create() that still waits for the URL is never answered.
ProcExits(t) ==
  /\ proc[t] \in {"opening", "open", "dying"}
  /\ proc' = [proc EXCEPT ![t] = "dead"]
  /\ registered' = None
  /\ act' = [a \in Actor |-> IF act[a].pc = "opening" /\ act[a].tunnel = t
                             THEN [Idle EXCEPT !.pc = "hung"] ELSE act[a]]
  /\ UNCHANGED <<exposure, public, waiting, overlap, displaced, deployment, network, links>>

-----------------------------------------------------------------------------
(* The deployment.                                                         *)

Failing == Closing("fail")

\* Mutant of Expose: a launch computes the links without the public one.
ExposeLan ==
  /\ state = "launching" /\ ~Failing
  /\ state' = "exposing"
  /\ link' = Primary(known) /\ public' = None /\ missed' = FALSE
  /\ UNCHANGED <<launches, closing, exposure, registered, proc, act, waiting, overlap,
                 displaced, network>>

\* expose() of a launch: the links are computed, and then the LAN address is probed.
Expose ==
  /\ state = "launching" /\ ~Failing
  /\ state' = "exposing"
  /\ link' = Primary(known) /\ public' = exposure /\ missed' = FALSE
  /\ UNCHANGED <<launches, closing, exposure, registered, proc, act, waiting, overlap,
                 displaced, network>>

GoLive ==
  /\ state = "exposing" /\ ~Failing
  /\ state' = "live"
  /\ UNCHANGED <<launches, closing, tunnels, network, links>>

\* relaunch() and onExit().
Restart ==
  /\ state = "live" /\ ~Failing
  /\ state' = "restarting"
  /\ UNCHANGED <<launches, closing, tunnels, network, links>>

LaunchAgain ==
  /\ state = "restarting" /\ ~Failing /\ launches < MaxLaunches
  /\ state' = "launching" /\ launches' = launches + 1
  /\ UNCHANGED <<closing, tunnels, network, links>>

\* teardown(): STOPPING, and the tunnel is closed if there is one.
Teardown ==
  /\ state \notin {"stopping", "over"} /\ closing["teardown"] = "no"
  /\ state' = "stopping"
  /\ closing' = [closing EXCEPT !["teardown"] = IF exposure = None THEN "closed" ELSE "unsharing"]
  /\ Begins("teardown") /\ UnshareBy("teardown")
  /\ UNCHANGED <<displaced, launches, network, links>>

\* fail(): the application and the gateway are stopped first, and the state stays.
Fail ==
  /\ state \notin {"stopping", "over"} /\ closing["fail"] = "no"
  /\ closing' = [closing EXCEPT !["fail"] = "begun"]
  /\ UNCHANGED <<state, launches, tunnels, network, links>>

FailUnshares ==
  /\ closing["fail"] = "begun"
  /\ closing' = [closing EXCEPT !["fail"] = IF exposure = None THEN "closed" ELSE "unsharing"]
  /\ Begins("fail") /\ UnshareBy("fail")
  /\ UNCHANGED <<displaced, state, launches, network, links>>

\* The rest of teardown() and fail(), an unshare() of theirs having ended or thrown.
Close(c) ==
  /\ closing[c] \in {"unsharing", "closed"} /\ act[c] = Idle
  /\ closing' = [closing EXCEPT ![c] = "done"]
  /\ state' = "over"
  /\ UNCHANGED <<launches, tunnels, network, links>>

-----------------------------------------------------------------------------
(* The network.                                                            *)

\* Wi-Fi, DHCP, a VPN: the addresses change, or only the route.
Change(addresses, r) ==
  /\ r \in addresses \cup {None} /\ <<addresses, r>> # <<ifs, route>>
  /\ ifs' = addresses /\ route' = r
  /\ UNCHANGED <<deployment, tunnels, known, probing, links>>

\* refresh() asks for the route; a second one meanwhile returns.
Probe ==
  /\ probing = <<>>
  /\ probing' = <<route>>
  /\ UNCHANGED <<deployment, tunnels, ifs, route, known, links>>

\* Mutant of Differs: the default route is left out of the signature.
DiffersInAddress(list) == list.ifs # known.ifs

\* The signature: names and addresses, and a star at the default route.
Differs(list) == list # known

\* check(), and refreshUrls() for a deployment that is live.
Check ==
  /\ probing # <<>>
  /\ probing' = <<>>
  /\ LET now == Listed(ifs, probing[1])
     IN IF Differs(now)
        THEN /\ known' = now
             /\ IF state = "live" THEN link' = Primary(now) /\ public' = exposure /\ UNCHANGED missed
                ELSE /\ missed' = (missed \/ state \in {"exposing"})
                     /\ UNCHANGED <<link, public>>
        ELSE UNCHANGED <<known, links, public>>
  /\ UNCHANGED <<deployment, exposure, registered, proc, act, waiting, overlap, displaced,
                 ifs, route>>

-----------------------------------------------------------------------------

Next ==
  \/ \E a \in Actor : Resume(a)
  \/ /\ Settled
     /\ \/ \E a \in Caller : Share(a) \/ ShareLan(a) \/ Unshare(a) \/ Opened(a) \/ TimesOut(a)
        \/ \E t \in Tunnel : ProcExits(t)
        \/ Expose \/ GoLive \/ Restart \/ LaunchAgain
        \/ Teardown \/ Fail \/ FailUnshares \/ \E c \in Closer : Close(c)
        \/ \E addresses \in SUBSET Address, r \in Address \cup {None} : Change(addresses, r)
        \/ Probe \/ Check

\* The watcher's interval fires, and the routing table answers; continuations run at once.
Continues ==
  /\ WF_vars(\E a \in Actor : Resume(a))
  /\ WF_vars(Settled /\ Probe) /\ WF_vars(Settled /\ Check)

Spec == Init /\ [][Next]_vars /\ Continues

-----------------------------------------------------------------------------

TypeOK ==
  /\ state \in {"launching", "exposing", "live", "restarting", "stopping", "over"}
  /\ launches \in 1..MaxLaunches
  /\ closing \in [Closer -> {"no", "begun", "unsharing", "closed", "done"}]
  /\ {exposure, public} \subseteq Tunnel \cup {None, Lan}
  /\ {registered, displaced} \subseteq Tunnel \cup {None}
  /\ proc \in [Tunnel -> {"unused", "opening", "open", "dying", "dead"}]
  /\ act \in [Actor -> [op : {"none", "share", "unshare"}, pc : {"idle", "kill", "opening", "hung"},
                        tunnel : Tunnel \cup {None}]]
  /\ ifs \subseteq Address /\ route \in ifs \cup {None}
  /\ link \in Address \cup {None}

Alive(t) == proc[t] \in {"opening", "open"}
Opening(t) == \E a \in Caller : act[a].pc = "opening" /\ act[a].tunnel = t

\* A public link is shown when and only when the deployment has an exposure to close,
\* whoever wrote the links last: share(), unshare(), expose() and refreshUrls() all do.
PublicLinkIsExposure == public = exposure

\* A tunnel that is alive is registered, so that the next share() ends it, and is being
\* opened or is the one unshare() and teardown() would close; and none is once the
\* deployment is over.  Calls that overlap are excepted, and so is the tunnel whose exposure
\* `share --public --provider lan` has overwritten (engine.ts:195): neither unshare(), which
\* asks lan (207), nor teardown() and fail() end it, against docs/public-sharing.md:12 ("the
\* link works as long as the project runs") and :16 (`rynk share --stop`).
NoStrayTunnel ==
  ~overlap => \A t \in Tunnel : Alive(t) =>
    registered = t /\ (Opening(t) \/ (exposure = t /\ state # "over") \/ displaced = t)

\* docs/discovery.md:62: when the network changes, the links of a live deployment follow
\* it.  Excepted is a change that came between expose() and LIVE: nobody repeats it.
LinkFollowsNetwork ==
  <>[](state = "live" /\ ~missed) /\ <>[][FALSE]_<<ifs, route>>
    => <>[](link = Primary(Listed(ifs, route)))
=============================================================================
