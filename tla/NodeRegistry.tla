---------------------------- MODULE NodeRegistry ----------------------------
(***************************************************************************)
(* What one daemon knows of the other nodes on the LAN                     *)
(* (packages/discovery/src/registry.ts), fed by the UDP and mDNS providers *)
(* (udp.ts, mdns.ts), and the nodes themselves as far as it can see them.  *)
(*                                                                         *)
(* onAnnouncement() and sweep() are suspended at one await, the fetch of a *)
(* node's description, which the node answers at one moment and the        *)
(* registry handles at a later one.  An announcement is handled when it    *)
(* arrives; it may be lost (never taken) and repeated; a goodbye may also  *)
(* be late.  Ages are classes of now - lastSeen.  Two nodes meet only in   *)
(* the sweep, which they delay for one another: here a sweep may be        *)
(* delayed at every node.  One sweep runs at a time.                       *)
(***************************************************************************)
EXTENDS Integers, FiniteSets

CONSTANTS
  Node,          \* the other nodes
  MaxRev,        \* bound: revisions a node goes through in one life
  MaxLives,      \* bound: times a node's daemon is started
  MaxAddrs,      \* bound: addresses a node has in turn
  MaxFailures,   \* bound: fetches that fail though the node is there
  Fetch          \* fetches under way: enough for one per node and one more

ASSUME RegistryBounds ==
  /\ MaxRev \in Nat \ {0} /\ MaxLives \in Nat \ {0} /\ MaxAddrs \in Nat \ {0}
  /\ MaxFailures \in Nat
  /\ Node # {}

VARIABLES
  peer,       \* the nodes: up, their life, revision and address
  byes,       \* nodes whose goodbye is on its way
  nodes,      \* the registry's entry of each node
  inflight,   \* nodes a fetch is under way for
  fetch,      \* the fetches: onAnnouncement() or sweep() suspended
  sweep,      \* the sweep under way: the node objects it has yet to look at
  failures    \* fetches that have failed though the node was there

vars == <<peer, byes, nodes, inflight, fetch, sweep, failures>>

Peer == [up : BOOLEAN, life : 1..MaxLives, rev : 1..MaxRev, addr : 1..MaxAddrs]

\* A description is known by the life and revision it describes.
NoDetails == [life |-> 0, rev |-> 0]
Details == {NoDetails} \cup [life : 1..MaxLives, rev : 1..MaxRev]

Age == {"fresh", "quiet", "late", "gone", "forgotten"}
Older == [fresh |-> "quiet", quiet |-> "late", late |-> "gone", gone |-> "forgotten",
          forgotten |-> "forgotten"]
Status == {"ONLINE", "UNREACHABLE", "OFFLINE"}

Entry == [listed : BOOLEAN, status : Status, rev : -1..MaxRev, addr : 0..MaxAddrs,
          details : Details, appsDown : BOOLEAN, age : Age]
Unlisted == [listed |-> FALSE, status |-> "OFFLINE", rev |-> -1, addr |-> 0,
             details |-> NoDetails, appsDown |-> FALSE, age |-> "fresh"]

FetchRecord == [for : {"none", "announcement", "sweep"}, node : Node, rev : -1..MaxRev,
                addr : 0..MaxAddrs, known : -1..MaxRev, answer : Details]
NoFetch == [for |-> "none", node |-> CHOOSE n \in Node : TRUE, rev |-> -1, addr |-> 0,
            known |-> -1, answer |-> NoDetails]

\* The sweep's hold on a node object: to do, and still the one the registry has;
\* its age by the sweep's clock; its status and address when it was replaced.
SweepRecord == [todo : BOOLEAN, held : BOOLEAN, age : Age, status : Status, addr : 0..MaxAddrs]
NotSwept == [todo |-> FALSE, held |-> FALSE, age |-> "fresh", status |-> "OFFLINE", addr |-> 0]

TypeOK ==
  /\ peer \in [Node -> Peer]
  /\ byes \subseteq Node
  /\ nodes \in [Node -> Entry]
  /\ inflight \subseteq Node
  /\ fetch \in [Fetch -> FetchRecord]
  /\ sweep \in [Node -> SweepRecord]
  /\ failures \in 0..MaxFailures

Init ==
  /\ peer = [n \in Node |-> [up |-> FALSE, life |-> 1, rev |-> 1, addr |-> 1]]
  /\ byes = {}
  /\ nodes = [n \in Node |-> Unlisted]
  /\ inflight = {}
  /\ fetch = [f \in Fetch |-> NoFetch]
  /\ sweep = [n \in Node |-> NotSwept]
  /\ failures = 0
-----------------------------------------------------------------------------
(* The nodes out there                                                     *)

Start(n) ==
  /\ ~peer[n].up
  /\ peer' = [peer EXCEPT ![n].up = TRUE]
  /\ UNCHANGED <<byes, nodes, inflight, fetch, sweep, failures>>

\* An app starts or stops: the revision goes up.
Bump(n) ==
  /\ peer[n].up /\ peer[n].rev < MaxRev
  /\ peer' = [peer EXCEPT ![n].rev = @ + 1]
  /\ UNCHANGED <<byes, nodes, inflight, fetch, sweep, failures>>

Move(n) ==
  /\ peer[n].addr < MaxAddrs
  /\ peer' = [peer EXCEPT ![n].addr = @ + 1]
  /\ UNCHANGED <<byes, nodes, inflight, fetch, sweep, failures>>

\* A node sleeps or loses the network; or its daemon is stopped, with or without a
\* goodbye.  A daemon that is started again begins at revision 1.
Vanish(n) ==
  /\ peer[n].up
  /\ peer' = [peer EXCEPT ![n].up = FALSE]
  /\ UNCHANGED <<byes, nodes, inflight, fetch, sweep, failures>>

Quit(n) ==
  /\ peer[n].up /\ peer[n].life < MaxLives
  /\ peer' = [peer EXCEPT ![n] =
        [up |-> FALSE, life |-> peer[n].life + 1, rev |-> 1, addr |-> peer[n].addr]]
  /\ byes' \in {byes, byes \cup {n}}
  /\ UNCHANGED <<nodes, inflight, fetch, sweep, failures>>
-----------------------------------------------------------------------------
(* Announcements                                                           *)

\* The sweep sees an object it has yet to look at change, or replaced by another.
HeardInSweep(n) == [sweep EXCEPT ![n].age = IF sweep[n].todo /\ sweep[n].held THEN "fresh" ELSE @]
LetGo(n) ==
  [sweep EXCEPT ![n] =
     IF @.held THEN [@ EXCEPT !.held = FALSE, !.status = nodes[n].status, !.addr = nodes[n].addr]
     ELSE @]

Touched(n) == [nodes EXCEPT ![n] = [@ EXCEPT !.age = "fresh", !.status = "ONLINE"]]

\* An announcement that tells nothing new.
Known(n) ==
  /\ nodes[n].listed
  /\ nodes[n].rev = peer[n].rev
  /\ nodes[n].addr = peer[n].addr

Heartbeat(n) ==
  /\ peer[n].up
  /\ Known(n)
  /\ nodes' = Touched(n)
  /\ sweep' = HeardInSweep(n)
  /\ UNCHANGED <<peer, byes, inflight, fetch, failures>>

CanFetch == \E f \in Fetch : fetch[f].for = "none"
Idle == CHOOSE f \in Fetch : fetch[f].for = "none"

\* Mutant: no check that a fetch is under way.
FetchAnyway(n) == TRUE

MayFetch(n) == n \notin inflight

\* An announcement of something new: fetched, unless a fetch is under way.
Announce(n) ==
  /\ peer[n].up
  /\ ~Known(n)
  /\ nodes' = IF nodes[n].listed THEN Touched(n) ELSE nodes
  /\ sweep' = IF nodes[n].listed THEN HeardInSweep(n) ELSE sweep
  /\ IF MayFetch(n)
     THEN /\ inflight' = inflight \cup {n}
          /\ CanFetch
          /\ fetch' = [fetch EXCEPT ![Idle] =
                [for |-> "announcement", node |-> n, rev |-> peer[n].rev,
                 addr |-> peer[n].addr, known |-> nodes[n].rev, answer |-> NoDetails]]
     ELSE UNCHANGED <<inflight, fetch>>
  /\ UNCHANGED <<peer, byes, failures>>

\* The node answers: its description as it is now.
Answer(f) ==
  LET n == fetch[f].node IN
    /\ fetch[f].for # "none" /\ fetch[f].answer = NoDetails
    /\ peer[n].up /\ peer[n].addr = fetch[f].addr
    /\ fetch' = [fetch EXCEPT ![f].answer = [life |-> peer[n].life, rev |-> peer[n].rev]]
    /\ UNCHANGED <<peer, byes, nodes, inflight, sweep, failures>>

\* Mutant: only a description that arrives ends the fetch (no finally).
DoneOnSuccess(f) ==
  /\ fetch' = [fetch EXCEPT ![f] = NoFetch]
  /\ inflight' = IF fetch[f].answer = NoDetails THEN inflight ELSE inflight \ {fetch[f].node}

Done(f) ==
  /\ fetch' = [fetch EXCEPT ![f] = NoFetch]
  /\ inflight' = inflight \ {fetch[f].node}

\* The description arrives: the entry is replaced.
Learn(f) ==
  LET n == fetch[f].node IN
    /\ fetch[f].for = "announcement" /\ fetch[f].answer # NoDetails
    /\ nodes' = [nodes EXCEPT ![n] =
          [listed |-> TRUE, status |-> "ONLINE", rev |-> fetch[f].answer.rev,
           addr |-> fetch[f].addr, details |-> fetch[f].answer, appsDown |-> FALSE,
           age |-> "fresh"]]
    /\ sweep' = LetGo(n)
    /\ Done(f)
    /\ UNCHANGED <<peer, byes, failures>>

\* A fetch fails; of a node that is there only so many times.
Fails(f) ==
  LET n == fetch[f].node IN
    /\ fetch[f].for # "none"
    /\ IF peer[n].up /\ peer[n].addr = fetch[f].addr
       THEN failures < MaxFailures /\ failures' = failures + 1
       ELSE UNCHANGED failures

\* Mutant: the announced revision is taken though its description is missing.
AnnouncedRev(f) == fetch[f].rev

PlaceholderRev(f) == fetch[f].known

\* No description: the node is listed by what it announced.
ListWithout(f) ==
  LET n == fetch[f].node IN
    /\ fetch[f].for = "announcement"
    /\ Fails(f)
    /\ nodes' = [nodes EXCEPT ![n] =
          [listed |-> TRUE, status |-> "ONLINE", rev |-> PlaceholderRev(f),
           addr |-> fetch[f].addr, details |-> NoDetails, appsDown |-> FALSE,
           age |-> "fresh"]]
    /\ sweep' = LetGo(n)
    /\ Done(f)
    /\ UNCHANGED <<peer, byes>>

\* The description is not signed by the node, or its clock is off.
Refuse(f) ==
  LET n == fetch[f].node IN
    /\ fetch[f].for = "announcement" /\ fetch[f].answer # NoDetails
    /\ Fails(f)
    /\ nodes' = [nodes EXCEPT ![n] = Unlisted]
    /\ sweep' = LetGo(n)
    /\ Done(f)
    /\ UNCHANGED <<peer, byes>>

\* markLost(): the apps of a node go with it.
Lost(n) ==
  IF nodes[n].listed /\ nodes[n].status # "OFFLINE"
  THEN [nodes EXCEPT ![n] = [@ EXCEPT !.status = "OFFLINE",
                                      !.appsDown = nodes[n].details # NoDetails]]
  ELSE nodes

Goodbye(n) ==
  /\ n \in byes
  /\ byes' = byes \ {n}
  /\ nodes' = Lost(n)
  /\ UNCHANGED <<peer, inflight, fetch, sweep, failures>>
-----------------------------------------------------------------------------
(* The sweep                                                               *)

Ages(n) ==
  /\ nodes[n].listed
  /\ nodes[n].age # "forgotten"
  /\ nodes' = [nodes EXCEPT ![n].age = Older[@]]
  /\ UNCHANGED <<peer, byes, inflight, fetch, sweep, failures>>

Pinging == \E f \in Fetch : fetch[f].for = "sweep"
Sweeping == Pinging \/ \E n \in Node : sweep[n].todo

BeginSweep ==
  /\ ~Sweeping
  /\ \E n \in Node : nodes[n].listed
  /\ sweep' = [n \in Node |->
        IF nodes[n].listed
        THEN [NotSwept EXCEPT !.todo = TRUE, !.held = TRUE, !.age = nodes[n].age]
        ELSE NotSwept]
  /\ UNCHANGED <<peer, byes, nodes, inflight, fetch, failures>>

\* The object in the sweep's hands.
Turn(n) == sweep[n].todo /\ ~Pinging

SweptStatus(n) == IF sweep[n].held THEN nodes[n].status ELSE sweep[n].status
SweptAddr(n) == IF sweep[n].held THEN nodes[n].addr ELSE sweep[n].addr
PutDown(n) == [sweep EXCEPT ![n] = NotSwept]

Due == [fresh |-> "ONLINE", quiet |-> "ONLINE", late |-> "UNREACHABLE", gone |-> "OFFLINE",
        forgotten |-> "OFFLINE"]

\* The status is due by the age; "lost" goes by the node's id, the rest by the object.
Demoted(n) ==
  LET next == Due[sweep[n].age] IN
    IF next = SweptStatus(n) THEN nodes
    ELSE IF next = "OFFLINE" THEN Lost(n)
    ELSE IF sweep[n].held THEN [nodes EXCEPT ![n].status = next]
    ELSE nodes

Purge(n) ==
  /\ Turn(n)
  /\ sweep[n].age = "forgotten"
  /\ nodes' = [nodes EXCEPT ![n] = Unlisted]
  /\ sweep' = PutDown(n)
  /\ UNCHANGED <<peer, byes, inflight, fetch, failures>>

PassOver(n) ==
  /\ Turn(n)
  /\ sweep[n].age # "forgotten"
  /\ SweptStatus(n) = "OFFLINE"
  /\ sweep' = PutDown(n)
  /\ UNCHANGED <<peer, byes, nodes, inflight, fetch, failures>>

Pings(n) == sweep[n].age # "fresh" /\ MayFetch(n)

\* "Beacons stopped arriving. Before demoting, try the node directly."
Ping(n) ==
  /\ Turn(n)
  /\ sweep[n].age # "forgotten" /\ SweptStatus(n) # "OFFLINE"
  /\ Pings(n)
  /\ inflight' = inflight \cup {n}
  /\ CanFetch
  /\ fetch' = [fetch EXCEPT ![Idle] =
        [NoFetch EXCEPT !.for = "sweep", !.node = n, !.addr = SweptAddr(n)]]
  /\ sweep' = [sweep EXCEPT ![n].todo = FALSE]
  /\ UNCHANGED <<peer, byes, nodes, failures>>

Demote(n) ==
  /\ Turn(n)
  /\ sweep[n].age # "forgotten" /\ SweptStatus(n) # "OFFLINE"
  /\ ~Pings(n)
  /\ nodes' = Demoted(n)
  /\ sweep' = PutDown(n)
  /\ UNCHANGED <<peer, byes, inflight, fetch, failures>>

Pong(f) ==
  LET n == fetch[f].node IN
    /\ fetch[f].for = "sweep" /\ fetch[f].answer # NoDetails
    /\ nodes' = IF sweep[n].held
                THEN [nodes EXCEPT ![n] = [@ EXCEPT !.status = "ONLINE", !.rev = fetch[f].answer.rev,
                        !.details = fetch[f].answer, !.appsDown = FALSE, !.age = "fresh"]]
                ELSE nodes
    /\ sweep' = PutDown(n)
    /\ Done(f)
    /\ UNCHANGED <<peer, byes, failures>>

NoPong(f) ==
  LET n == fetch[f].node IN
    /\ fetch[f].for = "sweep"
    /\ Fails(f)
    /\ nodes' = Demoted(n)
    /\ sweep' = PutDown(n)
    /\ Done(f)
    /\ UNCHANGED <<peer, byes>>
-----------------------------------------------------------------------------
World == \E n \in Node : Start(n) \/ Bump(n) \/ Move(n) \/ Vanish(n) \/ Quit(n)
Hear == \E n \in Node : Heartbeat(n) \/ Announce(n) \/ Goodbye(n)
Fetching ==
  \E f \in Fetch : \/ Answer(f) \/ Learn(f) \/ ListWithout(f) \/ Refuse(f)
                   \/ Pong(f) \/ NoPong(f)
Sweep == \/ BeginSweep
         \/ \E n \in Node : Ages(n) \/ Purge(n) \/ PassOver(n) \/ Ping(n) \/ Demote(n)

Next == World \/ Hear \/ Fetching \/ Sweep

\* A node that is up announces itself every few seconds; a fetch is answered or
\* fails within 2.5 s.
Fairness ==
  /\ \A n \in Node : WF_vars(Heartbeat(n) \/ Announce(n))
  /\ \A f \in Fetch : WF_vars(Answer(f) \/ Learn(f) \/ ListWithout(f) \/ Pong(f) \/ NoPong(f))

Spec == Init /\ [][Next]_vars /\ Fairness
-----------------------------------------------------------------------------
(* Correctness                                                             *)

Under(n) == {f \in Fetch : fetch[f].for # "none" /\ fetch[f].node = n}

\* inflight names exactly the nodes that are being fetched, each by one caller: a
\* name left behind by an error path would keep its node from ever being fetched
\* again, and two fetches of a node could overtake one another.
OneFetchPerNode ==
  /\ inflight = {n \in Node : Under(n) # {}}
  /\ \A n \in Node : \A f, g \in Under(n) : f = g

Earlier(d, e) == d.life < e.life \/ (d.life = e.life /\ d.rev < e.rev)
Forgets(n) == nodes'[n].details = NoDetails

\* A description never gives way to an earlier one of the same node, whichever
\* announcement or ping asked for it and whenever the answer arrives.
NewestWins == [][\A n \in Node : Forgets(n) \/ ~Earlier(nodes'[n].details, nodes[n].details)]_vars

UpToDate(n) == nodes[n].status = "ONLINE" /\ nodes[n].details.rev = peer[n].rev

\* The daemon of a node is not restarted and its address does not change.
Settled(n) == peer[n].life = 1 /\ peer[n].addr = 1

\* A settled node that stays up is time and again shown ONLINE with the description of
\* its current revision, though fetches of it fail now and then.
KeepsUp == \A n \in Node : (<>[]peer[n].up /\ []Settled(n)) => []<>UpToDate(n)

Comeback(n) == nodes[n].listed /\ nodes[n].status = "OFFLINE" /\ nodes'[n].status = "ONLINE"

\* "A node that left (goodbye or TTL) stays OFFLINE until it announces itself again"
\* (registry.ts:227): only an announcement puts it back.
AwayUntilAnnounced == [][\A n \in Node : Comeback(n) => Heartbeat(n) \/ Announce(n)]_vars
=============================================================================
