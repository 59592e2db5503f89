--------------------------- MODULE SharingProofs ---------------------------
(***************************************************************************)
(* For any callers, tunnels, addresses and launches: the public link is    *)
(* shown while there is an exposure to close, and no cloudflared process   *)
(* is left behind by calls that do not overlap, but the one whose exposure *)
(* another provider has overwritten.  The second rests on who              *)
(* is in which call with which process (Calls), and on what one call at a  *)
(* time leaves (Orderly).                                                  *)
(***************************************************************************)
EXTENDS Sharing, FiniteSetTheorems, WellFoundedInduction, TLAPS

Running == {"opening", "open", "dying"}
Sharers == {a \in Actor : act[a].op = "share" /\ act[a].pc = "kill"}
NoneLeft == \A t \in Tunnel : Alive(t) => displaced = t

Call == [op : {"none", "share", "unshare"}, pc : {"idle", "kill", "opening", "hung"},
         tunnel : Tunnel \cup {None}]

TunnelTypes ==
  /\ exposure \in Tunnel \cup {None, Lan} /\ registered \in Tunnel \cup {None}
  /\ displaced \in Tunnel \cup {None}
  /\ proc \in [Tunnel -> {"unused", "opening", "open", "dying", "dead"}]
  /\ act \in [Actor -> Call] /\ overlap \in BOOLEAN

DeploymentTypes ==
  /\ state \in {"launching", "exposing", "live", "restarting", "stopping", "over"}
  /\ launches \in 1..MaxLaunches
  /\ closing \in [Closer -> {"no", "begun", "unsharing", "closed", "done"}]

NetworkTypes ==
  /\ ifs \subseteq Address /\ route \in ifs \cup {None} /\ link \in Address \cup {None}
  /\ known \in [ifs : SUBSET Address, star : Address \cup {None}]

\* A process is left for each call that is about to spawn one.
Room == Cardinality(Unused) >= Cardinality(Sharers)

\* Who is in which call, and with which process.
Calls ==
  /\ \A c \in Closer : act[c].op # "share" /\ act[c].pc \in {"idle", "kill"}
  /\ \A a \in Actor : act[a].pc = "kill" =>
       /\ act[a].op \in {"share", "unshare"} /\ act[a].tunnel \in Tunnel
       /\ proc[act[a].tunnel] \in {"dying", "dead"}
  /\ \A a \in Actor : act[a].pc = "opening" =>
       /\ act[a].op = "share" /\ act[a].tunnel \in Tunnel
       /\ proc[act[a].tunnel] \in Running
  /\ registered # None => proc[registered] \in Running

OneCall == \A a, b \in Actor : Busy(a) /\ Busy(b) => a = b

\* What runs is registered, and is what the call under way is about, or the exposure, or
\* what the exposure was before lan took its place.
Tracked ==
  /\ \A t \in Tunnel : proc[t] \in Running => registered = t
  /\ \A a \in Actor : act[a].pc = "kill" => registered \in {None, act[a].tunnel}
  /\ \A t \in Tunnel : proc[t] = "opening" => Opening(t)
  /\ \A t \in Tunnel : proc[t] = "open" =>
       exposure = t \/ (displaced = t /\ exposure \notin Tunnel)

\* teardown() and fail() have closed what there was, and one of them is under way.
Closed ==
  /\ \A c \in Closer : closing[c] \in {"unsharing", "closed"} =>
       NoneLeft /\ \A a \in Actor : Busy(a) => a = c
  /\ state = "over" => NoneLeft /\ \A a \in Actor : Busy(a) => act[a].op = "unshare"
  /\ Closing("teardown") => state \in {"stopping", "over"} /\ ~Closing("fail")

\* One call at a time, as long as none has overlapped another.
Orderly == ~overlap => OneCall /\ Tracked /\ Closed

TunnelInv == TunnelTypes /\ Calls /\ Room /\ Orderly
-----------------------------------------------------------------------------
(* Processes and calls                                                     *)

LEMMA MinOfNaturals ==
  ASSUME NEW S \in SUBSET Nat, S # {}
  PROVE  Min(S) \in S
<1>1. PICK x \in S : \A y \in S : <<y, x>> \notin OpToRel(<, Nat)
  BY NatLessThanWellFounded, WFMin
<1>2. ASSUME NEW y \in S
      PROVE  x <= y
  <2>1. <<y, x>> \in Nat \X Nat
    OBVIOUS
  <2>2. ~(y < x)
    BY <1>1, <2>1 DEF OpToRel
  <2> QED
    BY <2>2
<1> QED
  BY <1>2 DEF Min

LEMMA Actors ==
  /\ Closer \subseteq Actor /\ Caller \subseteq Actor /\ Caller \cap Closer = {}
  /\ Closer = {"teardown", "fail"} /\ Actor = Caller \cup Closer
  /\ IsFiniteSet(Actor) /\ None \notin Tunnel /\ None = 0
  /\ Lan \notin Tunnel /\ Lan # None
<1>1. IsFiniteSet(Caller) /\ Caller \cap Closer = {}
  BY SharingBounds DEF Closer
<1>2. Actor = (Caller \cup {"teardown"}) \cup {"fail"}
  BY DEF Actor, Closer
<1>3. IsFiniteSet(Caller \cup {"teardown"})
  BY <1>1, FS_AddElement
<1>4. IsFiniteSet(Actor)
  BY <1>2, <1>3, FS_AddElement
<1>5. None \notin Tunnel /\ Lan \notin Tunnel /\ Lan # None
  BY SharingBounds DEF None, Tunnel, Lan
<1> QED
  BY <1>1, <1>4, <1>5 DEF Actor, Closer, None

LEMMA RoomIsFinite ==
  /\ IsFiniteSet(Unused) /\ IsFiniteSet(Sharers)
  /\ Cardinality(Unused) \in Nat /\ Cardinality(Sharers) \in Nat
<1>1. IsFiniteSet(Tunnel)
  BY SharingBounds, FS_Interval DEF Tunnel
<1>2. IsFiniteSet(Unused)
  BY <1>1, FS_Subset DEF Unused
<1>3. IsFiniteSet(Sharers)
  BY Actors, FS_Subset DEF Sharers
<1> QED
  BY <1>2, <1>3, FS_CardinalityType

LEMMA RoomKept ==
  ASSUME Room, Unused' = Unused, Sharers' \subseteq Sharers
  PROVE  Room'
<1>1. Cardinality(Sharers') <= Cardinality(Sharers) /\ Cardinality(Sharers') \in Nat
  BY RoomIsFinite, FS_Subset, FS_CardinalityType
<1> QED
  BY <1>1, RoomIsFinite DEF Room

\* A call may spawn a process if there is room for it and the calls that wait.
LEMMA RoomToSpawn ==
  ASSUME Room, NEW a \in Actor, a \in Sharers \/ CanSpawn
  PROVE  /\ Min(Unused) \in Unused
         /\ Unused' = Unused \ {Min(Unused)} /\ Sharers' = Sharers \ {a} => Room'
<1>1. CanSpawn <=> Cardinality(Unused) > Cardinality(Sharers)
  BY DEF CanSpawn, Sharers
<1>2. a \in Sharers => Cardinality(Sharers) >= 1
  BY RoomIsFinite, FS_EmptySet
<1>3. Cardinality(Unused) >= 1
  BY <1>1, <1>2, RoomIsFinite DEF Room
<1>4. Unused # {} /\ Unused \in SUBSET Nat
  BY <1>3, RoomIsFinite, FS_EmptySet DEF Unused, Tunnel
<1>5. Min(Unused) \in Unused
  BY <1>4, MinOfNaturals
<1>6. Cardinality(Unused \ {Min(Unused)}) = Cardinality(Unused) - 1
  BY <1>5, RoomIsFinite, FS_RemoveElement
<1>7. Cardinality(Sharers \ {a}) = IF a \in Sharers THEN Cardinality(Sharers) - 1 ELSE Cardinality(Sharers)
  BY RoomIsFinite, FS_RemoveElement
<1>8. Cardinality(Unused \ {Min(Unused)}) >= Cardinality(Sharers \ {a})
  BY <1>1, <1>6, <1>7, RoomIsFinite DEF Room
<1> QED
  BY <1>5, <1>8 DEF Room

LEMMA RoomToWait ==
  ASSUME CanSpawn, NEW a \in Actor, Unused' = Unused, Sharers' = Sharers \cup {a}
  PROVE  Room'
<1>1. Cardinality(Unused) > Cardinality(Sharers)
  BY DEF CanSpawn, Sharers
<1>2. Cardinality(Sharers \cup {a}) <= Cardinality(Sharers) + 1 /\ Cardinality(Sharers \cup {a}) \in Nat
  <2>1. Cardinality(Sharers \cup {a}) = IF a \in Sharers THEN Cardinality(Sharers) ELSE Cardinality(Sharers) + 1
    BY RoomIsFinite, FS_AddElement
  <2> QED
    BY <2>1, RoomIsFinite
<1>3. Cardinality(Unused) >= Cardinality(Sharers \cup {a})
  BY <1>1, <1>2, RoomIsFinite
<1> QED
  BY <1>3 DEF Room

\* An actor that begins a call which nothing overlaps is alone.
LEMMA Alone ==
  ASSUME overlap \in BOOLEAN, NEW a \in Actor, Begins(a)
  PROVE  /\ overlap' \in BOOLEAN
         /\ ~overlap' => /\ ~overlap /\ \A b \in Actor : b # a => ~Busy(b)
                         /\ \A c \in Closer : c # a => ~Closing(c)
  BY DEF Begins
-----------------------------------------------------------------------------
(* The operations of the provider                                          *)

\* create(): the new process is registered, and its call waits for the URL.
LEMMA SpawnKeeps ==
  ASSUME TunnelInv, NEW a \in Caller, Spawn(a), a \in Sharers \/ (act[a] = Idle /\ CanSpawn),
         overlap' \in BOOLEAN, UNCHANGED <<closing, displaced>>,
         ~overlap' =>
           /\ ~overlap /\ registered = None /\ \A b \in Actor : b # a => ~Busy(b)
           /\ \A c \in Closer : closing[c] \notin {"unsharing", "closed"}
           /\ state' # "over" /\ (Closing("teardown") => state' \in {"stopping", "over"})
  PROVE  TunnelInv'
<1>0. PICK t : t = Min(Unused)
  OBVIOUS
<1> DEFINE r == [op |-> "share", pc |-> "opening", tunnel |-> t]
<1>1. a \in Actor /\ a \notin Closer
  BY Actors
<1>2. t \in Tunnel /\ proc[t] = "unused"
  BY <1>0, <1>1, RoomToSpawn DEF TunnelInv, Unused
<1>3. /\ proc' = [proc EXCEPT ![t] = "opening"] /\ registered' = t /\ UNCHANGED exposure
      /\ act' = [act EXCEPT ![a] = r]
  BY <1>0 DEF Spawn
<1>4. r \in Call /\ r.op = "share" /\ r.pc = "opening" /\ r.tunnel = t
  BY <1>2 DEF Call
<1>5. TunnelTypes'
  BY <1>1, <1>2, <1>3, <1>4 DEF TunnelInv, TunnelTypes
<1> HIDE DEF r
<1>6. /\ proc'[t] = "opening" /\ \A u \in Tunnel : u # t => proc'[u] = proc[u]
      /\ act'[a] = r /\ \A b \in Actor : b # a => act'[b] = act[b]
  BY <1>1, <1>2, <1>3 DEF TunnelInv, TunnelTypes
<1>7. Calls'
  BY <1>1, <1>2, <1>3, <1>4, <1>6, Actors DEF TunnelInv, Calls, Running
<1>8. Room'
  <2>1. Unused' = Unused \ {t}
    BY <1>2, <1>6 DEF Unused
  <2>2. Sharers' = Sharers \ {a}
    BY <1>1, <1>4, <1>6 DEF Sharers
  <2> QED
    BY <1>0, <1>1, <2>1, <2>2, RoomToSpawn DEF TunnelInv
<1>9. ASSUME ~overlap'
      PROVE  OneCall' /\ Tracked' /\ Closed'
  <2>1. /\ ~overlap /\ registered = None /\ \A b \in Actor : b # a => ~Busy(b)
        /\ \A c \in Closer : closing[c] \notin {"unsharing", "closed"}
        /\ state' # "over" /\ (Closing("teardown") => state' \in {"stopping", "over"})
    BY <1>9
  <2>2. Tracked /\ Closed
    BY <2>1 DEF TunnelInv, Orderly
  <2>3. \A b \in Actor : Busy(b)' => b = a
    BY <1>6, <2>1 DEF Busy
  <2>4. OneCall'
    BY <2>3 DEF OneCall
  <2>5. \A u \in Tunnel : u # t => proc'[u] \notin Running
    BY <1>6, <2>1, <2>2, Actors DEF Tracked
  <2>6. Tracked'
    <3>1. \A b \in Actor : act'[b].pc # "kill"
      BY <1>4, <1>6, <2>1 DEF Busy
    <3>2. Opening(t)'
      BY <1>4, <1>6 DEF Opening
    <3>3. \A u \in Tunnel : proc'[u] = "opening" => u = t
      BY <2>5 DEF Running
    <3>4. \A u \in Tunnel : proc'[u] # "open"
      BY <1>6, <2>5 DEF Running
    <3> QED
      BY <1>3, <2>5, <3>1, <3>2, <3>3, <3>4 DEF Tracked
  <2>7. Closed'
    BY <2>1, <2>2 DEF Closed, Closing
  <2> QED
    BY <2>4, <2>6, <2>7
<1> QED
  BY <1>5, <1>7, <1>8, <1>9 DEF TunnelInv, Orderly

\* destroy(): the registered process is killed, and its end is awaited.
LEMMA KillKeeps ==
  ASSUME TunnelInv, NEW a \in Actor, NEW op \in {"share", "unshare"}, AwaitKill(a, op),
         registered # None, a \notin Sharers, UNCHANGED displaced,
         op = "share" => a \in Caller /\ CanSpawn,
         overlap' \in BOOLEAN,
         ~overlap' =>
           /\ ~overlap /\ \A b \in Actor : b # a => ~Busy(b)
           /\ \A c \in Closer : closing'[c] \in {"unsharing", "closed"} => c = a
           /\ state' = "over" => op = "unshare"
           /\ Closing("teardown")' => state' \in {"stopping", "over"} /\ ~Closing("fail")'
  PROVE  TunnelInv'
<1> DEFINE t == registered
           r == [op |-> op, pc |-> "kill", tunnel |-> t]
<1>1. t \in Tunnel /\ proc[t] \in Running
  BY DEF TunnelInv, TunnelTypes, Calls
<1>2. /\ proc' = [proc EXCEPT ![t] = "dying"] /\ UNCHANGED <<registered, exposure>>
      /\ act' = [act EXCEPT ![a] = r]
  BY DEF AwaitKill
<1>3. r \in Call /\ r.op = op /\ r.pc = "kill" /\ r.tunnel = t
  BY <1>1 DEF Call
<1>4. TunnelTypes'
  BY <1>1, <1>2, <1>3 DEF TunnelInv, TunnelTypes
<1> HIDE DEF r
<1>5. /\ proc'[t] = "dying" /\ \A u \in Tunnel : u # t => proc'[u] = proc[u]
      /\ act'[a] = r /\ \A b \in Actor : b # a => act'[b] = act[b]
  BY <1>1, <1>2 DEF TunnelInv, TunnelTypes
<1>6. Calls'
  <2>1. \A c \in Closer : act'[c].op # "share" /\ act'[c].pc \in {"idle", "kill"}
    BY <1>3, <1>5, Actors DEF TunnelInv, Calls
  <2>2. \A b \in Actor : act'[b].pc = "kill" =>
           /\ act'[b].op \in {"share", "unshare"} /\ act'[b].tunnel \in Tunnel
           /\ proc'[act'[b].tunnel] \in {"dying", "dead"}
    BY <1>1, <1>3, <1>5 DEF TunnelInv, Calls
  <2>3. \A b \in Actor : act'[b].pc = "opening" =>
           /\ act'[b].op = "share" /\ act'[b].tunnel \in Tunnel
           /\ proc'[act'[b].tunnel] \in Running
    BY <1>1, <1>3, <1>5 DEF TunnelInv, Calls, Running
  <2> QED
    BY <1>2, <1>5, <2>1, <2>2, <2>3 DEF Calls, Running
<1>7. Room'
  <2>1. Unused' = Unused
    BY <1>1, <1>5 DEF Unused, Running
  <2>2. CASE op = "share"
    <3>1. Sharers' = Sharers \cup {a}
      BY <1>3, <1>5, <2>2 DEF Sharers
    <3> QED
      BY <2>1, <2>2, <3>1, RoomToWait
  <2>3. CASE op = "unshare"
    <3>1. Sharers' \subseteq Sharers
      BY <1>3, <1>5, <2>3 DEF Sharers
    <3> QED
      BY <2>1, <3>1, RoomKept DEF TunnelInv
  <2> QED
    BY <2>2, <2>3
<1>8. ASSUME ~overlap'
      PROVE  OneCall' /\ Tracked' /\ Closed'
  <2>1. /\ ~overlap /\ \A b \in Actor : b # a => ~Busy(b)
        /\ \A c \in Closer : closing'[c] \in {"unsharing", "closed"} => c = a
        /\ state' = "over" => op = "unshare"
        /\ Closing("teardown")' => state' \in {"stopping", "over"} /\ ~Closing("fail")'
    BY <1>8
  <2>2. Tracked /\ Closed
    BY <2>1 DEF TunnelInv, Orderly
  <2>3. \A b \in Actor : Busy(b)' => b = a
    BY <1>5, <2>1 DEF Busy
  <2>4. \A u \in Tunnel : u # t => proc'[u] \notin Running
    BY <1>5, <2>2 DEF Tracked
  <2>5. NoneLeft'
    BY <1>5, <2>4 DEF NoneLeft, Alive, Running
  <2>6. Tracked'
    <3>1. \A b \in Actor : act'[b].pc = "kill" => b = a
      BY <2>3 DEF Busy
    <3>2. \A u \in Tunnel : proc'[u] \notin {"opening", "open"}
      BY <1>5, <2>4 DEF Running
    <3> QED
      BY <1>2, <1>3, <1>5, <2>4, <3>1, <3>2 DEF Tracked
  <2>7. Closed'
    BY <1>3, <1>5, <2>1, <2>3, <2>5 DEF Closed
  <2> QED
    BY <2>3, <2>6, <2>7 DEF OneCall
<1> QED
  BY <1>4, <1>6, <1>7, <1>8 DEF TunnelInv, Orderly

\* The end of unshare(): nothing is exposed, and nothing runs but what was displaced.
LEMMA UnsharedKeeps ==
  ASSUME TunnelInv, NEW a \in Actor, Unshared(a), UNCHANGED <<proc, displaced>>,
         registered' \in {None, registered}, overlap' \in BOOLEAN,
         ~overlap' =>
           /\ ~overlap
           /\ \A t \in Tunnel : proc[t] \in Running =>
                registered' = t /\ proc[t] # "opening" /\ (proc[t] = "open" => displaced = t)
           /\ \A b \in Actor : b # a => ~Busy(b)
           /\ Closing("teardown")' => state' \in {"stopping", "over"} /\ ~Closing("fail")'
  PROVE  TunnelInv'
<1>1. Idle \in Call /\ Idle.op = "none" /\ Idle.pc = "idle"
  BY DEF Idle, Call
<1>2. act' = [act EXCEPT ![a] = Idle] /\ exposure' = None
  BY DEF Unshared
<1>3. TunnelTypes'
  BY <1>1, <1>2 DEF TunnelInv, TunnelTypes
<1>4. act'[a] = Idle /\ \A b \in Actor : b # a => act'[b] = act[b]
  BY <1>2 DEF TunnelInv, TunnelTypes
<1>5. Calls'
  BY <1>1, <1>4, Actors DEF TunnelInv, Calls
<1>6. Room'
  <2>1. Unused' = Unused
    BY DEF Unused
  <2>2. Sharers' \subseteq Sharers
    BY <1>1, <1>4 DEF Sharers
  <2> QED
    BY <2>1, <2>2, RoomKept DEF TunnelInv
<1>7. ASSUME ~overlap'
      PROVE  OneCall' /\ Tracked' /\ Closed'
  <2>1. /\ \A t \in Tunnel : proc[t] \in Running =>
             registered' = t /\ proc[t] # "opening" /\ (proc[t] = "open" => displaced = t)
        /\ \A b \in Actor : b # a => ~Busy(b)
        /\ Closing("teardown")' => state' \in {"stopping", "over"} /\ ~Closing("fail")'
    BY <1>7
  <2>2. ASSUME NEW b \in Actor
        PROVE  ~Busy(b)'
    <3>1. CASE b = a
      BY <1>1, <1>4, <3>1 DEF Busy
    <3>2. CASE b # a
      BY <1>4, <2>1, <3>2 DEF Busy
    <3> QED
      BY <3>1, <3>2
  <2>3. NoneLeft'
    BY <2>1 DEF NoneLeft, Alive, Running
  <2>4. Tracked'
    BY <1>2, <2>1, <2>2, Actors DEF Tracked, Running, Busy
  <2> QED
    BY <2>1, <2>2, <2>3, <2>4 DEF OneCall, Closed
<1> QED
  BY <1>3, <1>5, <1>6, <1>7 DEF TunnelInv, Orderly

\* unshare(): of a request, of teardown() and of fail().
LEMMA UnshareKeeps ==
  ASSUME TunnelInv, NEW a \in Actor, UnshareBy(a), a \notin Sharers, overlap' \in BOOLEAN,
         exposure = None => a \in Closer, a \in Closer \/ act[a] = Idle, UNCHANGED displaced,
         ~overlap' =>
           /\ ~overlap /\ \A b \in Actor : b # a => ~Busy(b)
           /\ \A c \in Closer : closing'[c] \in {"unsharing", "closed"} => c = a
           /\ Closing("teardown")' => state' \in {"stopping", "over"} /\ ~Closing("fail")'
  PROVE  TunnelInv'
<1>1. CASE exposure = None
  <2>1. UNCHANGED <<exposure, registered, proc, act>>
    BY <1>1 DEF UnshareBy
  <2>2. TunnelTypes' /\ Calls' /\ Unused' = Unused /\ Sharers' = Sharers
    BY <2>1 DEF TunnelInv, TunnelTypes, Calls, Unused, Sharers
  <2>3. Room'
    BY <2>2, RoomKept DEF TunnelInv
  <2>4. ASSUME ~overlap'
        PROVE  OneCall' /\ Tracked' /\ Closed'
    <3>1. /\ ~overlap /\ \A b \in Actor : b # a => ~Busy(b)
          /\ \A c \in Closer : closing'[c] \in {"unsharing", "closed"} => c = a
          /\ Closing("teardown")' => state' \in {"stopping", "over"} /\ ~Closing("fail")'
      BY <2>4
    <3>2. Tracked
      BY <3>1 DEF TunnelInv, Orderly
    <3>3. \A b \in Actor : act[b].pc # "opening"
      BY <1>1, <3>1 DEF TunnelInv, Calls, Busy
    <3>4. NoneLeft
      BY <1>1, <3>2, <3>3, Actors DEF NoneLeft, Alive, Tracked, Opening
    <3>5. Busy(a) => act[a].op = "unshare"
      BY <1>1, <3>3 DEF TunnelInv, Calls, Busy
    <3>6. NoneLeft' /\ Tracked' /\ \A b \in Actor : Busy(b)' => b = a /\ act'[b].op = "unshare"
      BY <2>1, <3>1, <3>2, <3>4, <3>5 DEF NoneLeft, Alive, Tracked, Opening, Busy
    <3> QED
      BY <3>1, <3>6 DEF OneCall, Closed
  <2> QED
    BY <2>2, <2>3, <2>4 DEF TunnelInv, Orderly
<1>2. CASE exposure # None /\ (exposure = Lan \/ registered = None)
  <2>1. Unshared(a) /\ UNCHANGED <<registered, proc>>
    BY <1>2 DEF UnshareBy
  <2>2. ASSUME ~overlap', NEW t \in Tunnel, proc[t] \in Running
        PROVE  registered' = t /\ proc[t] # "opening" /\ (proc[t] = "open" => displaced = t)
    <3>1. Tracked /\ \A b \in Actor : b # a => ~Busy(b)
      BY <2>2 DEF TunnelInv, Orderly
    <3>2. registered = t /\ exposure = Lan
      BY <1>2, <2>2, <3>1, Actors DEF Tracked
    <3>3. act[a].pc # "opening"
      BY Actors DEF TunnelInv, Calls, Idle
    <3>4. \A b \in Actor : act[b].pc # "opening"
      BY <3>1, <3>3 DEF Busy
    <3>5. proc[t] # "opening"
      BY <3>1, <3>4, Actors DEF Tracked, Opening
    <3> QED
      BY <2>1, <3>1, <3>2, <3>5, Actors DEF Tracked
  <2> QED
    BY <1>2, <2>1, <2>2, UnsharedKeeps
<1>3. CASE exposure \notin {None, Lan} /\ registered # None
  <2>1. AwaitKill(a, "unshare")
    BY <1>3 DEF UnshareBy
  <2> QED
    BY <1>3, <2>1, KillKeeps
<1> QED
  BY <1>1, <1>2, <1>3

\* share() of a request that begins.
LEMMA ShareKeeps ==
  ASSUME TunnelInv, NEW a \in Caller, Share(a)
  PROVE  TunnelInv'
<1>1. a \in Actor /\ a \notin Closer
  BY Actors
<1>2. /\ overlap' \in BOOLEAN
      /\ ~overlap' => /\ ~overlap /\ \A b \in Actor : b # a => ~Busy(b)
                      /\ \A c \in Closer : ~Closing(c)
  BY <1>1, Alone DEF Share, TunnelInv, TunnelTypes
<1>3. /\ act[a] = Idle /\ CanSpawn /\ state \in {"live", "restarting"}
      /\ UNCHANGED <<state, closing, displaced>> /\ a \notin Sharers
  BY DEF Share, deployment, Sharers, Idle
<1>4. ~overlap' => /\ \A c \in Closer : closing[c] \notin {"unsharing", "closed"}
                   /\ ~Closing("teardown") /\ ~Closing("teardown")'
  BY <1>2, <1>3, Actors DEF Closing
<1>5. CASE registered = None
  <2>1. Spawn(a)
    BY <1>5 DEF Share
  <2> QED
    BY <1>2, <1>3, <1>4, <1>5, <2>1, SpawnKeeps
<1>6. CASE registered # None
  <2>1. AwaitKill(a, "share")
    BY <1>6 DEF Share
  <2> QED
    BY <1>1, <1>2, <1>3, <1>4, <1>6, <2>1, KillKeeps
<1> QED
  BY <1>5, <1>6

\* share() with lan: the tunnel the exposure named, if it runs, is the displaced one.
LEMMA ShareLanKeeps ==
  ASSUME TunnelInv, NEW a \in Caller, ShareLan(a)
  PROVE  TunnelInv'
<1>1. a \in Actor
  BY Actors
<1>2. /\ overlap' \in BOOLEAN
      /\ ~overlap' => /\ ~overlap /\ \A b \in Actor : b # a => ~Busy(b)
                      /\ \A c \in Closer : c # a => ~Closing(c)
  BY <1>1, Alone DEF ShareLan, TunnelInv, TunnelTypes
<1>3. /\ act[a] = Idle /\ state \in {"live", "restarting"} /\ exposure' = Lan
      /\ displaced' = IF exposure \in Tunnel THEN exposure ELSE displaced
      /\ UNCHANGED <<registered, proc, act, state, closing>>
  BY DEF ShareLan, deployment
<1>4. TunnelTypes' /\ Calls' /\ Unused' = Unused /\ Sharers' = Sharers
  BY <1>2, <1>3 DEF TunnelInv, TunnelTypes, Calls, Unused, Sharers
<1>5. Room'
  BY <1>4, RoomKept DEF TunnelInv
<1>6. ASSUME ~overlap'
      PROVE  OneCall' /\ Tracked' /\ Closed'
  <2>1. Tracked /\ OneCall
    BY <1>2, <1>6 DEF TunnelInv, Orderly
  <2>2. \A b \in Actor : ~Busy(b)
    BY <1>2, <1>3, <1>6 DEF Busy, Idle
  <2>3. \A c \in Closer : closing[c] \notin {"unsharing", "closed"} /\ ~Closing(c)
    BY <1>1, <1>2, <1>6, Actors DEF Closing
  <2>4. OneCall'
    BY <1>3, <2>1 DEF OneCall, Busy
  <2>5. \A t \in Tunnel : proc[t] = "open" => displaced' = t
    BY <1>3, <2>1, Actors DEF Tracked
  <2>6. Tracked'
    BY <1>3, <2>1, <2>5, Actors DEF Tracked, Opening
  <2>7. Closed'
    BY <1>3, <2>3, Actors DEF Closed, Closing
  <2> QED
    BY <2>4, <2>6, <2>7
<1> QED
  BY <1>4, <1>5, <1>6 DEF TunnelInv, Orderly

LEMMA ResumeKeeps ==
  ASSUME TunnelInv, NEW a \in Actor, Resume(a)
  PROVE  TunnelInv'
<1>1. /\ act[a].pc = "kill" /\ proc[act[a].tunnel] = "dead"
      /\ UNCHANGED <<state, closing, overlap, displaced>>
      /\ act[a].op \in {"share", "unshare"} /\ act[a].tunnel \in Tunnel
  BY DEF Resume, Ready, TunnelInv, Calls, deployment
<1>2. ASSUME ~overlap
      PROVE  /\ registered = None /\ \A t \in Tunnel : proc[t] \notin Running
             /\ \A b \in Actor : b # a => ~Busy(b)
             /\ Tracked /\ Closed
  <2>1. OneCall /\ Tracked /\ Closed
    BY <1>2 DEF TunnelInv, Orderly
  <2>2. Busy(a)
    BY <1>1 DEF Busy
  <2>3. registered = None
    BY <1>1, <2>1 DEF Tracked, TunnelInv, Calls, Running
  <2> QED
    BY <2>1, <2>2, <2>3, Actors DEF OneCall, Tracked
<1>3. overlap \in BOOLEAN
  BY DEF TunnelInv, TunnelTypes
<1>4. CASE act[a].op = "share"
  <2>1. Spawn(a) /\ a \in Sharers
    BY <1>1, <1>4 DEF Resume, Sharers
  <2>2. a \in Caller
    BY <1>4, Actors DEF TunnelInv, Calls
  <2>3. ~overlap => /\ \A c \in Closer : closing[c] \notin {"unsharing", "closed"}
                    /\ state # "over" /\ (Closing("teardown") => state \in {"stopping", "over"})
    <3>1. Busy(a) /\ a \notin Closer
      BY <1>1, <2>2, Actors DEF Busy
    <3> QED
      BY <1>2, <1>4, <3>1 DEF Closed
  <2> QED
    BY <1>1, <1>2, <1>3, <2>1, <2>2, <2>3, SpawnKeeps
<1>5. CASE act[a].op = "unshare"
  <2>1. Unshared(a) /\ UNCHANGED proc /\ registered' = None
    BY <1>5 DEF Resume
  <2>2. ~overlap => (Closing("teardown")' => state' \in {"stopping", "over"} /\ ~Closing("fail")')
    BY <1>1, <1>2 DEF Closed, Closing
  <2> QED
    BY <1>1, <1>2, <1>3, <2>1, <2>2, UnsharedKeeps
<1> QED
  BY <1>1, <1>4, <1>5

\* Only the process of a call that waits for a URL can open: it is alone.
LEMMA OpenedKeeps ==
  ASSUME TunnelInv, NEW a \in Caller, Opened(a)
  PROVE  TunnelInv'
<1>1. a \in Actor /\ a \notin Closer
  BY Actors
<1>2. PICK t : t = act[a].tunnel
  OBVIOUS
<1>3. /\ act[a].pc = "opening" /\ act[a].op = "share" /\ t \in Tunnel /\ proc[t] \in {"opening", "dying"}
      /\ UNCHANGED <<registered, overlap, displaced, state, closing>>
      /\ exposure' = t /\ act' = [act EXCEPT ![a] = Idle]
      /\ proc' = [proc EXCEPT ![t] = IF @ = "opening" THEN "open" ELSE @]
  BY <1>1, <1>2 DEF Opened, TunnelInv, Calls, deployment
<1>4. Idle \in Call /\ Idle.op = "none" /\ Idle.pc = "idle"
  BY DEF Idle, Call
<1>5. TunnelTypes'
  BY <1>3, <1>4 DEF TunnelInv, TunnelTypes
<1>6. /\ proc'[t] = IF proc[t] = "opening" THEN "open" ELSE proc[t]
      /\ \A u \in Tunnel : u # t => proc'[u] = proc[u]
      /\ act'[a] = Idle /\ \A b \in Actor : b # a => act'[b] = act[b]
  BY <1>1, <1>3 DEF TunnelInv, TunnelTypes
<1>7. \A u \in Tunnel : /\ proc'[u] \in Running <=> proc[u] \in Running
                        /\ proc'[u] = "opening" => proc[u] = "opening" /\ u # t
  BY <1>3, <1>6 DEF Running
<1>8. Room'
  <2>1. Unused' = Unused
    BY <1>3, <1>6 DEF Unused
  <2>2. Sharers' \subseteq Sharers
    BY <1>4, <1>6 DEF Sharers
  <2> QED
    BY <2>1, <2>2, RoomKept DEF TunnelInv
<1>9. Calls'
  <2>1. \A c \in Closer : act'[c] = act[c]
    BY <1>1, <1>6, Actors
  <2>2. \A b \in Actor : act'[b].pc \in {"kill", "opening"} => act'[b] = act[b]
    BY <1>4, <1>6
  <2>3. \A u \in Tunnel : proc[u] \in {"dying", "dead"} => proc'[u] \in {"dying", "dead"}
    BY <1>6
  <2> QED
    BY <1>3, <1>7, <2>1, <2>2, <2>3, Actors DEF TunnelInv, TunnelTypes, Calls
<1>10. ASSUME ~overlap'
       PROVE  OneCall' /\ Tracked' /\ Closed'
  <2>1. OneCall /\ Tracked /\ Closed
    BY <1>3, <1>10 DEF TunnelInv, Orderly
  <2>2. \A b \in Actor : b # a => ~Busy(b)
    BY <1>1, <1>3, <2>1 DEF OneCall, Busy
  <2>3. \A b \in Actor : ~Busy(b)'
    BY <1>4, <1>6, <2>2 DEF Busy
  <2>4. registered = t
    BY <1>3, <2>1 DEF Tracked, Running
  <2>5. \A u \in Tunnel : proc[u] \in Running => u = t
    BY <2>1, <2>4 DEF Tracked
  <2>6. Tracked'
    <3>1. \A u \in Tunnel : proc'[u] \in Running => registered' = u
      BY <1>3, <1>7, <2>4, <2>5
    <3>2. \A b \in Actor : act'[b].pc # "kill"
      BY <2>3 DEF Busy
    <3>3. \A u \in Tunnel : proc'[u] # "opening"
      BY <1>7, <2>5 DEF Running
    <3>4. \A u \in Tunnel : proc'[u] = "open" => exposure' = u
      BY <1>3, <1>7, <2>5 DEF Running
    <3> QED
      BY <3>1, <3>2, <3>3, <3>4 DEF Tracked
  <2>7. Closed'
    <3>1. Busy(a)
      BY <1>3 DEF Busy
    <3>2. \A c \in Closer : closing[c] \notin {"unsharing", "closed"}
      BY <1>1, <2>1, <3>1 DEF Closed
    <3>3. state # "over"
      BY <1>1, <1>3, <2>1, <3>1 DEF Closed
    <3> QED
      BY <1>3, <2>1, <3>2, <3>3 DEF Closed, Closing
  <2> QED
    BY <2>3, <2>6, <2>7 DEF OneCall
<1> QED
  BY <1>5, <1>8, <1>9, <1>10 DEF TunnelInv, Orderly

\* The timer of create(): the process is killed, and stays registered until it exits.
LEMMA TimesOutKeeps ==
  ASSUME TunnelInv, NEW a \in Caller, TimesOut(a)
  PROVE  TunnelInv'
<1>1. a \in Actor /\ a \notin Closer
  BY Actors
<1>2. PICK t : t = act[a].tunnel
  OBVIOUS
<1>3. /\ act[a].pc = "opening" /\ t \in Tunnel /\ proc[t] \in Running
      /\ UNCHANGED <<registered, exposure, overlap, displaced, state, closing>>
      /\ act' = [act EXCEPT ![a] = Idle] /\ proc' = [proc EXCEPT ![t] = "dying"]
  BY <1>1, <1>2 DEF TimesOut, TunnelInv, Calls, deployment
<1>4. Idle \in Call /\ Idle.op = "none" /\ Idle.pc = "idle"
  BY DEF Idle, Call
<1>5. TunnelTypes'
  BY <1>3, <1>4 DEF TunnelInv, TunnelTypes
<1>6. /\ proc'[t] = "dying" /\ \A u \in Tunnel : u # t => proc'[u] = proc[u]
      /\ act'[a] = Idle /\ \A b \in Actor : b # a => act'[b] = act[b]
  BY <1>1, <1>3 DEF TunnelInv, TunnelTypes
<1>7. \A u \in Tunnel : proc'[u] \in Running <=> proc[u] \in Running
  BY <1>3, <1>6 DEF Running
<1>8. Room'
  <2>1. Unused' = Unused
    BY <1>3, <1>6 DEF Unused, Running
  <2>2. Sharers' \subseteq Sharers
    BY <1>4, <1>6 DEF Sharers
  <2> QED
    BY <2>1, <2>2, RoomKept DEF TunnelInv
<1>9. Calls'
  <2>1. \A c \in Closer : act'[c] = act[c]
    BY <1>1, <1>6, Actors
  <2>2. \A b \in Actor : act'[b].pc \in {"kill", "opening"} => act'[b] = act[b]
    BY <1>4, <1>6
  <2>3. \A u \in Tunnel : proc[u] \in {"dying", "dead"} => proc'[u] \in {"dying", "dead"}
    BY <1>6
  <2> QED
    BY <1>3, <1>7, <2>1, <2>2, <2>3, Actors DEF TunnelInv, TunnelTypes, Calls
<1>10. ASSUME ~overlap'
       PROVE  OneCall' /\ Tracked' /\ Closed'
  <2>1. OneCall /\ Tracked /\ Closed
    BY <1>3, <1>10 DEF TunnelInv, Orderly
  <2>2. \A b \in Actor : b # a => ~Busy(b)
    BY <1>1, <1>3, <2>1 DEF OneCall, Busy
  <2>3. \A b \in Actor : ~Busy(b)'
    BY <1>4, <1>6, <2>2 DEF Busy
  <2>4. \A u \in Tunnel : proc[u] \in Running => u = t
    BY <1>3, <2>1 DEF Tracked
  <2>5. NoneLeft'
    BY <1>6, <1>7, <2>4 DEF NoneLeft, Alive, Running
  <2>6. Tracked'
    <3>1. \A u \in Tunnel : proc'[u] \notin {"opening", "open"}
      BY <1>6, <2>4 DEF Running
    <3> QED
      BY <1>3, <1>7, <2>1, <2>3, <3>1 DEF Tracked, Busy
  <2>7. Closed'
    BY <1>3, <2>1, <2>3, <2>5 DEF Closed, Closing
  <2> QED
    BY <2>3, <2>6, <2>7 DEF OneCall
<1> QED
  BY <1>5, <1>8, <1>9, <1>10 DEF TunnelInv, Orderly

\* A process ends: whatever was registered is forgotten, which was this process if no
\* call has overlapped another.
LEMMA ExitsKeeps ==
  ASSUME TunnelInv, NEW t \in Tunnel, ProcExits(t)
  PROVE  TunnelInv'
<1> DEFINE h == [Idle EXCEPT !.pc = "hung"]
<1>1. h \in Call /\ h.op = "none" /\ h.pc = "hung"
  BY DEF Idle, Call
<1>2. /\ proc[t] \in Running /\ proc' = [proc EXCEPT ![t] = "dead"] /\ registered' = None
      /\ act' = [a \in Actor |-> IF act[a].pc = "opening" /\ act[a].tunnel = t THEN h ELSE act[a]]
      /\ UNCHANGED <<exposure, overlap, displaced, state, closing>>
  BY DEF ProcExits, Running, deployment
<1> HIDE DEF h
<1>3. TunnelTypes'
  BY <1>1, <1>2 DEF TunnelInv, TunnelTypes
<1>4. /\ proc'[t] = "dead" /\ \A u \in Tunnel : u # t => proc'[u] = proc[u]
      /\ \A a \in Actor : act'[a] = IF act[a].pc = "opening" /\ act[a].tunnel = t THEN h ELSE act[a]
  BY <1>2 DEF TunnelInv, TunnelTypes
<1>5. \A a \in Actor : /\ act'[a].pc \in {"idle", "kill"} => act'[a] = act[a]
                       /\ act'[a].pc = "opening" => act'[a] = act[a] /\ act[a].tunnel # t
                       /\ act[a].pc \in {"idle", "kill"} => act'[a] = act[a]
                       /\ Busy(a)' => Busy(a) /\ act'[a] = act[a]
  BY <1>1, <1>4 DEF Busy
<1>6. Room'
  <2>1. Unused' = Unused
    BY <1>2, <1>4 DEF Unused, Running
  <2>2. Sharers' \subseteq Sharers
    BY <1>5 DEF Sharers
  <2> QED
    BY <2>1, <2>2, RoomKept DEF TunnelInv
<1>7. Calls'
  <2>1. \A c \in Closer : act'[c] = act[c]
    BY <1>5, Actors DEF TunnelInv, Calls
  <2>2. \A a \in Actor : act'[a].pc = "kill" =>
           /\ act'[a].op \in {"share", "unshare"} /\ act'[a].tunnel \in Tunnel
           /\ proc'[act'[a].tunnel] \in {"dying", "dead"}
    <3>1. \A u \in Tunnel : proc[u] \in {"dying", "dead"} => proc'[u] \in {"dying", "dead"}
      BY <1>4
    <3> QED
      BY <1>5, <3>1 DEF TunnelInv, Calls
  <2>3. \A a \in Actor : act'[a].pc = "opening" =>
           /\ act'[a].op = "share" /\ act'[a].tunnel \in Tunnel
           /\ proc'[act'[a].tunnel] \in Running
    BY <1>4, <1>5 DEF TunnelInv, Calls
  <2> QED
    BY <1>2, <2>1, <2>2, <2>3 DEF TunnelInv, Calls
<1>8. ASSUME ~overlap'
      PROVE  OneCall' /\ Tracked' /\ Closed'
  <2>1. OneCall /\ Tracked /\ Closed
    BY <1>2, <1>8 DEF TunnelInv, Orderly
  <2>2. \A u \in Tunnel : proc'[u] \notin Running
    BY <1>2, <1>4, <2>1 DEF Tracked, Running
  <2>3. NoneLeft'
    BY <2>2 DEF NoneLeft, Alive, Running
  <2>4. Tracked'
    BY <1>2, <2>2 DEF Tracked, Running
  <2>5. OneCall'
    BY <1>5, <2>1 DEF OneCall
  <2>6. Closed'
    BY <1>2, <1>5, <2>1, <2>3 DEF Closed, Closing
  <2> QED
    BY <2>4, <2>5, <2>6
<1> QED
  BY <1>3, <1>6, <1>7, <1>8 DEF TunnelInv, Orderly
-----------------------------------------------------------------------------
(* The deployment and the network                                          *)

\* A step that leaves the tunnels alone.
LEMMA TunnelsAlone ==
  ASSUME TunnelInv, UNCHANGED <<exposure, registered, proc, act, overlap, displaced>>,
         ~overlap => (Closed => Closed')
  PROVE  TunnelInv'
<1>1. TunnelTypes' /\ Calls' /\ Unused' = Unused /\ Sharers' = Sharers
  BY DEF TunnelInv, TunnelTypes, Calls, Unused, Sharers
<1>2. Room'
  BY <1>1, RoomKept DEF TunnelInv
<1>3. OneCall => OneCall'
  BY DEF OneCall, Busy
<1>4. Tracked => Tracked'
  BY DEF Tracked, Opening
<1> QED
  BY <1>1, <1>2, <1>3, <1>4 DEF TunnelInv, Orderly

LEMMA StatesKeep ==
  ASSUME TunnelInv, DeploymentTypes, Expose \/ GoLive \/ Restart \/ LaunchAgain
  PROVE  TunnelInv' /\ DeploymentTypes'
<1>1. /\ UNCHANGED <<closing, exposure, registered, proc, act, overlap, displaced>>
      /\ state \notin {"stopping", "over"} /\ state' \in {"launching", "exposing", "live", "restarting"}
  BY DEF Expose, GoLive, Restart, LaunchAgain, tunnels
<1>2. Closed => Closed'
  BY <1>1 DEF Closed, Closing, NoneLeft, Alive, Busy
<1>3. launches' \in 1..MaxLaunches
  BY SharingBounds DEF Expose, GoLive, Restart, LaunchAgain, DeploymentTypes
<1> QED
  BY <1>1, <1>2, <1>3, TunnelsAlone DEF DeploymentTypes

\* teardown() and fail() begin to close the tunnel.
LEMMA ClosersKeep ==
  ASSUME TunnelInv, DeploymentTypes, Teardown \/ FailUnshares
  PROVE  TunnelInv' /\ DeploymentTypes'
<1>1. PICK a \in Closer :
        /\ Begins(a) /\ UnshareBy(a) /\ UNCHANGED <<launches, displaced>>
        /\ closing' = [closing EXCEPT ![a] = IF exposure = None THEN "closed" ELSE "unsharing"]
        /\ (a = "teardown" /\ state' = "stopping") \/ (a = "fail" /\ UNCHANGED state)
  BY Actors DEF Teardown, FailUnshares
<1>2. DeploymentTypes'
  BY <1>1 DEF DeploymentTypes
<1>3. a \in Actor /\ a \notin Sharers
  BY Actors DEF TunnelInv, Calls, Sharers
<1>4. /\ overlap' \in BOOLEAN
      /\ ~overlap' => /\ ~overlap /\ \A b \in Actor : b # a => ~Busy(b)
                      /\ \A c \in Closer : c # a => ~Closing(c)
  BY <1>1, <1>3, Alone DEF TunnelInv, TunnelTypes
<1>5. \A c \in Closer : c # a => closing'[c] = closing[c]
  BY <1>1 DEF DeploymentTypes
<1>6. ASSUME ~overlap'
      PROVE  /\ \A c \in Closer : closing'[c] \in {"unsharing", "closed"} => c = a
             /\ Closing("teardown")' => state' \in {"stopping", "over"} /\ ~Closing("fail")'
  <2>1. \A c \in Closer : c # a => closing'[c] \in {"no", "done"}
    BY <1>4, <1>5, <1>6 DEF Closing
  <2> QED
    BY <1>1, <2>1, Actors DEF Closing
<1>7. TunnelInv'
  BY <1>1, <1>3, <1>4, <1>6, UnshareKeeps
<1> QED
  BY <1>2, <1>7

LEMMA FailKeeps ==
  ASSUME TunnelInv, DeploymentTypes, Fail
  PROVE  TunnelInv' /\ DeploymentTypes'
<1>1. /\ UNCHANGED <<state, launches, exposure, registered, proc, act, overlap, displaced>>
      /\ closing' = [closing EXCEPT !["fail"] = "begun"] /\ state \notin {"stopping", "over"}
  BY DEF Fail, tunnels
<1>2. closing'["fail"] = "begun" /\ closing'["teardown"] = closing["teardown"]
  BY <1>1, Actors DEF DeploymentTypes
<1>3. Closed => Closed'
  BY <1>1, <1>2, Actors DEF Closed, Closing, NoneLeft, Alive, Busy
<1> QED
  BY <1>1, <1>3, TunnelsAlone, Actors DEF DeploymentTypes

LEMMA CloseKeeps ==
  ASSUME TunnelInv, DeploymentTypes, NEW c \in Closer, Close(c)
  PROVE  TunnelInv' /\ DeploymentTypes'
<1>1. /\ UNCHANGED <<launches, exposure, registered, proc, act, overlap, displaced>>
      /\ closing' = [closing EXCEPT ![c] = "done"] /\ state' = "over"
      /\ closing[c] \in {"unsharing", "closed"} /\ act[c] = Idle
  BY DEF Close, tunnels
<1>2. closing'[c] = "done" /\ \A d \in Closer : d # c => closing'[d] = closing[d]
  BY <1>1 DEF DeploymentTypes
<1>3. ~Busy(c)
  BY <1>1 DEF Busy, Idle
<1>4. ASSUME Closed
      PROVE  Closed'
  <2>1. NoneLeft /\ \A a \in Actor : ~Busy(a)
    BY <1>1, <1>3, <1>4 DEF Closed
  <2>2. NoneLeft' /\ \A a \in Actor : ~Busy(a)'
    BY <1>1, <2>1 DEF NoneLeft, Alive, Busy
  <2>3. Closing("teardown")' => ~Closing("fail")'
    BY <1>2, <1>4, Actors DEF Closed, Closing
  <2> QED
    BY <1>1, <2>2, <2>3 DEF Closed
<1> QED
  BY <1>1, <1>4, TunnelsAlone DEF DeploymentTypes

\* The links follow the list of addresses, the better ones first.
LEMMA LinkTypes ==
  ASSUME NEW list \in [ifs : SUBSET Address, star : Address \cup {None}]
  PROVE  Primary(list) \in Address \cup {None}
<1>1. Address \subseteq Nat
  BY SharingBounds
<1>2. list.ifs # {} => Min(list.ifs) \in list.ifs
  BY <1>1, MinOfNaturals
<1> QED
  BY <1>2 DEF Primary

LEMMA ListTypes ==
  ASSUME NEW s \in SUBSET Address, NEW r
  PROVE  Listed(s, r) \in [ifs : SUBSET Address, star : Address \cup {None}]
  BY DEF Listed

LEMMA NetworkKeeps ==
  ASSUME NetworkTypes, [Next]_vars
  PROVE  NetworkTypes'
<1>1. CASE \E addresses \in SUBSET Address, r \in Address \cup {None} : Change(addresses, r)
  BY <1>1 DEF Change, links, NetworkTypes
<1>2. CASE Check
  <2>1. PICK now : now = Listed(ifs, probing[1])
    OBVIOUS
  <2>2. now \in [ifs : SUBSET Address, star : Address \cup {None}]
    BY <2>1, ListTypes DEF NetworkTypes
  <2>3. /\ UNCHANGED <<ifs, route>> /\ known' \in {known, now} /\ link' \in {link, Primary(now)}
    BY <1>2, <2>1 DEF Check, links
  <2> QED
    BY <2>2, <2>3, LinkTypes DEF NetworkTypes
<1>3. CASE Expose
  <2>1. UNCHANGED <<ifs, route, known>> /\ link' = Primary(known)
    BY <1>3 DEF Expose, network
  <2> QED
    BY <2>1, LinkTypes DEF NetworkTypes
<1>4. CASE UNCHANGED <<ifs, route, known, link>>
  BY <1>4 DEF NetworkTypes
<1>5. ASSUME NEW a \in Actor,
             Resume(a) \/ Share(a) \/ ShareLan(a) \/ Unshare(a) \/ Opened(a) \/ TimesOut(a)
      PROVE  UNCHANGED <<ifs, route, known, link>>
  BY <1>5 DEF Resume, Share, ShareLan, Unshare, Opened, TimesOut, network, links
<1>6. ASSUME GoLive \/ Restart \/ LaunchAgain \/ Teardown \/ Fail \/ FailUnshares \/ Probe \/ UNCHANGED vars
      PROVE  UNCHANGED <<ifs, route, known, link>>
  BY <1>6 DEF GoLive, Restart, LaunchAgain, Teardown, Fail, FailUnshares, Probe, vars, network, links
<1>7. ASSUME (\E t \in Tunnel : ProcExits(t)) \/ (\E c \in Closer : Close(c))
      PROVE  UNCHANGED <<ifs, route, known, link>>
  BY <1>7 DEF ProcExits, Close, network, links
<1> QED
  BY <1>1, <1>2, <1>3, <1>4, <1>5, <1>6, <1>7, Actors DEF Next

LEMMA UnshareRequestKeeps ==
  ASSUME TunnelInv, NEW a \in Caller, Unshare(a)
  PROVE  TunnelInv'
<1>1. a \in Actor /\ a \notin Closer
  BY Actors
<1>2. /\ act[a] = Idle /\ exposure # None /\ UnshareBy(a) /\ Begins(a)
      /\ UNCHANGED <<state, closing, displaced>>
  BY DEF Unshare, deployment
<1>3. a \notin Sharers
  BY <1>2 DEF Sharers, Idle
<1>4. /\ overlap' \in BOOLEAN
      /\ ~overlap' => /\ ~overlap /\ \A b \in Actor : b # a => ~Busy(b)
                      /\ \A c \in Closer : ~Closing(c)
  BY <1>1, <1>2, Alone DEF TunnelInv, TunnelTypes
<1>5. ~overlap' => /\ \A c \in Closer : closing'[c] \notin {"unsharing", "closed"}
                   /\ ~Closing("teardown")'
  BY <1>2, <1>4, Actors DEF Closing
<1> QED
  BY <1>1, <1>2, <1>3, <1>4, <1>5, UnshareKeeps

LEMMA NextInv ==
  ASSUME TunnelInv, DeploymentTypes, [Next]_vars
  PROVE  TunnelInv' /\ DeploymentTypes'
<1>1. ASSUME NEW a \in Actor, Resume(a)
      PROVE  TunnelInv' /\ DeploymentTypes'
  BY <1>1, ResumeKeeps DEF Resume, deployment, DeploymentTypes
<1>2. ASSUME NEW a \in Caller,
             Share(a) \/ ShareLan(a) \/ Unshare(a) \/ Opened(a) \/ TimesOut(a)
      PROVE  TunnelInv' /\ DeploymentTypes'
  <2>1. TunnelInv'
    BY <1>2, ShareKeeps, ShareLanKeeps, UnshareRequestKeeps, OpenedKeeps, TimesOutKeeps
  <2>2. UNCHANGED <<state, launches, closing>>
    BY <1>2 DEF Share, ShareLan, Unshare, Opened, TimesOut, deployment
  <2> QED
    BY <2>1, <2>2 DEF DeploymentTypes
<1>3. ASSUME NEW t \in Tunnel, ProcExits(t)
      PROVE  TunnelInv' /\ DeploymentTypes'
  BY <1>3, ExitsKeeps DEF ProcExits, deployment, DeploymentTypes
<1>4. ASSUME NEW c \in Closer, Close(c)
      PROVE  TunnelInv' /\ DeploymentTypes'
  BY <1>4, CloseKeeps
<1>5. CASE Expose \/ GoLive \/ Restart \/ LaunchAgain \/ Teardown \/ Fail \/ FailUnshares
  BY <1>5, StatesKeep, ClosersKeep, FailKeeps
<1>6. CASE \/ Probe \/ Check \/ UNCHANGED vars
           \/ \E addresses \in SUBSET Address, r \in Address \cup {None} : Change(addresses, r)
  <2>1. UNCHANGED <<state, launches, closing, exposure, registered, proc, act, overlap, displaced>>
    BY <1>6 DEF Probe, Check, Change, vars, deployment, tunnels
  <2>2. Closed => Closed'
    BY <2>1 DEF Closed, Closing, NoneLeft, Alive, Busy
  <2> QED
    BY <2>1, <2>2, TunnelsAlone DEF DeploymentTypes
<1> QED
  BY <1>1, <1>2, <1>3, <1>4, <1>5, <1>6 DEF Next

\* Whoever writes the exposure writes the public link, and the other way round.
LEMMA PublicKept ==
  ASSUME PublicLinkIsExposure, [Next]_vars
  PROVE  PublicLinkIsExposure'
<1>1. \A a : UnshareBy(a) => (exposure = public => exposure' = public')
  BY DEF UnshareBy, Unshared, AwaitKill
<1>2. ASSUME NEW a \in Actor,
             Resume(a) \/ Share(a) \/ ShareLan(a) \/ Unshare(a) \/ Opened(a) \/ TimesOut(a)
      PROVE  PublicLinkIsExposure'
  <2>1. CASE Resume(a) \/ Share(a)
    <3>1. UNCHANGED <<exposure, public>> \/ (exposure' = None /\ public' = None)
      BY <2>1 DEF Resume, Share, Spawn, AwaitKill, Unshared
    <3> QED
      BY <3>1 DEF PublicLinkIsExposure
  <2>2. CASE Unshare(a)
    BY <1>1, <2>2 DEF Unshare, PublicLinkIsExposure
  <2>3. CASE Opened(a)
    BY <2>3 DEF Opened, PublicLinkIsExposure
  <2>4. CASE TimesOut(a)
    BY <2>4 DEF TimesOut, PublicLinkIsExposure
  <2>5. CASE ShareLan(a)
    BY <2>5 DEF ShareLan, PublicLinkIsExposure
  <2> QED
    BY <1>2, <2>1, <2>2, <2>3, <2>4, <2>5
<1>3. ASSUME Teardown \/ FailUnshares
      PROVE  PublicLinkIsExposure'
  BY <1>1, <1>3 DEF Teardown, FailUnshares, PublicLinkIsExposure
<1>4. ASSUME Expose \/ Check
      PROVE  PublicLinkIsExposure'
  <2>1. UNCHANGED exposure /\ (UNCHANGED public \/ public' = exposure)
    BY <1>4 DEF Expose, Check
  <2> QED
    BY <2>1 DEF PublicLinkIsExposure
<1>5. ASSUME \/ GoLive \/ Restart \/ LaunchAgain \/ Fail \/ Probe \/ UNCHANGED vars
             \/ \E t \in Tunnel : ProcExits(t)
             \/ \E c \in Closer : Close(c)
             \/ \E addresses \in SUBSET Address, r \in Address \cup {None} : Change(addresses, r)
      PROVE  PublicLinkIsExposure'
  BY <1>5 DEF GoLive, Restart, LaunchAgain, Fail, Probe, vars, ProcExits, Close, Change, tunnels, PublicLinkIsExposure
<1> QED
  BY <1>2, <1>3, <1>4, <1>5, Actors DEF Next

LEMMA InitInv ==
  ASSUME Init
  PROVE  TunnelInv /\ DeploymentTypes /\ NetworkTypes /\ PublicLinkIsExposure
<1>1. Idle \in Call /\ Idle.op = "none" /\ Idle.pc = "idle"
  BY DEF Idle, Call
<1>2. TunnelTypes
  BY <1>1 DEF Init, TunnelTypes
<1>3. \A a \in Actor : act[a] = Idle
  BY DEF Init
<1>4. \A t \in Tunnel : proc[t] = "unused"
  BY DEF Init
<1>5. Calls /\ registered = None
  BY <1>1, <1>3, Actors DEF Init, Calls
<1>6. Room
  <2>1. Sharers = {}
    BY <1>1, <1>3 DEF Sharers
  <2> QED
    BY <2>1, FS_EmptySet, RoomIsFinite DEF Room
<1>7. OneCall /\ Tracked
  BY <1>1, <1>3, <1>4 DEF OneCall, Tracked, Busy, Running
<1>8. Closed
  <2>1. \A c \in Closer : closing[c] = "no"
    BY DEF Init
  <2> QED
    BY <2>1, Actors DEF Init, Closed, Closing
<1>9. DeploymentTypes
  BY SharingBounds DEF Init, DeploymentTypes
<1>10. NetworkTypes
  BY ListTypes DEF Init, NetworkTypes
<1> QED
  BY <1>2, <1>5, <1>6, <1>7, <1>8, <1>9, <1>10 DEF TunnelInv, Orderly, Init, PublicLinkIsExposure
-----------------------------------------------------------------------------
(* The theorems                                                            *)

LinkInv == TunnelInv /\ DeploymentTypes /\ NetworkTypes /\ PublicLinkIsExposure

\* Who is in which call with which process (Calls), and what one call at a time leaves of
\* the processes and the exposure (Orderly), hold in every state.
THEOREM SharingInvariant == Spec => []LinkInv
<1>1. Init => LinkInv
  BY InitInv DEF LinkInv
<1>2. LinkInv /\ [Next]_vars => LinkInv'
  BY NextInv, NetworkKeeps, PublicKept DEF LinkInv
<1> QED
  BY <1>1, <1>2, PTL DEF Spec

\* Every variable keeps its type: share() never lacks a process within the bound, and the
\* network link is an address of this computer or none.
THEOREM SharingTypes == Spec => []TypeOK
<1>1. LinkInv => TypeOK
  BY DEF LinkInv, TypeOK, TunnelInv, TunnelTypes, DeploymentTypes, NetworkTypes,
         PublicLinkIsExposure, Call
<1> QED
  BY <1>1, SharingInvariant, PTL

\* A public link is shown when and only when there is an exposure to close, whichever of
\* share(), unshare(), expose() and refreshUrls() wrote the links last.
THEOREM SharingPublicLink == Spec => []PublicLinkIsExposure
<1>1. LinkInv => PublicLinkIsExposure
  BY DEF LinkInv
<1> QED
  BY <1>1, SharingInvariant, PTL

\* As long as no call overlaps another, a cloudflared process that is alive is the one
\* the next share() would end, and is being opened, or is the one unshare(), teardown() and
\* fail() would end, or the one whose exposure `--provider lan` has overwritten.
THEOREM SharingNoStray == Spec => []NoStrayTunnel
<1>1. ASSUME TunnelInv
      PROVE  NoStrayTunnel
  <2> SUFFICES ASSUME ~overlap, NEW t \in Tunnel, Alive(t)
               PROVE  registered = t /\ (Opening(t) \/ (exposure = t /\ state # "over") \/ displaced = t)
    BY DEF NoStrayTunnel
  <2>1. Tracked /\ Closed
    BY <1>1 DEF TunnelInv, Orderly
  <2>2. registered = t
    BY <2>1 DEF Tracked, Alive, Running
  <2>3. state = "over" => displaced = t
    BY <2>1 DEF Closed, NoneLeft
  <2> QED
    BY <2>1, <2>2, <2>3 DEF Tracked, Alive
<1>2. LinkInv => NoStrayTunnel
  BY <1>1 DEF LinkInv
<1> QED
  BY <1>2, SharingInvariant, PTL
=============================================================================
