------------------------- MODULE NodeRegistryProofs -------------------------
(***************************************************************************)
(* For every set of nodes and every bound: the registry's types, that no   *)
(* node is fetched twice at once nor left behind in inflight, and that no  *)
(* description gives way to an earlier one.                                *)
(***************************************************************************)
EXTENDS NodeRegistry, TLAPS

-----------------------------------------------------------------------------
(* Types                                                                   *)

LEMMA RecordTypes ==
  /\ NoDetails \in Details
  /\ Unlisted \in Entry
  /\ NoFetch \in FetchRecord
  /\ NotSwept \in SweepRecord
<1>1. NoDetails \in Details
  BY DEF Details
<1>2. Unlisted \in Entry
  BY <1>1, RegistryBounds DEF Unlisted, Entry, Status, Age
<1>3. NoFetch \in FetchRecord
  <2>1. (CHOOSE n \in Node : TRUE) \in Node
    BY RegistryBounds
  <2> QED BY <1>1, <2>1, RegistryBounds DEF NoFetch, FetchRecord
<1>4. NotSwept \in SweepRecord
  BY RegistryBounds DEF NotSwept, SweepRecord, Age, Status
<1> QED BY <1>1, <1>2, <1>3, <1>4

\* What the helpers of the actions make of the state.
LEMMA HelperTypes ==
  ASSUME TypeOK, NEW n \in Node
  PROVE  /\ HeardInSweep(n) \in [Node -> SweepRecord]
         /\ LetGo(n) \in [Node -> SweepRecord]
         /\ PutDown(n) \in [Node -> SweepRecord]
         /\ Touched(n) \in [Node -> Entry]
         /\ Lost(n) \in [Node -> Entry]
         /\ Demoted(n) \in [Node -> Entry]
<1>1. sweep[n] \in SweepRecord /\ nodes[n] \in Entry
  BY DEF TypeOK
<1>2. HeardInSweep(n) \in [Node -> SweepRecord]
  <2> DEFINE s == [sweep[n] EXCEPT !.age = IF sweep[n].todo /\ sweep[n].held THEN "fresh" ELSE @]
  <2>1. s \in SweepRecord
    BY <1>1 DEF SweepRecord, Age
  <2>2. HeardInSweep(n) = [sweep EXCEPT ![n] = s]
    BY DEF HeardInSweep
  <2> HIDE DEF s
  <2> QED BY <2>1, <2>2 DEF TypeOK
<1>3. LetGo(n) \in [Node -> SweepRecord]
  <2> DEFINE s == [sweep[n] EXCEPT !.held = FALSE, !.status = nodes[n].status, !.addr = nodes[n].addr]
  <2>1. s \in SweepRecord
    BY <1>1 DEF SweepRecord, Entry
  <2>2. LetGo(n) = [sweep EXCEPT ![n] = IF sweep[n].held THEN s ELSE sweep[n]]
    BY DEF LetGo
  <2> HIDE DEF s
  <2> QED BY <2>1, <2>2, <1>1 DEF TypeOK
<1>4. PutDown(n) \in [Node -> SweepRecord]
  BY RecordTypes DEF PutDown, TypeOK
<1>5. Touched(n) \in [Node -> Entry]
  <2> DEFINE e == [nodes[n] EXCEPT !.age = "fresh", !.status = "ONLINE"]
  <2>1. e \in Entry
    BY <1>1 DEF Entry, Age, Status
  <2>2. Touched(n) = [nodes EXCEPT ![n] = e]
    BY DEF Touched
  <2> HIDE DEF e
  <2> QED BY <2>1, <2>2 DEF TypeOK
<1>6. Lost(n) \in [Node -> Entry]
  <2> DEFINE e == [nodes[n] EXCEPT !.status = "OFFLINE", !.appsDown = nodes[n].details # NoDetails]
  <2>1. e \in Entry
    BY <1>1 DEF Entry, Status
  <2>2. Lost(n) \in {nodes, [nodes EXCEPT ![n] = e]}
    BY DEF Lost
  <2> HIDE DEF e
  <2> QED BY <2>1, <2>2 DEF TypeOK
<1>7. Demoted(n) \in [Node -> Entry]
  <2> DEFINE due == Due[sweep[n].age]
             e   == [nodes[n] EXCEPT !.status = due]
  <2>1. due \in Status
    BY <1>1 DEF Due, Status, SweepRecord, Age
  <2>2. e \in Entry
    BY <1>1, <2>1 DEF Entry
  <2>3. Demoted(n) \in {nodes, Lost(n), [nodes EXCEPT ![n] = e]}
    BY DEF Demoted
  <2> HIDE DEF due, e
  <2> QED BY <1>6, <2>2, <2>3 DEF TypeOK
<1> QED BY <1>2, <1>3, <1>4, <1>5, <1>6, <1>7

\* A fetch that ends, and one that begins.
LEMMA FetchTypes ==
  ASSUME TypeOK
  PROVE  /\ \A f \in Fetch : Done(f) => fetch' \in [Fetch -> FetchRecord] /\ inflight' \subseteq Node
         /\ CanFetch => Idle \in Fetch /\ fetch[Idle].for = "none"
<1>1. \A f \in Fetch : Done(f) => fetch' \in [Fetch -> FetchRecord] /\ inflight' \subseteq Node
  BY RecordTypes DEF Done, TypeOK
<1>2. CanFetch => Idle \in Fetch /\ fetch[Idle].for = "none"
  BY DEF CanFetch, Idle
<1> QED BY <1>1, <1>2

LEMMA FailsTypes ==
  ASSUME TypeOK, NEW f \in Fetch, Fails(f)
  PROVE  failures' \in 0..MaxFailures
BY RegistryBounds DEF Fails, TypeOK

LEMMA WorldTypes ==
  ASSUME TypeOK, World
  PROVE  TypeOK'
<1>1. PICK n \in Node : Start(n) \/ Bump(n) \/ Move(n) \/ Vanish(n) \/ Quit(n)
  BY DEF World
<1>2. peer[n] \in Peer
  BY DEF TypeOK
<1>3. peer' \in [Node -> Peer]
  <2> DEFINE up    == [peer[n] EXCEPT !.up = TRUE]
             bump  == [peer[n] EXCEPT !.rev = @ + 1]
             moved == [peer[n] EXCEPT !.addr = @ + 1]
             gone  == [peer[n] EXCEPT !.up = FALSE]
             again == [up |-> FALSE, life |-> peer[n].life + 1, rev |-> 1, addr |-> peer[n].addr]
  <2>1. CASE Start(n)
    <3>1. up \in Peer
      BY <1>2 DEF Peer
    <3>2. peer' = [peer EXCEPT ![n] = up]
      BY <2>1 DEF Start
    <3> QED BY <3>1, <3>2 DEF TypeOK
  <2>2. CASE Bump(n)
    <3>1. bump \in Peer
      BY <1>2, <2>2, RegistryBounds DEF Peer, Bump
    <3>2. peer' = [peer EXCEPT ![n] = bump]
      BY <2>2 DEF Bump
    <3> QED BY <3>1, <3>2 DEF TypeOK
  <2>3. CASE Move(n)
    <3>1. moved \in Peer
      BY <1>2, <2>3, RegistryBounds DEF Peer, Move
    <3>2. peer' = [peer EXCEPT ![n] = moved]
      BY <2>3 DEF Move
    <3> QED BY <3>1, <3>2 DEF TypeOK
  <2>4. CASE Vanish(n)
    <3>1. gone \in Peer
      BY <1>2 DEF Peer
    <3>2. peer' = [peer EXCEPT ![n] = gone]
      BY <2>4 DEF Vanish
    <3> QED BY <3>1, <3>2 DEF TypeOK
  <2>5. CASE Quit(n)
    <3>1. again \in Peer
      BY <1>2, <2>5, RegistryBounds DEF Peer, Quit
    <3>2. peer' = [peer EXCEPT ![n] = again]
      BY <2>5 DEF Quit
    <3> QED BY <3>1, <3>2 DEF TypeOK
  <2> QED BY <1>1, <2>1, <2>2, <2>3, <2>4, <2>5
<1>4. byes' \subseteq Node
  BY <1>1 DEF TypeOK, Start, Bump, Move, Vanish, Quit
<1> QED
  BY <1>1, <1>3, <1>4 DEF TypeOK, Start, Bump, Move, Vanish, Quit

LEMMA HearTypes ==
  ASSUME TypeOK, Hear
  PROVE  TypeOK'
<1>1. PICK n \in Node : Heartbeat(n) \/ Announce(n) \/ Goodbye(n)
  BY DEF Hear
<1>2. CASE Heartbeat(n)
  BY <1>2, HelperTypes DEF Heartbeat, TypeOK
<1>3. CASE Announce(n)
  <2> DEFINE r == [for |-> "announcement", node |-> n, rev |-> peer[n].rev,
                   addr |-> peer[n].addr, known |-> nodes[n].rev, answer |-> NoDetails]
  <2>1. r \in FetchRecord
    BY RecordTypes, RegistryBounds DEF TypeOK, FetchRecord, Peer, Entry
  <2>2. fetch' \in {fetch, [fetch EXCEPT ![Idle] = r]} /\ inflight' \in {inflight, inflight \cup {n}}
    BY <1>3 DEF Announce
  <2> HIDE DEF r
  <2>3. fetch' \in [Fetch -> FetchRecord]
    BY <2>1, <2>2 DEF TypeOK
  <2>4. nodes' \in [Node -> Entry] /\ sweep' \in [Node -> SweepRecord]
    BY <1>3, HelperTypes DEF Announce, TypeOK
  <2> QED BY <1>3, <2>2, <2>3, <2>4 DEF Announce, TypeOK
<1>4. CASE Goodbye(n)
  BY <1>4, HelperTypes DEF Goodbye, TypeOK
<1> QED BY <1>1, <1>2, <1>3, <1>4

LEMMA FetchingTypes ==
  ASSUME TypeOK, Fetching
  PROVE  TypeOK'
<1>1. PICK f \in Fetch : \/ Answer(f) \/ Learn(f) \/ ListWithout(f) \/ Refuse(f)
                         \/ Pong(f) \/ NoPong(f)
  BY DEF Fetching
<1> DEFINE n == fetch[f].node
<1>2. fetch[f] \in FetchRecord /\ n \in Node
  BY DEF TypeOK, FetchRecord
<1>3. nodes[n] \in Entry /\ peer[n] \in Peer
  BY <1>2 DEF TypeOK
<1>4. fetch[f].answer \in Details /\ fetch[f].answer.rev \in -1..MaxRev
  BY <1>2, RegistryBounds DEF FetchRecord, Details, NoDetails
<1>5. CASE Answer(f)
  <2> DEFINE r == [fetch[f] EXCEPT !.answer = [life |-> peer[n].life, rev |-> peer[n].rev]]
  <2>1. r \in FetchRecord
    BY <1>2, <1>3 DEF FetchRecord, Details, Peer
  <2>2. fetch' = [fetch EXCEPT ![f] = r]
    BY <1>5 DEF Answer
  <2> HIDE DEF r
  <2>3. fetch' \in [Fetch -> FetchRecord]
    BY <2>1, <2>2 DEF TypeOK
  <2> QED BY <1>5, <2>3 DEF Answer, TypeOK
<1>6. CASE Learn(f)
  <2> DEFINE e == [listed |-> TRUE, status |-> "ONLINE", rev |-> fetch[f].answer.rev,
                   addr |-> fetch[f].addr, details |-> fetch[f].answer, appsDown |-> FALSE,
                   age |-> "fresh"]
  <2>1. e \in Entry
    BY <1>2, <1>4 DEF Entry, Status, Age, FetchRecord
  <2>2. nodes' = [nodes EXCEPT ![n] = e]
    BY <1>6 DEF Learn
  <2> HIDE DEF e
  <2>3. nodes' \in [Node -> Entry]
    BY <2>1, <2>2 DEF TypeOK
  <2> QED BY <1>2, <1>6, <2>3, HelperTypes, FetchTypes DEF Learn, TypeOK
<1>7. CASE ListWithout(f)
  <2> DEFINE e == [listed |-> TRUE, status |-> "ONLINE", rev |-> PlaceholderRev(f),
                   addr |-> fetch[f].addr, details |-> NoDetails, appsDown |-> FALSE,
                   age |-> "fresh"]
  <2>1. e \in Entry
    BY <1>2, RecordTypes DEF Entry, Status, Age, FetchRecord, PlaceholderRev
  <2>2. nodes' = [nodes EXCEPT ![n] = e]
    BY <1>7 DEF ListWithout
  <2> HIDE DEF e
  <2>3. nodes' \in [Node -> Entry]
    BY <2>1, <2>2 DEF TypeOK
  <2> QED BY <1>2, <1>7, <2>3, HelperTypes, FetchTypes, FailsTypes DEF ListWithout, TypeOK
<1>8. CASE Refuse(f)
  <2>1. nodes' \in [Node -> Entry]
    BY <1>8, RecordTypes DEF Refuse, TypeOK
  <2> QED BY <1>2, <1>8, <2>1, HelperTypes, FetchTypes, FailsTypes DEF Refuse, TypeOK
<1>9. CASE Pong(f)
  <2> DEFINE e == [nodes[n] EXCEPT !.status = "ONLINE", !.rev = fetch[f].answer.rev,
                     !.details = fetch[f].answer, !.appsDown = FALSE, !.age = "fresh"]
  <2>1. e \in Entry
    BY <1>3, <1>4 DEF Entry, Status, Age
  <2>2. nodes' \in {nodes, [nodes EXCEPT ![n] = e]}
    BY <1>9 DEF Pong
  <2> HIDE DEF e
  <2>3. nodes' \in [Node -> Entry]
    BY <2>1, <2>2 DEF TypeOK
  <2> QED BY <1>2, <1>9, <2>3, HelperTypes, FetchTypes DEF Pong, TypeOK
<1>10. CASE NoPong(f)
  BY <1>2, <1>10, HelperTypes, FetchTypes, FailsTypes DEF NoPong, TypeOK
<1> QED BY <1>1, <1>5, <1>6, <1>7, <1>8, <1>9, <1>10

LEMMA SweepTypes ==
  ASSUME TypeOK, Sweep
  PROVE  TypeOK'
<1>1. CASE BeginSweep
  <2>1. ASSUME NEW n \in Node
        PROVE  [NotSwept EXCEPT !.todo = TRUE, !.held = TRUE, !.age = nodes[n].age] \in SweepRecord
    BY RecordTypes DEF TypeOK, SweepRecord, Entry
  <2>2. sweep' \in [Node -> SweepRecord]
    BY <1>1, <2>1, RecordTypes DEF BeginSweep
  <2> QED BY <1>1, <2>2 DEF BeginSweep, TypeOK
<1>2. ASSUME NEW n \in Node, Ages(n)
      PROVE  TypeOK'
  <2> DEFINE e == [nodes[n] EXCEPT !.age = Older[@]]
  <2>1. e \in Entry
    BY DEF TypeOK, Entry, Age, Older
  <2>2. nodes' = [nodes EXCEPT ![n] = e]
    BY <1>2 DEF Ages
  <2> HIDE DEF e
  <2>3. nodes' \in [Node -> Entry]
    BY <2>1, <2>2 DEF TypeOK
  <2> QED BY <1>2, <2>3 DEF Ages, TypeOK
<1>3. ASSUME NEW n \in Node, Purge(n)
      PROVE  TypeOK'
  <2>1. nodes' \in [Node -> Entry]
    BY <1>3, RecordTypes DEF Purge, TypeOK
  <2> QED BY <1>3, <2>1, HelperTypes DEF Purge, TypeOK
<1>4. ASSUME NEW n \in Node, PassOver(n)
      PROVE  TypeOK'
  BY <1>4, HelperTypes DEF PassOver, TypeOK
<1>5. ASSUME NEW n \in Node, Ping(n)
      PROVE  TypeOK'
  <2> DEFINE r == [NoFetch EXCEPT !.for = "sweep", !.node = n, !.addr = SweptAddr(n)]
  <2>1. SweptAddr(n) \in 0..MaxAddrs
    BY DEF SweptAddr, TypeOK, SweepRecord, Entry
  <2>2. r \in FetchRecord
    BY <2>1, RecordTypes DEF FetchRecord
  <2>3. fetch' = [fetch EXCEPT ![Idle] = r] /\ inflight' = inflight \cup {n}
    BY <1>5 DEF Ping
  <2> HIDE DEF r
  <2>4. fetch' \in [Fetch -> FetchRecord] /\ inflight' \subseteq Node
    BY <2>2, <2>3 DEF TypeOK
  <2> DEFINE s == [sweep[n] EXCEPT !.todo = FALSE]
  <2>5. s \in SweepRecord
    BY DEF TypeOK, SweepRecord
  <2>6. sweep' = [sweep EXCEPT ![n] = s]
    BY <1>5 DEF Ping
  <2> HIDE DEF s
  <2>7. sweep' \in [Node -> SweepRecord]
    BY <2>5, <2>6 DEF TypeOK
  <2> QED BY <1>5, <2>4, <2>7 DEF Ping, TypeOK
<1>6. ASSUME NEW n \in Node, Demote(n)
      PROVE  TypeOK'
  BY <1>6, HelperTypes DEF Demote, TypeOK
<1> QED BY <1>1, <1>2, <1>3, <1>4, <1>5, <1>6 DEF Sweep

\* The registry keeps to its types.
THEOREM RegistryTypes == Spec => []TypeOK
<1>1. Init => TypeOK
  <2> SUFFICES ASSUME Init PROVE TypeOK
    OBVIOUS
  <2>1. peer \in [Node -> Peer]
    BY RegistryBounds DEF Init, Peer
  <2> QED BY <2>1, RecordTypes, RegistryBounds DEF Init, TypeOK
<1>2. TypeOK /\ [Next]_vars => TypeOK'
  <2>1. TypeOK /\ UNCHANGED vars => TypeOK'
    BY DEF TypeOK, vars
  <2> QED BY <2>1, WorldTypes, HearTypes, FetchingTypes, SweepTypes DEF Next
<1> QED BY <1>1, <1>2, PTL DEF Spec
-----------------------------------------------------------------------------
(* One fetch at a time                                                     *)

Active(f) == fetch[f].for # "none"

\* What a step does to the fetches: nothing that starts or ends one; it starts one of a
\* node that is not being fetched; or it ends one.
SameFetches ==
  /\ inflight' = inflight
  /\ \A f \in Fetch : fetch'[f].for = fetch[f].for /\ fetch'[f].node = fetch[f].node
Begins ==
  \E n \in Node, f \in Fetch :
    /\ n \notin inflight /\ inflight' = inflight \cup {n}
    /\ ~Active(f) /\ fetch'[f].for # "none" /\ fetch'[f].node = n
    /\ fetch'[f].answer = NoDetails
    /\ \A g \in Fetch \ {f} : fetch'[g] = fetch[g]
Ends == \E f \in Fetch : Active(f) /\ Done(f)

LEMMA FetchStep ==
  ASSUME TypeOK, [Next]_vars
  PROVE  SameFetches \/ Begins \/ Ends
<1>1. CASE UNCHANGED vars
  BY <1>1 DEF vars, SameFetches
<1>2. CASE World
  BY <1>2 DEF World, Start, Bump, Move, Vanish, Quit, SameFetches
<1>3. ASSUME NEW n \in Node, Heartbeat(n) \/ Goodbye(n)
      PROVE  SameFetches
  BY <1>3 DEF Heartbeat, Goodbye, SameFetches
<1>4. ASSUME NEW n \in Node, Announce(n)
      PROVE  SameFetches \/ Begins
  <2> DEFINE r == [for |-> "announcement", node |-> n, rev |-> peer[n].rev,
                   addr |-> peer[n].addr, known |-> nodes[n].rev, answer |-> NoDetails]
  <2>1. CASE MayFetch(n)
    <3>1. /\ Idle \in Fetch /\ ~Active(Idle)
          /\ n \notin inflight /\ inflight' = inflight \cup {n}
          /\ fetch' = [fetch EXCEPT ![Idle] = r]
      BY <1>4, <2>1, FetchTypes DEF Announce, MayFetch, Active
    <3>2. r.for # "none" /\ r.node = n /\ r.answer = NoDetails
      OBVIOUS
    <3> HIDE DEF r
    <3> QED BY <3>1, <3>2 DEF Begins, TypeOK
  <2>2. CASE ~MayFetch(n)
    BY <1>4, <2>2 DEF Announce, SameFetches
  <2> QED BY <2>1, <2>2
<1>5. ASSUME NEW f \in Fetch, Answer(f)
      PROVE  SameFetches
  <2>1. \A g \in Fetch : fetch'[g].for = fetch[g].for /\ fetch'[g].node = fetch[g].node
    BY <1>5 DEF Answer, TypeOK, FetchRecord
  <2> QED BY <1>5, <2>1 DEF Answer, SameFetches
<1>6. ASSUME NEW f \in Fetch,
             Learn(f) \/ ListWithout(f) \/ Refuse(f) \/ Pong(f) \/ NoPong(f)
      PROVE  Ends
  <2>1. Active(f) /\ Done(f)
    BY <1>6 DEF Learn, ListWithout, Refuse, Pong, NoPong, Active
  <2> QED BY <2>1 DEF Ends
<1>7. CASE BeginSweep
  BY <1>7 DEF BeginSweep, SameFetches
<1>8. ASSUME NEW n \in Node, Ages(n) \/ Purge(n) \/ PassOver(n) \/ Demote(n)
      PROVE  SameFetches
  BY <1>8 DEF Ages, Purge, PassOver, Demote, SameFetches
<1>9. ASSUME NEW n \in Node, Ping(n)
      PROVE  Begins
  <2> DEFINE r == [NoFetch EXCEPT !.for = "sweep", !.node = n, !.addr = SweptAddr(n)]
  <2>1. /\ Idle \in Fetch /\ ~Active(Idle)
        /\ n \notin inflight /\ inflight' = inflight \cup {n}
        /\ fetch' = [fetch EXCEPT ![Idle] = r]
    BY <1>9, FetchTypes DEF Ping, Pings, MayFetch, Active
  <2>2. r.for # "none" /\ r.node = n /\ r.answer = NoDetails
    BY DEF NoFetch
  <2> HIDE DEF r
  <2> QED BY <2>1, <2>2 DEF Begins, TypeOK
<1> QED
  BY <1>1, <1>2, <1>3, <1>4, <1>5, <1>6, <1>7, <1>8, <1>9 DEF Next, Hear, Fetching, Sweep

LEMMA OneFetchStep ==
  ASSUME TypeOK, TypeOK', OneFetchPerNode, [Next]_vars
  PROVE  OneFetchPerNode'
<1>1. CASE SameFetches
  BY <1>1 DEF OneFetchPerNode, Under, SameFetches
<1>2. CASE Begins
  <2>1. PICK n \in Node : \E f \in Fetch :
          /\ n \notin inflight /\ inflight' = inflight \cup {n}
          /\ ~Active(f) /\ fetch'[f].for # "none" /\ fetch'[f].node = n
          /\ fetch'[f].answer = NoDetails
          /\ \A g \in Fetch \ {f} : fetch'[g] = fetch[g]
    BY <1>2 DEF Begins
  <2>2. PICK f \in Fetch :
          /\ n \notin inflight /\ inflight' = inflight \cup {n}
          /\ ~Active(f) /\ fetch'[f].for # "none" /\ fetch'[f].node = n
          /\ \A g \in Fetch \ {f} : fetch'[g] = fetch[g]
    BY <2>1
  <2>3. Under(n) = {}
    BY <2>2 DEF OneFetchPerNode
  <2>4. \A m \in Node : Under(m)' = IF m = n THEN {f} ELSE Under(m)
    BY <2>2, <2>3 DEF Under, Active
  <2> QED BY <2>2, <2>4 DEF OneFetchPerNode
<1>3. CASE Ends
  <2>1. PICK f \in Fetch : Active(f) /\ Done(f)
    BY <1>3 DEF Ends
  <2>2. PICK n \in Node : n = fetch[f].node
    BY DEF TypeOK, FetchRecord
  <2>3. f \in Under(n)
    BY <2>1, <2>2 DEF Under, Active
  <2>4. Under(n) = {f}
    BY <2>2, <2>3 DEF OneFetchPerNode
  <2>5. fetch'[f].for = "none" /\ \A g \in Fetch \ {f} : fetch'[g] = fetch[g]
    BY <2>1 DEF Done, TypeOK, NoFetch
  <2>6. inflight' = inflight \ {n}
    BY <2>1, <2>2 DEF Done
  <2>7. f \notin Under(n)' /\ Under(n)' \subseteq Under(n)
    BY <2>5 DEF Under
  <2>8. \A m \in Node : Under(m)' = IF m = n THEN {} ELSE Under(m)
    <3>1. Under(n)' = {}
      BY <2>4, <2>7
    <3>2. \A m \in Node \ {n} : Under(m)' = Under(m)
      BY <2>2, <2>5 DEF Under
    <3> QED BY <3>1, <3>2
  <2> QED BY <2>2, <2>6, <2>8 DEF OneFetchPerNode
<1> QED BY <1>1, <1>2, <1>3, FetchStep

\* inflight names exactly the nodes that are being fetched, each by one caller.
THEOREM RegistryOneFetch == Spec => []OneFetchPerNode
<1>1. Init => OneFetchPerNode
  BY DEF Init, OneFetchPerNode, Under, NoFetch
<1>2. TypeOK /\ TypeOK' /\ OneFetchPerNode /\ [Next]_vars => OneFetchPerNode'
  BY OneFetchStep
<1> QED BY <1>1, <1>2, RegistryTypes, PTL DEF Spec
-----------------------------------------------------------------------------
(* The order of descriptions                                               *)

Current(n) == [life |-> peer[n].life, rev |-> peer[n].rev]

Answered(f) == Active(f) /\ fetch[f].answer # NoDetails

\* What is listed, what has been answered and what the node is at now are in this order.
InOrder ==
  /\ \A n \in Node : ~Earlier(Current(n), nodes[n].details)
  /\ \A f \in Fetch : Answered(f) =>
       /\ ~Earlier(Current(fetch[f].node), fetch[f].answer)
       /\ ~Earlier(fetch[f].answer, nodes[fetch[f].node].details)

\* Nodes only go forward.
PeersGrow == \A n \in Node : ~Earlier(Current(n)', Current(n))

\* Three ways a step may go: what is listed stays or is forgotten and no fetch is
\* answered; a fetch is answered; or an answer is listed.
Keeps ==
  /\ \A n \in Node : nodes'[n].details \in {nodes[n].details, NoDetails}
  /\ \A f \in Fetch : Answered(f)' =>
       Answered(f) /\ fetch'[f].node = fetch[f].node /\ fetch'[f].answer = fetch[f].answer
Lists(f) ==
  /\ Answered(f) /\ Done(f) /\ UNCHANGED peer
  /\ nodes'[fetch[f].node].details \in {nodes[fetch[f].node].details, fetch[f].answer}
  /\ \A n \in Node \ {fetch[f].node} : nodes'[n] = nodes[n]

Version == [life : Nat, rev : Nat]

LEMMA Versions ==
  ASSUME TypeOK
  PROVE  /\ NoDetails \in Version
         /\ \A n \in Node : Current(n) \in Version /\ nodes[n].details \in Version
         /\ \A f \in Fetch : fetch[f].node \in Node /\ fetch[f].answer \in Version
<1>1. Details \subseteq Version
  BY RegistryBounds DEF Details, NoDetails, Version
<1>2. \A n \in Node : nodes[n].details \in Details
  BY DEF TypeOK, Entry
<1>3. \A f \in Fetch : fetch[f].node \in Node /\ fetch[f].answer \in Details
  BY DEF TypeOK, FetchRecord
<1>4. \A n \in Node : Current(n) \in Version
  BY RegistryBounds DEF TypeOK, Peer, Current, Version
<1>5. NoDetails \in Version
  BY DEF NoDetails, Version
<1> QED BY <1>1, <1>2, <1>3, <1>4, <1>5

LEMMA OrderOfVersions ==
  ASSUME NEW a \in Version, NEW b \in Version, NEW c \in Version
  PROVE  /\ ~Earlier(a, a)
         /\ ~Earlier(a, NoDetails)
         /\ ~Earlier(a, b) /\ ~Earlier(b, c) => ~Earlier(a, c)
BY DEF Earlier, Version, NoDetails

LEMMA PeerStep ==
  ASSUME TypeOK, [Next]_vars
  PROVE  PeersGrow
<1>1. CASE peer' = peer
  BY <1>1, Versions, OrderOfVersions DEF PeersGrow, Current
<1>2. CASE World
  <2>1. PICK n \in Node : Start(n) \/ Bump(n) \/ Move(n) \/ Vanish(n) \/ Quit(n)
    BY <1>2 DEF World
  <2>2. peer \in [Node -> Peer] /\ peer[n] \in Peer
    BY DEF TypeOK
  <2>3. \A m \in Node \ {n} : peer'[m] = peer[m]
    BY <2>1, <2>2 DEF Start, Bump, Move, Vanish, Quit
  <2>4. \/ peer'[n].life = peer[n].life /\ peer'[n].rev = peer[n].rev
        \/ peer'[n].life = peer[n].life /\ peer'[n].rev = peer[n].rev + 1
        \/ peer'[n].life = peer[n].life + 1
    BY <2>1, <2>2 DEF Start, Bump, Move, Vanish, Quit, Peer
  <2>5. ~Earlier(Current(n)', Current(n))
    BY <2>2, <2>4, RegistryBounds DEF Earlier, Current, Peer
  <2>6. \A m \in Node \ {n} : ~Earlier(Current(m)', Current(m))
    BY <2>3, Versions, OrderOfVersions DEF Current
  <2> QED BY <2>5, <2>6 DEF PeersGrow
<1>3. ~World => peer' = peer
  BY DEF Next, vars, Hear, Fetching, Sweep, Heartbeat, Announce, Goodbye, Answer, Learn,
         ListWithout, Refuse, Pong, NoPong, BeginSweep, Ages, Purge, PassOver, Ping, Demote
<1> QED BY <1>1, <1>2, <1>3

LEMMA HelperDetails ==
  ASSUME TypeOK, NEW n \in Node, NEW m \in Node
  PROVE  /\ Touched(n)[m].details = nodes[m].details
         /\ Lost(n)[m].details = nodes[m].details
         /\ Demoted(n)[m].details = nodes[m].details
<1>1. nodes \in [Node -> Entry] /\ nodes[n] \in Entry
  BY DEF TypeOK
<1>2. Touched(n)[m].details = nodes[m].details
  BY <1>1 DEF Touched, Entry
<1>3. Lost(n)[m].details = nodes[m].details
  BY <1>1 DEF Lost, Entry
<1>4. Demoted(n)[m].details = nodes[m].details
  BY <1>1, <1>3 DEF Demoted, Entry
<1> QED BY <1>2, <1>3, <1>4

LEMMA OrderStep ==
  ASSUME TypeOK, [Next]_vars
  PROVE  \/ Keeps
         \/ \E f \in Fetch : Answer(f)
         \/ \E f \in Fetch : Lists(f)
<1> DEFINE Same == \A n \in Node : nodes'[n].details \in {nodes[n].details, NoDetails}
<1>1. ASSUME UNCHANGED fetch \/ Begins \/ Ends, Same
      PROVE  Keeps
  <2>1. CASE UNCHANGED fetch
    BY <1>1, <2>1 DEF Keeps, Answered, Active
  <2>2. CASE Begins
    <3>1. PICK f \in Fetch : /\ fetch'[f].answer = NoDetails
                             /\ \A g \in Fetch \ {f} : fetch'[g] = fetch[g]
      BY <2>2 DEF Begins
    <3> QED BY <1>1, <3>1 DEF Keeps, Answered, Active
  <2>3. CASE Ends
    <3>1. PICK f \in Fetch : fetch' = [fetch EXCEPT ![f] = NoFetch]
      BY <2>3 DEF Ends, Done
    <3>2. fetch'[f].for = "none" /\ \A g \in Fetch \ {f} : fetch'[g] = fetch[g]
      BY <3>1 DEF TypeOK, NoFetch
    <3> QED BY <1>1, <3>2 DEF Keeps, Answered, Active
  <2> QED BY <1>1, <2>1, <2>2, <2>3
<1>2. CASE UNCHANGED vars
  BY <1>1, <1>2 DEF vars
<1>3. CASE World
  <2>1. UNCHANGED <<nodes, fetch>>
    BY <1>3 DEF World, Start, Bump, Move, Vanish, Quit
  <2> QED BY <1>1, <2>1
<1>4. ASSUME NEW n \in Node, Heartbeat(n) \/ Goodbye(n)
      PROVE  Keeps
  <2>1. UNCHANGED fetch /\ nodes' \in {Touched(n), Lost(n)}
    BY <1>4 DEF Heartbeat, Goodbye
  <2>2. Same
    BY <2>1, HelperDetails
  <2> QED BY <1>1, <2>1, <2>2
<1>5. ASSUME NEW n \in Node, Announce(n)
      PROVE  Keeps
  <2>1. nodes' \in {Touched(n), nodes}
    BY <1>5 DEF Announce
  <2>2. Same
    BY <2>1, HelperDetails
  <2>3. UNCHANGED fetch \/ Begins
    <3> DEFINE r == [for |-> "announcement", node |-> n, rev |-> peer[n].rev,
                     addr |-> peer[n].addr, known |-> nodes[n].rev, answer |-> NoDetails]
    <3>1. CASE MayFetch(n)
      <4>1. /\ Idle \in Fetch /\ ~Active(Idle)
            /\ n \notin inflight /\ inflight' = inflight \cup {n}
            /\ fetch' = [fetch EXCEPT ![Idle] = r]
        BY <1>5, <3>1, FetchTypes DEF Announce, MayFetch, Active
      <4>2. r.for # "none" /\ r.node = n /\ r.answer = NoDetails
        OBVIOUS
      <4> HIDE DEF r
      <4> QED BY <4>1, <4>2 DEF Begins, TypeOK
    <3>2. CASE ~MayFetch(n)
      BY <1>5, <3>2 DEF Announce
    <3> QED BY <3>1, <3>2
  <2> QED BY <1>1, <2>2, <2>3
<1>6. ASSUME NEW f \in Fetch, ListWithout(f) \/ Refuse(f) \/ NoPong(f)
      PROVE  Keeps
  <2>1. PICK n \in Node : n = fetch[f].node
    BY Versions
  <2>2. Ends
    BY <1>6 DEF ListWithout, Refuse, NoPong, Ends, Active
  <2> DEFINE e == [listed |-> TRUE, status |-> "ONLINE", rev |-> PlaceholderRev(f),
                   addr |-> fetch[f].addr, details |-> NoDetails, appsDown |-> FALSE,
                   age |-> "fresh"]
  <2>3. e.details = NoDetails /\ Unlisted.details = NoDetails
    BY DEF Unlisted
  <2>4. nodes' \in {Demoted(n), [nodes EXCEPT ![n] = e], [nodes EXCEPT ![n] = Unlisted]}
    BY <1>6, <2>1 DEF ListWithout, Refuse, NoPong
  <2> HIDE DEF e
  <2>5. Same
    BY <2>3, <2>4, HelperDetails DEF TypeOK
  <2> QED BY <1>1, <2>2, <2>5
<1>7. ASSUME NEW f \in Fetch, Learn(f) \/ Pong(f)
      PROVE  Lists(f)
  <2>1. PICK n \in Node : n = fetch[f].node
    BY Versions
  <2>2. nodes[n] \in Entry
    BY DEF TypeOK
  <2>3. Answered(f) /\ Done(f) /\ UNCHANGED peer
    BY <1>7 DEF Learn, Pong, Answered, Active
  <2> DEFINE e == [listed |-> TRUE, status |-> "ONLINE", rev |-> fetch[f].answer.rev,
                   addr |-> fetch[f].addr, details |-> fetch[f].answer, appsDown |-> FALSE,
                   age |-> "fresh"]
             p == [nodes[n] EXCEPT !.status = "ONLINE", !.rev = fetch[f].answer.rev,
                     !.details = fetch[f].answer, !.appsDown = FALSE, !.age = "fresh"]
  <2>4. e.details = fetch[f].answer /\ p.details = fetch[f].answer
    BY <2>2 DEF Entry
  <2>5. nodes' \in {nodes, [nodes EXCEPT ![n] = e], [nodes EXCEPT ![n] = p]}
    BY <1>7, <2>1 DEF Learn, Pong
  <2> HIDE DEF e, p
  <2>6. /\ nodes'[n].details \in {nodes[n].details, fetch[f].answer}
        /\ \A m \in Node \ {n} : nodes'[m] = nodes[m]
    BY <2>4, <2>5 DEF TypeOK
  <2> QED BY <2>1, <2>3, <2>6 DEF Lists
<1>8. ASSUME NEW n \in Node, PassOver(n) \/ Demote(n) \/ Ages(n) \/ Purge(n)
      PROVE  Keeps
  <2>1. UNCHANGED fetch
    BY <1>8 DEF PassOver, Demote, Ages, Purge
  <2> DEFINE e == [nodes[n] EXCEPT !.age = Older[@]]
  <2>2. e.details = nodes[n].details /\ Unlisted.details = NoDetails
    BY DEF TypeOK, Entry, Unlisted
  <2>3. nodes' \in {nodes, Demoted(n), [nodes EXCEPT ![n] = e], [nodes EXCEPT ![n] = Unlisted]}
    BY <1>8 DEF PassOver, Demote, Ages, Purge
  <2> HIDE DEF e
  <2>4. Same
    BY <2>2, <2>3, HelperDetails DEF TypeOK
  <2> QED BY <1>1, <2>1, <2>4
<1>9. CASE BeginSweep
  BY <1>1, <1>9 DEF BeginSweep
<1>10. ASSUME NEW n \in Node, Ping(n)
       PROVE  Keeps
  <2> DEFINE r == [NoFetch EXCEPT !.for = "sweep", !.node = n, !.addr = SweptAddr(n)]
  <2>1. /\ Idle \in Fetch /\ ~Active(Idle)
        /\ n \notin inflight /\ inflight' = inflight \cup {n}
        /\ fetch' = [fetch EXCEPT ![Idle] = r]
        /\ UNCHANGED nodes
    BY <1>10, FetchTypes DEF Ping, Pings, MayFetch, Active
  <2>2. r.for # "none" /\ r.node = n /\ r.answer = NoDetails
    BY DEF NoFetch
  <2> HIDE DEF r
  <2>3. Begins
    BY <2>1, <2>2 DEF Begins, TypeOK
  <2> QED BY <1>1, <2>1, <2>3
<1> HIDE DEF Same
<1> QED
  BY <1>2, <1>3, <1>4, <1>5, <1>6, <1>7, <1>8, <1>9, <1>10 DEF Next, Hear, Fetching, Sweep

\* An answer that is listed is of the one fetch of its node: no other is left behind.
LEMMA InOrderStep ==
  ASSUME TypeOK, TypeOK', OneFetchPerNode, InOrder, [Next]_vars
  PROVE  InOrder'
<1>1. \A n \in Node : ~Earlier(Current(n)', Current(n))
  BY PeerStep DEF PeersGrow
<1>2. /\ NoDetails \in Version
      /\ \A n \in Node : /\ Current(n) \in Version /\ nodes[n].details \in Version
                         /\ Current(n)' \in Version /\ nodes'[n].details \in Version
      /\ \A f \in Fetch : /\ fetch[f].node \in Node /\ fetch[f].answer \in Version
                          /\ fetch'[f].node \in Node /\ fetch'[f].answer \in Version
  <2>1. /\ NoDetails \in Version
        /\ \A n \in Node : Current(n) \in Version /\ nodes[n].details \in Version
        /\ \A f \in Fetch : fetch[f].node \in Node /\ fetch[f].answer \in Version
    BY Versions
  <2>2. /\ \A n \in Node : Current(n)' \in Version /\ nodes'[n].details \in Version
        /\ \A f \in Fetch : fetch'[f].node \in Node /\ fetch'[f].answer \in Version
    <3>1. Details \subseteq Version
      BY RegistryBounds DEF Details, NoDetails, Version
    <3>2. \A n \in Node : nodes'[n].details \in Details
      BY DEF TypeOK, Entry
    <3>3. \A f \in Fetch : fetch'[f].node \in Node /\ fetch'[f].answer \in Details
      BY DEF TypeOK, FetchRecord
    <3>4. \A n \in Node : Current(n)' \in Version
      BY RegistryBounds DEF TypeOK, Peer, Current, Version
    <3> QED BY <3>1, <3>2, <3>3, <3>4
  <2> QED BY <2>1, <2>2
<1>3. CASE Keeps
  <2>1. ASSUME NEW n \in Node
        PROVE  ~Earlier(Current(n)', nodes'[n].details)
    <3>1. nodes'[n].details \in {nodes[n].details, NoDetails}
      BY <1>3 DEF Keeps
    <3>2. ~Earlier(Current(n), nodes[n].details)
      BY DEF InOrder
    <3>3. ~Earlier(Current(n)', nodes[n].details)
      BY <1>1, <1>2, <3>2, OrderOfVersions
    <3> QED BY <1>2, <3>1, <3>3, OrderOfVersions
  <2>2. ASSUME NEW f \in Fetch, Answered(f)'
        PROVE  /\ ~Earlier(Current(fetch[f].node)', fetch'[f].answer)
               /\ ~Earlier(fetch'[f].answer, nodes'[fetch'[f].node].details)
               /\ fetch'[f].node = fetch[f].node
    <3>1. Answered(f) /\ fetch'[f].node = fetch[f].node /\ fetch'[f].answer = fetch[f].answer
      BY <1>3, <2>2 DEF Keeps
    <3>2. PICK n \in Node : n = fetch[f].node
      BY <1>2
    <3>3. ~Earlier(Current(n), fetch[f].answer) /\ ~Earlier(fetch[f].answer, nodes[n].details)
      BY <3>1, <3>2 DEF InOrder
    <3>4. ~Earlier(Current(n)', fetch[f].answer)
      BY <1>1, <1>2, <3>3, OrderOfVersions
    <3>5. nodes'[n].details \in {nodes[n].details, NoDetails}
      BY <1>3 DEF Keeps
    <3>6. ~Earlier(fetch[f].answer, nodes'[n].details)
      BY <1>2, <3>3, <3>5, OrderOfVersions
    <3> QED BY <3>1, <3>2, <3>4, <3>6
  <2> QED BY <2>1, <2>2 DEF InOrder
<1>4. ASSUME NEW f \in Fetch, Answer(f)
      PROVE  InOrder'
  <2>1. PICK n \in Node : n = fetch[f].node
    BY <1>2
  <2>2. /\ UNCHANGED <<peer, nodes>> /\ \A m \in Node : Current(m)' = Current(m)
        /\ \A g \in Fetch \ {f} : fetch'[g] = fetch[g]
    BY <1>4 DEF Answer, Current, TypeOK
  <2>3. fetch'[f].node = n /\ fetch'[f].answer = Current(n)
    BY <1>4, <2>1 DEF Answer, Current, TypeOK, FetchRecord
  <2>4. ~Earlier(Current(n), Current(n)) /\ ~Earlier(Current(n), nodes[n].details)
    BY <1>2, OrderOfVersions DEF InOrder
  <2>5. ASSUME NEW g \in Fetch, Answered(g)'
        PROVE  /\ ~Earlier(Current(fetch'[g].node), fetch'[g].answer)
               /\ ~Earlier(fetch'[g].answer, nodes[fetch'[g].node].details)
    <3>1. CASE g = f
      BY <2>3, <2>4, <3>1
    <3>2. CASE g # f
      <4>1. fetch'[g] = fetch[g] /\ Answered(g)
        BY <2>2, <2>5, <3>2 DEF Answered, Active
      <4> QED BY <4>1 DEF InOrder
    <3> QED BY <3>1, <3>2
  <2>6. \A m \in Node : ~Earlier(Current(m)', nodes'[m].details)
    BY <2>2 DEF InOrder
  <2>7. \A g \in Fetch : Answered(g)' =>
          /\ ~Earlier(Current(fetch[g].node)', fetch'[g].answer)
          /\ ~Earlier(fetch'[g].answer, nodes'[fetch'[g].node].details)
    <3>1. \A g \in Fetch : Current(fetch[g].node)' = Current(fetch'[g].node)
      BY <1>4, <1>2, <2>2 DEF Current, Answer
    <3> QED BY <2>2, <2>5, <3>1
  <2> QED BY <2>6, <2>7 DEF InOrder
<1>5. ASSUME NEW f \in Fetch, Lists(f)
      PROVE  InOrder'
  <2>1. PICK n \in Node : n = fetch[f].node
    BY <1>2
  <2>2. /\ Answered(f) /\ UNCHANGED peer
        /\ nodes'[n].details \in {nodes[n].details, fetch[f].answer}
        /\ \A m \in Node \ {n} : nodes'[m] = nodes[m]
    BY <1>5, <2>1 DEF Lists
  <2>3. ~Earlier(Current(n), fetch[f].answer) /\ ~Earlier(Current(n), nodes[n].details)
    BY <2>1, <2>2 DEF InOrder
  <2>4. ASSUME NEW m \in Node
        PROVE  ~Earlier(Current(m)', nodes'[m].details)
    BY <2>2, <2>3 DEF InOrder, Current
  <2>5. ASSUME NEW g \in Fetch, Answered(g)'
        PROVE  /\ g # f /\ fetch'[g] = fetch[g] /\ Answered(g)
               /\ fetch[g].node # n
    <3>1. fetch'[f].for = "none" /\ \A h \in Fetch \ {f} : fetch'[h] = fetch[h]
      BY <1>5 DEF Lists, Done, TypeOK, NoFetch
    <3>2. g # f /\ fetch'[g] = fetch[g] /\ Answered(g)
      BY <2>5, <3>1 DEF Answered, Active
    <3>3. fetch[g].node # n
      BY <2>1, <2>2, <3>2 DEF OneFetchPerNode, Under, Answered, Active
    <3> QED BY <3>2, <3>3
  <2>6. ASSUME NEW g \in Fetch, Answered(g)'
        PROVE  /\ ~Earlier(Current(fetch[g].node)', fetch'[g].answer)
               /\ ~Earlier(fetch'[g].answer, nodes'[fetch'[g].node].details)
               /\ fetch'[g].node = fetch[g].node
    <3>1. PICK m \in Node : m = fetch[g].node
      BY <1>2
    <3>2. ~Earlier(Current(m), fetch[g].answer) /\ ~Earlier(fetch[g].answer, nodes[m].details)
      BY <2>5, <2>6, <3>1 DEF InOrder
    <3>3. nodes'[m] = nodes[m] /\ Current(m)' = Current(m) /\ fetch'[g] = fetch[g]
      BY <2>2, <2>5, <2>6, <3>1 DEF Current
    <3> QED BY <3>1, <3>2, <3>3 DEF Current
  <2> QED BY <2>4, <2>6 DEF InOrder
<1> QED BY <1>3, <1>4, <1>5, OrderStep

\* A description never gives way to an earlier one of the same node.
THEOREM RegistryNewestWins == Spec => NewestWins
<1>1. Init => InOrder
  <2> SUFFICES ASSUME Init PROVE InOrder
    OBVIOUS
  <2>1. \A f \in Fetch : ~Answered(f)
    BY DEF Init, Answered, Active, NoFetch
  <2>2. \A n \in Node : nodes[n].details = NoDetails /\ Current(n) \in Version
    BY RegistryBounds DEF Init, Unlisted, Current, Version
  <2> QED BY <2>1, <2>2, OrderOfVersions DEF InOrder
<1>2. TypeOK /\ TypeOK' /\ OneFetchPerNode /\ InOrder /\ [Next]_vars => InOrder'
  BY InOrderStep
<1>3. TypeOK /\ InOrder /\ [Next]_vars
        => [\A n \in Node : Forgets(n) \/ ~Earlier(nodes'[n].details, nodes[n].details)]_vars
  <2> SUFFICES ASSUME TypeOK, InOrder, [Next]_vars, NEW n \in Node
               PROVE  Forgets(n) \/ ~Earlier(nodes'[n].details, nodes[n].details)
    OBVIOUS
  <2>1. CASE nodes'[n].details = nodes[n].details
    BY <2>1, Versions, OrderOfVersions
  <2>2. CASE Keeps
    BY <2>1, <2>2 DEF Keeps, Forgets
  <2>3. CASE \E f \in Fetch : Answer(f)
    BY <2>1, <2>3 DEF Answer
  <2>4. ASSUME NEW f \in Fetch, Lists(f)
        PROVE  Forgets(n) \/ ~Earlier(nodes'[n].details, nodes[n].details)
    <3>1. nodes'[n].details \in {nodes[n].details, fetch[f].answer}
      BY <2>4 DEF Lists
    <3>2. nodes'[n].details # nodes[n].details => n = fetch[f].node
      BY <2>4 DEF Lists
    <3>3. Answered(f)
      BY <2>4 DEF Lists
    <3>4. ~Earlier(fetch[f].answer, nodes[fetch[f].node].details)
      BY <3>3 DEF InOrder
    <3>5. CASE nodes'[n].details # nodes[n].details
      BY <3>1, <3>2, <3>4, <3>5
    <3> QED BY <2>1, <3>5
  <2> QED BY <2>2, <2>3, <2>4, OrderStep
<1>4. Spec => [](TypeOK /\ OneFetchPerNode)
  BY RegistryTypes, RegistryOneFetch, PTL
<1>5. Spec => []InOrder
  BY <1>1, <1>2, <1>4, PTL DEF Spec
<1> QED BY <1>3, <1>4, <1>5, PTL DEF Spec, NewestWins
=============================================================================
