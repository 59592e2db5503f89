------------------------ MODULE AccessGatewayProofs ------------------------
(***************************************************************************)
(* For every set of clients, every limit and every bound: the types of the *)
(* access gateway, that an invite-only app is used by invited sessions     *)
(* only and who becomes invited, that the session table implements         *)
(* UserLimit, that a request has at most one session to join, and that no  *)
(* session is forgotten while a connection uses it.                        *)
(***************************************************************************)
EXTENDS AccessGateway, TLAPS

-----------------------------------------------------------------------------
(* Types                                                                   *)

\* The records the actions store are well-formed.
LEMMA RecordTypes ==
  /\ Unknown \in SessionRecord
  /\ [Unknown EXCEPT !.ended = TRUE] \in SessionRecord
  /\ Free \in ConnRecord
  /\ NoInvite \in InviteRecord
<1>1. (CHOOSE c \in Client : TRUE) \in Client
  BY GatewayBounds
<1>2. Unknown \in SessionRecord
  BY <1>1 DEF Unknown, SessionRecord
<1>3. [Unknown EXCEPT !.ended = TRUE] \in SessionRecord
  BY <1>2 DEF SessionRecord
<1>4. Free \in ConnRecord
  BY <1>1, GatewayBounds DEF Free, ConnRecord, ConnKind, None
<1>5. NoInvite \in InviteRecord
  BY GatewayBounds DEF NoInvite, InviteRecord
<1> QED BY <1>2, <1>3, <1>4, <1>5

\* A redeemable invite has a use left, so counting one keeps it in bounds.
LEMMA RedeemTypes ==
  ASSUME TypeOK, NEW i \in Invite \cup {None}, i = None \/ Redeemable(i), Redeem(i)
  PROVE  invite' \in [Invite -> InviteRecord]
<1>1. CASE i = None
  BY <1>1 DEF Redeem, TypeOK
<1>2. CASE i # None
  <2>1. i \in Invite /\ invite[i] \in InviteRecord
    BY <1>2 DEF TypeOK
  <2>2. invite[i].uses < invite[i].max
    BY <1>2 DEF Redeemable
  <2>3. [invite[i] EXCEPT !.uses = @ + 1] \in InviteRecord
    BY <2>1, <2>2, GatewayBounds DEF InviteRecord
  <2>4. invite' = [invite EXCEPT ![i] = [invite[i] EXCEPT !.uses = @ + 1]]
    BY <1>2 DEF Redeem
  <2> QED BY <2>1, <2>3, <2>4 DEF TypeOK
<1> QED BY <1>1, <1>2

\* What admission gives a request is a session, and its record is well-formed.
LEMMA AdmitTypes ==
  ASSUME TypeOK, NEW s \in Session, NEW c \in Client, NEW cookie \in Cookies(c),
         NEW i \in Invite \cup {None}, Admit(s, c, cookie, i)
  PROVE  /\ session' \in [Session -> SessionRecord]
         /\ opened' \in 0..MaxSessions
         /\ invite' \in [Invite -> InviteRecord]
<1>1. Touched(s, c, cookie, i) \in SessionRecord
  <2>1. session[s] \in SessionRecord
    BY DEF TypeOK
  <2> QED BY <2>1 DEF Touched, SessionRecord, ByCookie
<1>2. session' \in [Session -> SessionRecord]
  BY <1>1 DEF Admit, TypeOK
<1>3. opened' \in 0..MaxSessions
  BY GatewayBounds DEF Admit, TypeOK, Session
<1>4. invite' \in [Invite -> InviteRecord]
  BY RedeemTypes DEF Admit, MayPass
<1> QED BY <1>2, <1>3, <1>4

\* A client's jar holds None or a session id after any response.
LEMMA JarTypes ==
  ASSUME TypeOK, NEW c \in Client, NEW s \in 0..MaxSessions
  PROVE  Receives(c, s) \in [Client -> 0..MaxSessions]
BY DEF Receives, TypeOK

LEMMA VisitTypes ==
  ASSUME TypeOK, Visit
  PROVE  TypeOK'
<1>0. PICK c \in Client :
        \/ DenyEnded(c)
        \/ \E cookie \in Cookies(c) :
             \/ Get(c, cookie)
             \/ Upgrade(c, cookie)
             \/ \E i \in Invite : UseInvite(c, cookie, i) \/ DenyAtLimit(c, cookie, i)
  BY DEF Visit
<1>1. CASE DenyEnded(c)
  <2>1. None \in 0..MaxSessions
    BY GatewayBounds DEF None
  <2>2. jar' \in [Client -> 0..MaxSessions]
    BY <1>1, <2>1 DEF DenyEnded, TypeOK
  <2> QED BY <1>1, <2>2 DEF DenyEnded, TypeOK
<1>2. ASSUME NEW cookie \in Cookies(c), Get(c, cookie) \/ Upgrade(c, cookie)
      PROVE  TypeOK'
  <2>1. PICK s \in Session :
          /\ Admit(s, c, cookie, None)
          /\ \/ conn' = conn
             \/ \E k \in Conn, kind \in ConnKind, b \in BOOLEAN :
                  conn' = [conn EXCEPT ![k] =
                     [kind |-> kind, session |-> s, client |-> c, cookie |-> b]]
    <3>1. CASE Get(c, cookie)
      BY <3>1 DEF Get, ConnKind, ByCookie
    <3>2. CASE Upgrade(c, cookie)
      BY <3>2 DEF Upgrade, ConnKind
    <3> QED BY <1>2, <3>1, <3>2
  <2>2. conn' \in [Conn -> ConnRecord]
    <3>1. ASSUME NEW kind \in ConnKind, NEW b \in BOOLEAN
          PROVE  [kind |-> kind, session |-> s, client |-> c, cookie |-> b] \in ConnRecord
      BY GatewayBounds DEF ConnRecord, Session
    <3> QED BY <2>1, <3>1 DEF TypeOK
  <2>3. /\ session' \in [Session -> SessionRecord]
        /\ opened' \in 0..MaxSessions
        /\ invite' \in [Invite -> InviteRecord]
    BY <2>1, AdmitTypes
  <2> QED BY <1>2, <2>2, <2>3 DEF TypeOK, Get, Upgrade
<1>3. ASSUME NEW cookie \in Cookies(c), NEW i \in Invite, UseInvite(c, cookie, i)
      PROVE  TypeOK'
  <2>1. PICK s \in Session : Admit(s, c, cookie, i) /\ jar' = Receives(c, s)
    BY <1>3 DEF UseInvite
  <2>2. jar' \in [Client -> 0..MaxSessions]
    BY <2>1, JarTypes, GatewayBounds DEF Session
  <2>3. /\ session' \in [Session -> SessionRecord]
        /\ opened' \in 0..MaxSessions
        /\ invite' \in [Invite -> InviteRecord]
    BY <2>1, AdmitTypes
  <2> QED BY <1>3, <2>2, <2>3 DEF TypeOK, UseInvite
<1>4. ASSUME NEW cookie \in Cookies(c), NEW i \in Invite, DenyAtLimit(c, cookie, i)
      PROVE  TypeOK'
  <2>1. session' \in [Session -> SessionRecord]
    <3> DEFINE s == Found(c, cookie)
    <3>1. \A t \in Session : [session[t] EXCEPT !.invited = TRUE] \in SessionRecord
      BY DEF TypeOK, SessionRecord
    <3>2. [session EXCEPT ![s].invited = TRUE] \in [Session -> SessionRecord]
      <4> HIDE DEF s
      <4> QED BY <3>1 DEF TypeOK
    <3> QED BY <1>4, <3>2 DEF DenyAtLimit, TypeOK
  <2>2. invite' \in [Invite -> InviteRecord]
    BY <1>4, RedeemTypes DEF DenyAtLimit, MayPass
  <2> QED BY <1>4, <2>1, <2>2 DEF TypeOK, DenyAtLimit
<1> QED BY <1>0, <1>1, <1>2, <1>3, <1>4

LEMMA TrafficTypes ==
  ASSUME TypeOK, Traffic
  PROVE  TypeOK'
<1>0. PICK k \in Conn : Respond(k) \/ AppFails(k) \/ Close(k)
  BY DEF Traffic
<1> DEFINE n == conn[k].session
<1>1. conn[k] \in ConnRecord /\ n \in 0..MaxSessions /\ conn[k].client \in Client
  BY DEF TypeOK, ConnRecord
<1>2. Seen(n) \in [Session -> SessionRecord]
  <2>1. \A s \in Session : [session[s] EXCEPT !.seen = "recent"] \in SessionRecord
    BY DEF TypeOK, SessionRecord
  <2> HIDE DEF n
  <2> QED BY <2>1 DEF Seen, TypeOK
<1>3. ASSUME NEW kind \in ConnKind
      PROVE  [conn EXCEPT ![k].kind = kind, ![k].cookie = FALSE] \in [Conn -> ConnRecord]
  <2>1. [conn[k] EXCEPT !.kind = kind, !.cookie = FALSE] \in ConnRecord
    BY <1>1 DEF ConnRecord
  <2>2. [conn EXCEPT ![k].kind = kind, ![k].cookie = FALSE]
          = [conn EXCEPT ![k] = [conn[k] EXCEPT !.kind = kind, !.cookie = FALSE]]
    BY DEF TypeOK
  <2> QED BY <2>1, <2>2 DEF TypeOK
<1>4. CASE Respond(k)
  <2>1. conn' \in [Conn -> ConnRecord]
    BY <1>4, <1>3 DEF Respond, ConnKind
  <2>2. jar' \in [Client -> 0..MaxSessions]
    BY <1>4, <1>1, JarTypes DEF Respond, TypeOK
  <2> QED BY <1>4, <2>1, <2>2 DEF Respond, TypeOK
<1>5. CASE AppFails(k)
  <2>1. conn' \in [Conn -> ConnRecord]
    BY <1>5, <1>3 DEF AppFails, ConnKind
  <2>2. session' \in [Session -> SessionRecord]
    BY <1>5, <1>2 DEF AppFails
  <2> QED BY <1>5, <2>1, <2>2 DEF AppFails, TypeOK
<1>6. CASE Close(k)
  <2>1. conn' \in [Conn -> ConnRecord]
    BY <1>6, RecordTypes DEF Close, TypeOK
  <2>2. session' \in [Session -> SessionRecord]
    <3> HIDE DEF n
    <3>1. session' = session \/ session' = Seen(n)
      BY <1>6 DEF Close, n
    <3> QED BY <1>2, <3>1 DEF TypeOK
  <2> QED BY <1>6, <2>1, <2>2 DEF Close, TypeOK
<1> QED BY <1>0, <1>4, <1>5, <1>6

\* Whatever the host changes, the session records stay well-formed.
LEMMA KeepTypes ==
  ASSUME TypeOK, NEW m, KeepEveryone(m)
  PROVE  session' \in [Session -> SessionRecord]
<1>1. \A s \in Session : [session[s] EXCEPT !.invited = TRUE] \in SessionRecord
  BY DEF TypeOK, SessionRecord
<1> QED BY <1>1 DEF KeepEveryone, TypeOK

LEMMA ManageTypes ==
  ASSUME TypeOK, Manage
  PROVE  TypeOK'
<1>1. ASSUME NEW s \in Session, NEW block \in BOOLEAN, End(s, block)
      PROVE  TypeOK'
  <2>1. [session[s] EXCEPT !.ended = TRUE] \in SessionRecord /\ session[s].client \in Client
    BY DEF TypeOK, SessionRecord
  <2>2. session' \in [Session -> SessionRecord]
    BY <1>1, <2>1 DEF End, TypeOK
  <2>3. conn' \in [Conn -> ConnRecord]
    BY <1>1, RecordTypes DEF End, TypeOK
  <2>4. blocked' \subseteq {AddressOf[c] : c \in Client}
    BY <1>1, <2>1 DEF End, TypeOK
  <2> QED BY <1>1, <2>2, <2>3, <2>4 DEF End, TypeOK
<1>2. ASSUME NEW a \in blocked, Unblock(a)
      PROVE  TypeOK'
  BY <1>2 DEF Unblock, TypeOK
<1>3. ASSUME NEW n \in Limit, NEW m \in Mode, UpdateAccess(n, m)
      PROVE  TypeOK'
  <2>1. session' \in [Session -> SessionRecord]
    BY <1>3, KeepTypes DEF UpdateAccess
  <2> QED BY <1>3, <2>1 DEF UpdateAccess, TypeOK
<1>4. ASSUME NEW n \in 1..MaxUses, "protected" \in Mode, CreateInvite(n)
      PROVE  TypeOK'
  <2>1. session' \in [Session -> SessionRecord]
    BY <1>4, KeepTypes DEF CreateInvite
  <2>2. issued + 1 \in Invite
    BY <1>4, GatewayBounds DEF CreateInvite, TypeOK, Invite
  <2>3. [invite[issued + 1] EXCEPT !.max = n] \in InviteRecord
    BY <2>2, GatewayBounds DEF TypeOK, InviteRecord
  <2>4. invite' \in [Invite -> InviteRecord]
    BY <1>4, <2>2, <2>3 DEF CreateInvite, TypeOK
  <2>5. issued' \in 0..MaxInvites
    BY <1>4, GatewayBounds DEF CreateInvite, TypeOK
  <2> QED BY <1>4, <2>1, <2>4, <2>5 DEF CreateInvite, TypeOK
<1>5. ASSUME NEW i \in 1..issued, RevokeInvite(i)
      PROVE  TypeOK'
  <2>1. i \in Invite
    BY GatewayBounds DEF TypeOK, Invite
  <2>2. [invite[i] EXCEPT !.revoked = TRUE] \in InviteRecord
    BY <2>1 DEF TypeOK, InviteRecord
  <2> QED BY <1>5, <2>1, <2>2 DEF RevokeInvite, TypeOK
<1>6. ASSUME NEW v \in BOOLEAN, SetAvailable(v)
      PROVE  TypeOK'
  BY <1>6 DEF SetAvailable, TypeOK
<1>7. CASE Stop
  BY <1>7, RecordTypes DEF Stop, TypeOK
<1> QED BY <1>1, <1>2, <1>3, <1>4, <1>5, <1>6, <1>7 DEF Manage

LEMMA TimeTypes ==
  ASSUME TypeOK, Time
  PROVE  TypeOK'
<1>1. ASSUME NEW s \in Session, GrowsUp(s)
      PROVE  TypeOK'
  <2>1. [session[s] EXCEPT !.young = FALSE] \in SessionRecord
    BY DEF TypeOK, SessionRecord
  <2> QED BY <1>1, <2>1 DEF GrowsUp, TypeOK
<1>2. ASSUME NEW s \in Session, Ages(s)
      PROVE  TypeOK'
  <2>1. \A x \in {"idle", "stale"} : [session[s] EXCEPT !.seen = x] \in SessionRecord
    BY DEF TypeOK, SessionRecord
  <2>2. \E x \in {"idle", "stale"} : session' = [session EXCEPT ![s] = [session[s] EXCEPT !.seen = x]]
    BY <1>2 DEF Ages, TypeOK
  <2>3. session' \in [Session -> SessionRecord]
    BY <2>1, <2>2 DEF TypeOK
  <2> QED BY <1>2, <2>3 DEF Ages, TypeOK
<1>3. ASSUME NEW s \in Session, DropTombstone(s)
      PROVE  TypeOK'
  BY <1>3, RecordTypes DEF DropTombstone, TypeOK
<1>4. CASE Sweep
  BY <1>4, RecordTypes DEF Sweep, TypeOK
<1>5. ASSUME NEW i \in Invite, Expire(i)
      PROVE  TypeOK'
  <2>1. [invite[i] EXCEPT !.expired = TRUE] \in InviteRecord
    BY DEF TypeOK, InviteRecord
  <2> QED BY <1>5, <2>1 DEF Expire, TypeOK
<1> QED BY <1>1, <1>2, <1>3, <1>4, <1>5 DEF Time

\* Every variable of the gateway keeps its type: the session ids in cookies and
\* connections, the uses of invites, the policies the host may choose.
THEOREM GatewayTypes == Spec => []TypeOK
<1>1. Init => TypeOK
  <2>1. None \in 0..MaxSessions /\ 0 \in 0..MaxSessions /\ 0 \in 0..MaxInvites
    BY GatewayBounds DEF None
  <2> QED BY <2>1, RecordTypes DEF Init, TypeOK
<1>2. TypeOK /\ [Next]_vars => TypeOK'
  <2>1. CASE Next
    BY <2>1, VisitTypes, TrafficTypes, ManageTypes, TimeTypes DEF Next
  <2>2. CASE UNCHANGED vars
    BY <2>2 DEF vars, TypeOK
  <2> QED BY <2>1, <2>2
<1> QED BY <1>1, <1>2, PTL DEF Spec
-----------------------------------------------------------------------------
(* Invite-only apps                                                        *)

LEMMA KeepProtects ==
  ASSUME TypeOK, ProtectedMeansInvited, NEW m, KeepEveryone(m)
  PROVE  m = "protected" =>
           \A s \in Session : session'[s].known /\ ~session'[s].ended => session'[s].invited
<1>1. CASE m = "protected" /\ mode # "protected"
  BY <1>1 DEF KeepEveryone, TypeOK, SessionRecord
<1>2. CASE m # "protected" \/ mode = "protected"
  BY <1>2 DEF KeepEveryone, ProtectedMeansInvited
<1> QED BY <1>1, <1>2

LEMMA AdmitProtects ==
  ASSUME TypeOK, ProtectedMeansInvited,
         NEW s \in Session, NEW c \in Client, NEW cookie \in Cookies(c),
         NEW i \in Invite \cup {None}, Admit(s, c, cookie, i), mode' = mode
  PROVE  ProtectedMeansInvited'
<1>1. ASSUME mode = "protected"
      PROVE  session'[s].invited
  <2>1. i # None \/ (Found(c, cookie) # None /\ session[Found(c, cookie)].invited)
    BY <1>1 DEF Admit, Welcome, Invited
  <2>2. i # None \/ session[s].invited
    BY <2>1 DEF Admit, Serves
  <2> QED BY <2>2 DEF Admit, Touched, TypeOK
<1>2. \A t \in Session : t # s => session'[t] = session[t]
  BY DEF Admit, TypeOK
<1> QED BY <1>1, <1>2 DEF ProtectedMeansInvited

\* While an app is invite-only every session that is still known and not ended has
\* been invited, or was there when the host made it invite-only.
THEOREM GatewayProtects == Spec => []ProtectedMeansInvited
<1>1. Init => ProtectedMeansInvited
  BY DEF Init, ProtectedMeansInvited, Unknown
<1>2. TypeOK /\ ProtectedMeansInvited /\ [Next]_vars => ProtectedMeansInvited'
  <2> SUFFICES ASSUME TypeOK, ProtectedMeansInvited, [Next]_vars
               PROVE  ProtectedMeansInvited'
    OBVIOUS
  <2>1. CASE Visit
    <3>1. ASSUME NEW c \in Client, DenyEnded(c)
          PROVE  ProtectedMeansInvited'
      BY <3>1 DEF DenyEnded, ProtectedMeansInvited
    <3>2. ASSUME NEW c \in Client, NEW cookie \in Cookies(c),
                 Get(c, cookie) \/ Upgrade(c, cookie)
          PROVE  ProtectedMeansInvited'
      BY <3>2, AdmitProtects DEF Get, Upgrade
    <3>3. ASSUME NEW c \in Client, NEW cookie \in Cookies(c), NEW i \in Invite,
                 UseInvite(c, cookie, i)
          PROVE  ProtectedMeansInvited'
      BY <3>3, AdmitProtects DEF UseInvite
    <3>4. ASSUME NEW c \in Client, NEW cookie \in Cookies(c), NEW i \in Invite,
                 DenyAtLimit(c, cookie, i)
          PROVE  ProtectedMeansInvited'
      <4> DEFINE s == Found(c, cookie)
      <4>1. session' = session \/ session' = [session EXCEPT ![s].invited = TRUE]
        BY <3>4 DEF DenyAtLimit
      <4>2. mode' = mode
        BY <3>4 DEF DenyAtLimit
      <4> HIDE DEF s
      <4>3. \A t \in Session : /\ session'[t].known = session[t].known
                               /\ session'[t].ended = session[t].ended
                               /\ session[t].invited => session'[t].invited
        BY <4>1 DEF TypeOK, SessionRecord
      <4> QED BY <4>2, <4>3 DEF ProtectedMeansInvited
    <3> QED BY <2>1, <3>1, <3>2, <3>3, <3>4 DEF Visit
  <2>2. CASE Traffic
    <3>1. PICK k \in Conn : Respond(k) \/ AppFails(k) \/ Close(k)
      BY <2>2 DEF Traffic
    <3> DEFINE n == conn[k].session
    <3>2. session' = session \/ session' = [session EXCEPT ![n].seen = "recent"]
      BY <3>1 DEF Respond, AppFails, Close, Seen
    <3>3. mode' = mode
      BY <3>1 DEF Respond, AppFails, Close
    <3> HIDE DEF n
    <3>4. \A t \in Session : /\ session'[t].known = session[t].known
                             /\ session'[t].ended = session[t].ended
                             /\ session'[t].invited = session[t].invited
      BY <3>2 DEF TypeOK, SessionRecord
    <3> QED BY <3>3, <3>4 DEF ProtectedMeansInvited
  <2>3. CASE Manage
    <3>1. ASSUME NEW s \in Session, NEW block \in BOOLEAN, End(s, block)
          PROVE  ProtectedMeansInvited'
      <4>1. mode' = mode /\ session'[s].ended
        BY <3>1 DEF End, TypeOK, SessionRecord
      <4>2. \A t \in Session : t # s => session'[t] = session[t]
        BY <3>1 DEF End, TypeOK
      <4> QED BY <4>1, <4>2 DEF ProtectedMeansInvited
    <3>2. ASSUME NEW a \in blocked, Unblock(a)
          PROVE  ProtectedMeansInvited'
      BY <3>2 DEF Unblock, ProtectedMeansInvited
    <3>3. ASSUME NEW n \in Limit, NEW m \in Mode, UpdateAccess(n, m)
          PROVE  ProtectedMeansInvited'
      BY <3>3, KeepProtects DEF UpdateAccess, ProtectedMeansInvited
    <3>4. ASSUME NEW n \in 1..MaxUses, CreateInvite(n)
          PROVE  ProtectedMeansInvited'
      BY <3>4, KeepProtects DEF CreateInvite, ProtectedMeansInvited
    <3>5. ASSUME NEW i \in 1..issued, RevokeInvite(i)
          PROVE  ProtectedMeansInvited'
      BY <3>5 DEF RevokeInvite, ProtectedMeansInvited
    <3>6. ASSUME NEW v \in BOOLEAN, SetAvailable(v)
          PROVE  ProtectedMeansInvited'
      BY <3>6 DEF SetAvailable, ProtectedMeansInvited
    <3>7. CASE Stop
      BY <3>7 DEF Stop, Unknown, ProtectedMeansInvited
    <3> QED BY <2>3, <3>1, <3>2, <3>3, <3>4, <3>5, <3>6, <3>7 DEF Manage
  <2>4. CASE Time
    <3>1. ASSUME NEW s \in Session, GrowsUp(s) \/ Ages(s) \/ DropTombstone(s)
          PROVE  ProtectedMeansInvited'
      <4>1. /\ mode' = mode
            /\ \A t \in Session : t # s => session'[t] = session[t]
        BY <3>1 DEF GrowsUp, Ages, DropTombstone, TypeOK
      <4>2. CASE GrowsUp(s) \/ Ages(s)
        <5>1. /\ session'[s].known = session[s].known
              /\ session'[s].ended = session[s].ended
              /\ session'[s].invited = session[s].invited
          BY <4>2 DEF GrowsUp, Ages, TypeOK, SessionRecord
        <5> QED BY <4>1, <5>1 DEF ProtectedMeansInvited
      <4>3. CASE DropTombstone(s)
        <5>1. session'[s].ended
          BY <4>3 DEF DropTombstone, TypeOK, Unknown
        <5> QED BY <4>1, <5>1 DEF ProtectedMeansInvited
      <4> QED BY <3>1, <4>2, <4>3
    <3>2. CASE Sweep
      BY <3>2 DEF Sweep, Unknown, ProtectedMeansInvited
    <3>3. ASSUME NEW i \in Invite, Expire(i)
          PROVE  ProtectedMeansInvited'
      BY <3>3 DEF Expire, ProtectedMeansInvited
    <3> QED BY <2>4, <3>1, <3>2, <3>3 DEF Time
  <2>5. CASE UNCHANGED vars
    BY <2>5 DEF vars, ProtectedMeansInvited
  <2> QED BY <2>1, <2>2, <2>3, <2>4, <2>5 DEF Next
<1> QED BY <1>1, <1>2, GatewayTypes, PTL DEF Spec
-----------------------------------------------------------------------------
(* The user limit                                                          *)

\* A step that only takes sessions away, or changes none, and keeps the limit.
LEMMA OnlyLeave ==
  ASSUME maxUsers' = maxUsers, \A s \in Session : Active(s)' => Active(s)
  PROVE  Limits!Next
<1>1. ActiveSessions' \subseteq ActiveSessions
  BY DEF ActiveSessions, Session
<1> QED BY <1>1 DEF Limits!Next, Limits!Leave

\* Whether a session is active depends on its record and its connections only.
LEMMA ActiveIsLocal ==
  ASSUME NEW s \in Session,
         session'[s].known => session[s].known,
         session[s].ended => session'[s].ended \/ ~session'[s].known,
         session'[s].seen = "recent" => session[s].seen = "recent" \/ ~session'[s].known,
         \A k \in Conn : conn'[k].session = s /\ conn'[k].kind \in {"pending", "open", "socket"} =>
                           conn[k].session = s /\ conn[k].kind \in {"pending", "open", "socket"}
  PROVE  Active(s)' => Active(s)
BY DEF Active, Exchanges, Sockets

\* Admission makes one session active, and only when there is room for it.
LEMMA AdmitEnters ==
  ASSUME TypeOK, NEW s \in Session, NEW c \in Client, NEW cookie \in Cookies(c),
         NEW i \in Invite \cup {None}, Admit(s, c, cookie, i), maxUsers' = maxUsers,
         \A t \in Session : t # s =>
            \A k \in Conn : (conn'[k].session = t /\ conn'[k].kind \in {"pending", "open", "socket"}) <=>
                            (conn[k].session = t /\ conn[k].kind \in {"pending", "open", "socket"})
  PROVE  [Limits!Next]_<<ActiveSessions, maxUsers>>
<1>1. session'[s] = Touched(s, c, cookie, i)
  BY DEF Admit, TypeOK
<1>2. Active(s)'
  BY <1>1 DEF Active, Touched
<1>3. \A t \in Session : t # s => session'[t] = session[t]
  BY DEF Admit, TypeOK
<1>4. ASSUME NEW t \in Session, t # s
      PROVE  Active(t)' <=> Active(t)
  <2>1. Exchanges(t)' \cup Sockets(t)' = Exchanges(t) \cup Sockets(t)
    BY <1>4 DEF Exchanges, Sockets, Conn
  <2> QED BY <1>3, <1>4, <2>1 DEF Active
<1>5. ActiveSessions' = ActiveSessions \cup {s}
  <2>1. \A t \in Session : t \in ActiveSessions' <=> Active(t)'
    BY DEF ActiveSessions, Session
  <2>2. \A t \in Session : t \in ActiveSessions <=> Active(t)
    BY DEF ActiveSessions
  <2>3. ActiveSessions' \subseteq Session /\ ActiveSessions \subseteq Session
    BY DEF ActiveSessions, Session
  <2> QED BY <1>2, <1>4, <2>1, <2>2, <2>3
<1>6. CASE Active(s)
  <2>1. s \in ActiveSessions
    BY <1>6 DEF ActiveSessions
  <2>2. ActiveSessions' = ActiveSessions
    BY <1>5, <2>1
  <2> QED BY <2>2
<1>7. CASE HasCapacity
  <2>1. Limits!Enter(s)
    <3>1. Limits!HasRoom
      BY <1>7, Zenon DEF HasCapacity, Limits!HasRoom, Cardinality, Limits!Cardinality
    <3>2. maxUsers' = maxUsers
      OBVIOUS
    <3> QED BY <1>5, <3>1, <3>2, Zenon DEF Limits!Enter
  <2> QED BY <2>1 DEF Limits!Next
<1> QED BY <1>6, <1>7 DEF Admit, HasRoom

LEMMA VisitKeepsLimit ==
  ASSUME TypeOK, Visit
  PROVE  [Limits!Next]_<<ActiveSessions, maxUsers>>
<1>1. ASSUME NEW c \in Client, DenyEnded(c)
      PROVE  Limits!Next
  BY <1>1, OnlyLeave, ActiveIsLocal DEF DenyEnded
<1>2. ASSUME NEW c \in Client, NEW cookie \in Cookies(c), Get(c, cookie) \/ Upgrade(c, cookie)
      PROVE  [Limits!Next]_<<ActiveSessions, maxUsers>>
  <2>1. PICK s \in Session :
          /\ Admit(s, c, cookie, None)
          /\ \/ conn' = conn
             \/ \E k \in Conn :
                  /\ conn[k].kind = "free"
                  /\ conn'[k].session = s
                  /\ \A j \in Conn : j # k => conn'[j] = conn[j]
    BY <1>2 DEF Get, Upgrade, TypeOK
  <2>2. maxUsers' = maxUsers
    BY <1>2 DEF Get, Upgrade
  <2>3. ASSUME NEW t \in Session, t # s, NEW k \in Conn
        PROVE  (conn'[k].session = t /\ conn'[k].kind \in {"pending", "open", "socket"}) <=>
               (conn[k].session = t /\ conn[k].kind \in {"pending", "open", "socket"})
    BY <2>1, <2>3
  <2> QED BY <2>1, <2>2, <2>3, AdmitEnters
<1>3. ASSUME NEW c \in Client, NEW cookie \in Cookies(c), NEW i \in Invite, UseInvite(c, cookie, i)
      PROVE  [Limits!Next]_<<ActiveSessions, maxUsers>>
  <2>1. PICK s \in Session : Admit(s, c, cookie, i)
    BY <1>3 DEF UseInvite
  <2>2. maxUsers' = maxUsers /\ conn' = conn
    BY <1>3 DEF UseInvite
  <2> QED BY <2>1, <2>2, AdmitEnters
<1>4. ASSUME NEW c \in Client, NEW cookie \in Cookies(c), NEW i \in Invite, DenyAtLimit(c, cookie, i)
      PROVE  Limits!Next
  <2> DEFINE s == Found(c, cookie)
  <2>1. session' = session \/ session' = [session EXCEPT ![s].invited = TRUE]
    BY <1>4 DEF DenyAtLimit
  <2>2. maxUsers' = maxUsers /\ conn' = conn
    BY <1>4 DEF DenyAtLimit
  <2> HIDE DEF s
  <2>3. \A t \in Session : /\ session'[t].known = session[t].known
                           /\ session'[t].ended = session[t].ended
                           /\ session'[t].seen = session[t].seen
    BY <2>1 DEF TypeOK, SessionRecord
  <2>4. \A t \in Session : Active(t)' => Active(t)
    BY <2>2, <2>3, ActiveIsLocal
  <2> QED BY <2>2, <2>4, OnlyLeave
<1> QED BY <1>1, <1>2, <1>3, <1>4 DEF Visit

\* The end of an exchange or a socket marks the session as seen, but it was active
\* already: it had the connection.
LEMMA TrafficKeepsLimit ==
  ASSUME TypeOK, Traffic
  PROVE  Limits!Next
<1>1. PICK k \in Conn : Respond(k) \/ AppFails(k) \/ Close(k)
  BY DEF Traffic
<1> DEFINE n == conn[k].session
<1>2. /\ maxUsers' = maxUsers
      /\ session' = session \/ session' = [session EXCEPT ![n].seen = "recent"]
  BY <1>1 DEF Respond, AppFails, Close, Seen
<1>3. session' = session \/ conn[k].kind \in {"pending", "open", "socket"}
  BY <1>1 DEF Respond, AppFails, Close, TypeOK, ConnRecord, ConnKind
<1>4. \A j \in Conn, s \in Session :
        conn'[j].session = s /\ conn'[j].kind \in {"pending", "open", "socket"} =>
          conn[j].session = s /\ conn[j].kind \in {"pending", "open", "socket"}
  <2>1. CASE Respond(k)
    BY <2>1 DEF Respond, TypeOK, ConnRecord
  <2>2. CASE AppFails(k)
    BY <2>2 DEF AppFails, TypeOK, ConnRecord
  <2>3. CASE Close(k)
    BY <2>3, GatewayBounds DEF Close, TypeOK, Free
  <2> QED BY <1>1, <2>1, <2>2, <2>3
<1>5. ASSUME NEW s \in Session
      PROVE  Active(s)' => Active(s)
  <2>0. /\ session'[s].known = session[s].known
        /\ session'[s].ended = session[s].ended
        /\ s # n => session'[s] = session[s]
    <3> HIDE DEF n
    <3> QED BY <1>2 DEF TypeOK, SessionRecord
  <2>1. CASE session'[s].seen = session[s].seen
    BY <1>4, <2>0, <2>1, ActiveIsLocal
  <2>2. CASE session'[s].seen # session[s].seen
    <3>1. s = n /\ conn[k].kind \in {"pending", "open", "socket"}
      BY <1>3, <2>0, <2>2
    <3>2. Sockets(s) # {} \/ Exchanges(s) # {}
      BY <3>1 DEF Sockets, Exchanges
    <3> QED BY <2>0, <3>2 DEF Active
  <2> QED BY <2>1, <2>2
<1> QED BY <1>2, <1>5, OnlyLeave

LEMMA ManageKeepsLimit ==
  ASSUME TypeOK, Manage
  PROVE  [Limits!Next]_<<ActiveSessions, maxUsers>>
<1>1. ASSUME NEW s \in Session, NEW block \in BOOLEAN, End(s, block)
      PROVE  Limits!Next
  <2>1. ASSUME NEW t \in Session
        PROVE  Active(t)' => Active(t)
    <3>1. /\ session'[t].known = session[t].known
          /\ session[t].ended => session'[t].ended
          /\ session'[t].seen = session[t].seen
      BY <1>1 DEF End, TypeOK, SessionRecord
    <3>2. \A k \in Conn : conn'[k] = conn[k] \/ conn'[k].kind = "free"
      BY <1>1 DEF End, Free
    <3> QED BY <3>1, <3>2, ActiveIsLocal
  <2> QED BY <1>1, <2>1, OnlyLeave DEF End
<1>2. ASSUME NEW a \in blocked, Unblock(a)
      PROVE  Limits!Next
  BY <1>2, OnlyLeave, ActiveIsLocal DEF Unblock
<1>3. ASSUME NEW m, KeepEveryone(m), conn' = conn
      PROVE  ActiveSessions' = ActiveSessions
  <2>1. \A t \in Session : /\ session'[t].known = session[t].known
                           /\ session'[t].ended = session[t].ended
                           /\ session'[t].seen = session[t].seen
    BY <1>3 DEF KeepEveryone, TypeOK, SessionRecord
  <2>2. \A t \in Session : Active(t)' <=> Active(t)
    BY <1>3, <2>1 DEF Active, Exchanges, Sockets, Conn
  <2>3. \A t \in Session : t \in ActiveSessions' <=> Active(t)'
    BY DEF ActiveSessions, Session
  <2>4. \A t \in Session : t \in ActiveSessions <=> Active(t)
    BY DEF ActiveSessions
  <2>5. ActiveSessions' \subseteq Session /\ ActiveSessions \subseteq Session
    BY DEF ActiveSessions, Session
  <2> QED BY <2>2, <2>3, <2>4, <2>5
<1>4. ASSUME NEW n \in Limit, NEW m \in Mode, UpdateAccess(n, m)
      PROVE  Limits!Next
  <2>1. ActiveSessions' = ActiveSessions
    BY <1>3, <1>4 DEF UpdateAccess
  <2> QED BY <1>4, <2>1 DEF UpdateAccess, Limits!Next, Limits!ChangeLimit
<1>5. ASSUME NEW n \in 1..MaxUses, CreateInvite(n)
      PROVE  UNCHANGED <<ActiveSessions, maxUsers>>
  <2>1. ActiveSessions' = ActiveSessions
    BY <1>3, <1>5 DEF CreateInvite
  <2> QED BY <1>5, <2>1 DEF CreateInvite
<1>6. ASSUME NEW i \in 1..issued, RevokeInvite(i)
      PROVE  Limits!Next
  BY <1>6, OnlyLeave, ActiveIsLocal DEF RevokeInvite
<1>7. ASSUME NEW v \in BOOLEAN, SetAvailable(v)
      PROVE  Limits!Next
  BY <1>7, OnlyLeave, ActiveIsLocal DEF SetAvailable
<1>8. CASE Stop
  <2>1. \A s \in Session : ~Active(s)'
    BY <1>8 DEF Stop, Active, Unknown
  <2> QED BY <1>8, <2>1, OnlyLeave DEF Stop
<1> QED BY <1>1, <1>2, <1>4, <1>5, <1>6, <1>7, <1>8 DEF Manage

LEMMA TimeKeepsLimit ==
  ASSUME TypeOK, Time
  PROVE  Limits!Next
<1>1. maxUsers' = maxUsers /\ conn' = conn
  BY DEF Time, GrowsUp, Ages, DropTombstone, Sweep, Expire
<1>2. ASSUME NEW s \in Session, NEW t \in Session, GrowsUp(s) \/ Ages(s) \/ DropTombstone(s)
      PROVE  Active(t)' => Active(t)
  <2>1. CASE t # s
    <3>1. session'[t] = session[t]
      BY <1>2, <2>1 DEF GrowsUp, Ages, DropTombstone, TypeOK
    <3> QED BY <1>1, <3>1, ActiveIsLocal
  <2>2. CASE t = s
    <3>1. CASE GrowsUp(s)
      <4>1. /\ session'[s].known = session[s].known
            /\ session'[s].ended = session[s].ended
            /\ session'[s].seen = session[s].seen
        BY <3>1 DEF GrowsUp, TypeOK, SessionRecord
      <4> QED BY <1>1, <2>2, <4>1, ActiveIsLocal
    <3>2. CASE Ages(s)
      <4>1. /\ session'[s].known = session[s].known
            /\ session'[s].ended = session[s].ended
            /\ session'[s].seen # "recent"
        BY <3>2 DEF Ages, TypeOK, SessionRecord
      <4> QED BY <1>1, <2>2, <4>1, ActiveIsLocal
    <3>3. CASE DropTombstone(s)
      <4>1. ~session'[s].known
        BY <3>3 DEF DropTombstone, TypeOK, Unknown
      <4> QED BY <2>2, <4>1 DEF Active
    <3> QED BY <1>2, <3>1, <3>2, <3>3
  <2> QED BY <2>1, <2>2
<1>3. ASSUME NEW t \in Session, Sweep
      PROVE  Active(t)' => Active(t)
  <2>1. session'[t] = session[t] \/ ~session'[t].known
    BY <1>3 DEF Sweep, Unknown
  <2>2. CASE session'[t] = session[t]
    BY <1>1, <2>2, ActiveIsLocal
  <2>3. CASE ~session'[t].known
    BY <2>3 DEF Active
  <2> QED BY <2>1, <2>2, <2>3
<1>4. ASSUME NEW i \in Invite, NEW t \in Session, Expire(i)
      PROVE  Active(t)' => Active(t)
  BY <1>1, <1>4, ActiveIsLocal DEF Expire
<1>5. \A t \in Session : Active(t)' => Active(t)
  BY <1>2, <1>3, <1>4 DEF Time
<1> QED BY <1>1, <1>5, OnlyLeave

\* The session table implements UserLimit: a session becomes active only below the
\* limit, and no change of the limit makes one inactive.
THEOREM GatewayKeepsLimit == Spec => LimitIsKept
<1>1. Init => Limits!Init
  <2>1. Init => \A s \in Session : ~Active(s)
    BY DEF Init, Active, Unknown
  <2> QED BY <2>1 DEF Init, ActiveSessions, Limits!Init
<1>2. TypeOK /\ [Next]_vars => [Limits!Next]_<<ActiveSessions, maxUsers>>
  <2> SUFFICES ASSUME TypeOK, [Next]_vars
               PROVE  [Limits!Next]_<<ActiveSessions, maxUsers>>
    OBVIOUS
  <2>1. CASE Next
    BY <2>1, VisitKeepsLimit, TrafficKeepsLimit, ManageKeepsLimit, TimeKeepsLimit DEF Next
  <2>2. CASE UNCHANGED vars
    <3>1. ActiveSessions' = ActiveSessions
      BY <2>2 DEF vars, ActiveSessions, Active, Exchanges, Sockets, Session, Conn
    <3> QED BY <2>2, <3>1 DEF vars
  <2> QED BY <2>1, <2>2
<1> QED BY <1>1, <1>2, GatewayTypes, PTL DEF Spec, LimitIsKept, Limits!Spec
-----------------------------------------------------------------------------
(* Connections                                                             *)

\* A connection is opened only for a session that admission has just passed, and
\* never for a blocked address.
THEOREM GatewayAdmits == Spec => ConnectionsAreAdmitted
<1> DEFINE Admitted ==
      \A k \in Conn : conn[k].kind = "free" /\ conn'[k].kind # "free" =>
        LET s == conn'[k].session IN
          /\ session'[s].known /\ ~session'[s].ended
          /\ mode = "protected" => session'[s].invited
          /\ AddressOf[conn'[k].client] \notin blocked
<1>1. ASSUME TypeOK, NEW k \in Conn, conn[k].kind = "free", conn'[k].kind # "free", Next
      PROVE  \E c \in Client : \E cookie \in Cookies(c), s \in Session :
               /\ Admit(s, c, cookie, None)
               /\ conn'[k].session = s
               /\ conn'[k].client = c
  <2>1. ASSUME NEW c \in Client, NEW cookie \in Cookies(c), Get(c, cookie) \/ Upgrade(c, cookie)
        PROVE  \E s \in Session :
                 /\ Admit(s, c, cookie, None)
                 /\ conn'[k].session = s
                 /\ conn'[k].client = c
    BY <1>1, <2>1 DEF Get, Upgrade, TypeOK
  <2>2. ASSUME NEW c \in Client, NEW cookie \in Cookies(c), NEW i \in Invite,
               UseInvite(c, cookie, i) \/ DenyAtLimit(c, cookie, i)
        PROVE  FALSE
    BY <1>1, <2>2 DEF UseInvite, DenyAtLimit
  <2>3. ASSUME NEW c \in Client, DenyEnded(c)
        PROVE  FALSE
    BY <1>1, <2>3 DEF DenyEnded
  <2>4. ~Traffic
    BY <1>1 DEF Traffic, Respond, AppFails, Close, TypeOK, ConnRecord, Free
  <2>5. ~Manage
    <3>1. ASSUME NEW s \in Session, NEW block \in BOOLEAN, End(s, block)
          PROVE  FALSE
      BY <1>1, <3>1 DEF End, Free
    <3>2. ASSUME conn' = conn
          PROVE  FALSE
      BY <1>1, <3>2
    <3>3. ~Stop
      BY <1>1 DEF Stop, Free
    <3> QED BY <3>1, <3>2, <3>3
      DEF Manage, Unblock, UpdateAccess, CreateInvite, RevokeInvite, SetAvailable
  <2>6. ~Time
    BY <1>1 DEF Time, GrowsUp, Ages, Sweep, DropTombstone, Expire
  <2>7. Visit
    BY <1>1, <2>4, <2>5, <2>6 DEF Next
  <2>8. PICK c \in Client : \E cookie \in Cookies(c) : Get(c, cookie) \/ Upgrade(c, cookie)
    BY <2>2, <2>3, <2>7 DEF Visit
  <2>9. PICK cookie \in Cookies(c) : Get(c, cookie) \/ Upgrade(c, cookie)
    BY <2>8
  <2>10. PICK s \in Session :
          /\ Admit(s, c, cookie, None)
          /\ conn'[k].session = s
          /\ conn'[k].client = c
    BY <2>1, <2>9
  <2> QED BY <2>10
<1>2. TypeOK /\ [Next]_vars => Admitted
  <2> SUFFICES ASSUME TypeOK, [Next]_vars, NEW k \in Conn,
                      conn[k].kind = "free", conn'[k].kind # "free"
               PROVE  LET s == conn'[k].session IN
                        /\ session'[s].known /\ ~session'[s].ended
                        /\ mode = "protected" => session'[s].invited
                        /\ AddressOf[conn'[k].client] \notin blocked
    OBVIOUS
  <2>1. Next
    BY DEF vars
  <2> PICK c \in Client : \E cookie \in Cookies(c), s \in Session :
         /\ Admit(s, c, cookie, None)
         /\ conn'[k].session = s
         /\ conn'[k].client = c
    BY <1>1, <2>1
  <2>2. PICK cookie \in Cookies(c), s \in Session :
          /\ Admit(s, c, cookie, None)
          /\ conn'[k].session = s
          /\ conn'[k].client = c
    OBVIOUS
  <2>3. session'[s] = Touched(s, c, cookie, None)
    BY <2>2 DEF Admit, TypeOK
  <2>4. session'[s].known /\ ~session'[s].ended
    BY <2>3 DEF Touched
  <2>5. ASSUME mode = "protected"
        PROVE  session'[s].invited
    <3>1. Found(c, cookie) # None /\ session[Found(c, cookie)].invited
      BY <2>2, <2>5 DEF Admit, Welcome, Invited
    <3>2. session[s].invited
      BY <2>2, <3>1 DEF Admit, Serves
    <3>3. session'[s].invited = (session[s].invited \/ None # None)
      BY <2>3 DEF Touched
    <3> QED BY <3>2, <3>3
  <2>6. AddressOf[c] \notin blocked
    BY <2>2 DEF Admit, MayPass
  <2> QED BY <2>2, <2>4, <2>5, <2>6
<1>3. TypeOK /\ [Next]_vars => [Admitted]_vars
  BY <1>2
<1> QED BY <1>3, GatewayTypes, PTL DEF Spec, ConnectionsAreAdmitted, Admitted
--------------------------------------------------------
-----------------------------------------------------------------------------
(***************************************************************************)
(* The session table: one session to join, and none forgotten in use       *)
(*                                                                         *)
(* A step either admits a request to one session, or lets the sessions     *)
(* fade: none appears, none becomes easier to join, and a session that     *)
(* still has a connection keeps its entry or its tombstone.                *)
(***************************************************************************)
Connected(s) == \E k \in Conn : conn[k].session = s /\ conn[k].kind \in {"pending", "open", "socket"}
Remembered(s) == session[s].known \/ session[s].ended

\* From a, an entry of the table, to b.
Fades(a, b) ==
  /\ b.known => /\ a.known /\ b.client = a.client /\ b.confirmed = a.confirmed
                /\ b.young => a.young
                /\ a.ended => b.ended
Keeps(a, b) == Fades(a, b) /\ (a.known \/ a.ended => b.known \/ b.ended)

Fading ==
  /\ opened' = opened
  /\ \A s \in Session : Fades(session[s], session'[s])
  /\ \A s \in Session : Connected(s)' => Connected(s) /\ Keeps(session[s], session'[s])
Entering ==
  \E s \in Session, c \in Client, cookie \in 0..MaxSessions, i \in Invite \cup {None} :
    /\ Admit(s, c, cookie, i)
    /\ \A r \in Session : Connected(r)' => Connected(r) \/ r = s

LEMMA CookieIsId ==
  ASSUME TypeOK, NEW c \in Client, NEW cookie \in Cookies(c)
  PROVE  cookie \in 0..MaxSessions
  BY GatewayBounds DEF TypeOK, Cookies, None

\* Ending, inviting and ageing leave an entry in its place.
LEMMA EditKeeps ==
  ASSUME NEW a \in SessionRecord, NEW b,
         \/ b = a
         \/ b = [a EXCEPT !.invited = TRUE]
         \/ b = [a EXCEPT !.ended = TRUE]
         \/ b = [a EXCEPT !.young = FALSE]
         \/ \E x : b = [a EXCEPT !.seen = x]
  PROVE  Keeps(a, b)
<1>1. a.young \in BOOLEAN /\ a.known \in BOOLEAN /\ a.ended \in BOOLEAN
  BY DEF SessionRecord
<1>2. CASE b = a
  BY <1>2 DEF Keeps, Fades
<1>3. CASE b = [a EXCEPT !.invited = TRUE]
  BY <1>1, <1>3 DEF Keeps, Fades, SessionRecord
<1>4. CASE b = [a EXCEPT !.ended = TRUE]
  BY <1>1, <1>4 DEF Keeps, Fades, SessionRecord
<1>5. CASE b = [a EXCEPT !.young = FALSE]
  BY <1>1, <1>5 DEF Keeps, Fades, SessionRecord
<1>6. CASE \E x : b = [a EXCEPT !.seen = x]
  BY <1>1, <1>6 DEF Keeps, Fades, SessionRecord
<1> QED
  BY <1>2, <1>3, <1>4, <1>5, <1>6

LEMMA KeptTable ==
  ASSUME \A s \in Session : Keeps(session[s], session'[s]), opened' = opened,
         \A s \in Session : Connected(s)' => Connected(s)
  PROVE  Fading
  BY DEF Fading, Keeps

LEMMA UntouchedFades ==
  ASSUME UNCHANGED <<opened, session>>,
         \A s \in Session : Connected(s)' => Connected(s)
  PROVE  Fading
  BY DEF Fading, Fades, Keeps

LEMMA VisitMoves ==
  ASSUME TypeOK, Visit
  PROVE  Fading \/ Entering
<1>1. PICK c \in Client :
        \/ DenyEnded(c)
        \/ \E cookie \in Cookies(c) :
             \/ Get(c, cookie)
             \/ Upgrade(c, cookie)
             \/ \E i \in Invite : UseInvite(c, cookie, i) \/ DenyAtLimit(c, cookie, i)
  BY DEF Visit
<1>2. CASE DenyEnded(c)
  BY <1>2, UntouchedFades DEF DenyEnded, Connected
<1>3. ASSUME NEW cookie \in Cookies(c), Get(c, cookie) \/ Upgrade(c, cookie)
      PROVE  Entering
  <2>1. PICK s \in Session :
          /\ Admit(s, c, cookie, None)
          /\ \/ conn' = conn
             \/ \E k \in Conn, kind \in {"pending", "socket"}, b \in BOOLEAN :
                  conn' = [conn EXCEPT ![k] =
                     [kind |-> kind, session |-> s, client |-> c, cookie |-> b]]
    <3>1. CASE Get(c, cookie)
      BY <3>1 DEF Get, ByCookie
    <3>2. CASE Upgrade(c, cookie)
      BY <3>2 DEF Upgrade
    <3> QED
      BY <1>3, <3>1, <3>2
  <2>2. \A r \in Session : Connected(r)' => Connected(r) \/ r = s
    BY <2>1 DEF Connected, TypeOK
  <2> QED
    BY <2>1, <2>2, CookieIsId DEF Entering
<1>4. ASSUME NEW cookie \in Cookies(c), NEW i \in Invite, UseInvite(c, cookie, i)
      PROVE  Entering
  <2>1. PICK s \in Session : Admit(s, c, cookie, i)
    BY <1>4 DEF UseInvite
  <2>2. \A r \in Session : Connected(r)' => Connected(r)
    BY <1>4 DEF UseInvite, Connected
  <2> QED
    BY <2>1, <2>2, CookieIsId DEF Entering
<1>5. ASSUME NEW cookie \in Cookies(c), NEW i \in Invite, DenyAtLimit(c, cookie, i)
      PROVE  Fading
  <2>1. \A s \in Session :
          session'[s] = session[s] \/ session'[s] = [session[s] EXCEPT !.invited = TRUE]
    BY <1>5 DEF DenyAtLimit, TypeOK
  <2>2. \A s \in Session : Keeps(session[s], session'[s])
    BY <2>1, EditKeeps DEF TypeOK
  <2> QED
    BY <1>5, <2>2, KeptTable DEF DenyAtLimit, Connected
<1> QED
  BY <1>1, <1>2, <1>3, <1>4, <1>5

LEMMA SeenFades ==
  ASSUME TypeOK, NEW n, session' = Seen(n) \/ session' = session
  PROVE  \A s \in Session : Keeps(session[s], session'[s])
<1>1. \A s \in Session :
        session'[s] = session[s] \/ session'[s] = [session[s] EXCEPT !.seen = "recent"]
  BY DEF Seen, TypeOK
<1> QED
  BY <1>1, EditKeeps DEF TypeOK

LEMMA TrafficFades ==
  ASSUME TypeOK, Traffic
  PROVE  Fading
<1>1. PICK k \in Conn : Respond(k) \/ AppFails(k) \/ Close(k)
  BY DEF Traffic
<1>2. session' = Seen(conn[k].session) \/ session' = session
  BY <1>1 DEF Respond, AppFails, Close
<1>3. opened' = opened
  BY <1>1 DEF Respond, AppFails, Close
<1>4. \A j \in Conn : \/ conn'[j] = conn[j]
                      \/ conn'[j].kind \notin {"pending", "open", "socket"}
                      \/ conn'[j].session = conn[j].session /\ conn[j].kind = "pending"
  <2>1. CASE Respond(k)
    BY <2>1 DEF Respond, TypeOK, ConnRecord
  <2>2. CASE AppFails(k)
    BY <2>2 DEF AppFails, TypeOK, ConnRecord
  <2>3. CASE Close(k)
    BY <2>3 DEF Close, TypeOK, Free
  <2> QED
    BY <1>1, <2>1, <2>2, <2>3
<1>5. \A s \in Session : Connected(s)' => Connected(s)
  BY <1>4 DEF Connected
<1> QED
  BY <1>2, <1>3, <1>5, SeenFades, KeptTable

LEMMA ManageFades ==
  ASSUME TypeOK, Manage
  PROVE  Fading
<1>1. ASSUME NEW s \in Session, NEW block \in BOOLEAN, End(s, block)
      PROVE  Fading
  <2>1. session' = [session EXCEPT ![s].ended = TRUE] /\ opened' = opened
    BY <1>1 DEF End
  <2>2. \A r \in Session : Connected(r)' => Connected(r)
    BY <1>1 DEF End, Connected, Free
  <2>3. \A r \in Session :
          session'[r] = session[r] \/ session'[r] = [session[r] EXCEPT !.ended = TRUE]
    BY <2>1 DEF TypeOK
  <2>4. \A r \in Session : Keeps(session[r], session'[r])
    BY <2>3, EditKeeps DEF TypeOK
  <2> QED
    BY <2>1, <2>2, <2>4, KeptTable
<1>2. ASSUME NEW m, KeepEveryone(m), UNCHANGED <<opened, conn>>
      PROVE  Fading
  <2>1. \A r \in Session :
          session'[r] = session[r] \/ session'[r] = [session[r] EXCEPT !.invited = TRUE]
    BY <1>2 DEF KeepEveryone, TypeOK
  <2>2. \A r \in Session : Keeps(session[r], session'[r])
    BY <2>1, EditKeeps DEF TypeOK
  <2> QED
    BY <1>2, <2>2, KeptTable DEF Connected
<1>3. ASSUME UNCHANGED <<opened, session, conn>>
      PROVE  Fading
  BY <1>3, UntouchedFades DEF Connected
<1>4. CASE Stop
  BY <1>4 DEF Stop, Fading, Fades, Unknown, Connected, Free
<1> QED
  BY <1>1, <1>2, <1>3, <1>4
  DEF Manage, Unblock, UpdateAccess, CreateInvite, RevokeInvite, SetAvailable

LEMMA TimeFades ==
  ASSUME TypeOK, Time
  PROVE  Fading
<1>1. conn' = conn /\ opened' = opened
  BY DEF Time, GrowsUp, Ages, DropTombstone, Sweep, Expire
<1>2. CASE \A s \in Session : Keeps(session[s], session'[s])
  BY <1>1, <1>2, KeptTable DEF Connected
<1>3. ASSUME NEW s \in Session, GrowsUp(s) \/ Ages(s)
      PROVE  \A r \in Session : Keeps(session[r], session'[r])
  <2>1. CASE GrowsUp(s)
    <3>1. \A r \in Session :
            session'[r] = session[r] \/ session'[r] = [session[r] EXCEPT !.young = FALSE]
      BY <2>1 DEF GrowsUp, TypeOK
    <3> QED
      BY <3>1, EditKeeps DEF TypeOK
  <2>2. CASE Ages(s)
    <3>1. PICK x : session' = [session EXCEPT ![s] = [session[s] EXCEPT !.seen = x]]
      BY <2>2 DEF Ages, TypeOK
    <3>2. \A r \in Session :
            session'[r] = session[r] \/ session'[r] = [session[r] EXCEPT !.seen = x]
      BY <3>1 DEF TypeOK
    <3>3. ASSUME NEW r \in Session
          PROVE  Keeps(session[r], session'[r])
      <4>1. session[r] \in SessionRecord
        BY DEF TypeOK
      <4> QED
        BY <3>2, <4>1, EditKeeps
    <3> QED
      BY <3>3
  <2> QED
    BY <1>3, <2>1, <2>2
<1>4. ASSUME NEW s \in Session, DropTombstone(s)
      PROVE  \A r \in Session : Keeps(session[r], session'[r])
  <2>1. ~session'[s].known /\ session'[s].ended /\ \A r \in Session \ {s} : session'[r] = session[r]
    BY <1>4 DEF DropTombstone, TypeOK, Unknown
  <2> QED
    BY <2>1 DEF Keeps, Fades
<1>5. CASE Sweep
  <2>1. \A s \in Session : Connected(s) /\ session[s].known /\ ~session[s].ended => Active(s)
    BY DEF Connected, Active, Exchanges, Sockets
  <2>2. ASSUME NEW s \in Session, ForgetWhen(s)
        PROVE  ~session'[s].known /\ ~session[s].ended /\ ~Active(s)
    BY <1>5, <2>2 DEF Sweep, ForgetWhen, Unknown
  <2>3. ASSUME NEW s \in Session, ~ForgetWhen(s)
        PROVE  session'[s] = session[s]
    BY <1>5, <2>3 DEF Sweep
  <2> QED
    BY <1>1, <2>1, <2>2, <2>3 DEF Fading, Keeps, Fades, Connected
<1>6. CASE session' = session
  BY <1>1, <1>6, UntouchedFades DEF Connected
<1> QED
  BY <1>2, <1>3, <1>4, <1>5, <1>6 DEF Time, Expire

LEMMA TableStep ==
  ASSUME TypeOK, [Next]_vars
  PROVE  Fading \/ Entering
<1>1. CASE UNCHANGED vars
  BY <1>1, UntouchedFades DEF vars, Connected
<1> QED
  BY <1>1, VisitMoves, TrafficFades, ManageFades, TimeFades DEF Next

\* Where there is at most one session to join, the fingerprint finds it.
LEMMA FoundByFingerprint ==
  ASSUME TypeOK, NEW c, Joinable(c) # {}, \A r, s \in Joinable(c) : r = s
  PROVE  ByFingerprint(c) \in Joinable(c)
<1>1. PICK s \in Joinable(c) : TRUE
  OBVIOUS
<1>2. s <= s
  BY DEF Joinable, Session
<1>3. \A t \in Joinable(c) : s <= t
  BY <1>2
<1> QED
  BY <1>1, <1>3 DEF ByFingerprint

\* The entries of the table that a request without the cookie may join.
Joins(a) == a.known /\ ~a.ended /\ (~a.confirmed \/ a.young)

OneJoins(table) ==
  \A r, s \in Session :
    /\ Joins(table[r]) /\ Joins(table[s])
    /\ FingerprintOf[table[r].client] = FingerprintOf[table[s].client]
    => r = s

TableInv ==
  /\ TypeOK
  /\ \A s \in Session : session[s].known => s <= opened
  /\ OneJoins(session)

LEMMA OneJoinsIsOneJoinable == OneJoinableSession <=> OneJoins(session)
<1>1. ASSUME OneJoins(session), NEW r \in Session, NEW s \in Session,
             \A x \in {r, s} : Joins(session[x]),
             FingerprintOf[session[r].client] = FingerprintOf[session[s].client]
      PROVE  r = s
  BY <1>1 DEF OneJoins
<1>2. ASSUME OneJoinableSession, NEW r \in Session, NEW s \in Session,
             Joins(session[r]), Joins(session[s]),
             FingerprintOf[session[r].client] = FingerprintOf[session[s].client]
      PROVE  r = s
  <2>1. \A x \in {r, s} : Joins(session[x])
    BY <1>2
  <2> QED
    BY <1>2, <2>1 DEF OneJoinableSession, Joins
<1> QED
  BY <1>1, <1>2 DEF OneJoins, OneJoinableSession, Joins

LEMMA FadingKeepsTable ==
  ASSUME TableInv, Fading, TypeOK'
  PROVE  TableInv'
<1>1. \A s \in Session : Joins(session'[s]) => Joins(session[s]) /\ session'[s].client = session[s].client
  BY DEF Fading, Fades, Joins
<1>2. \A s \in Session : session'[s].known => session[s].known
  BY DEF Fading, Fades
<1>3. opened' = opened
  BY DEF Fading
<1>4. \A s \in Session : session'[s].known => s <= opened'
  BY <1>2, <1>3 DEF TableInv
<1>5. OneJoins(session')
  BY <1>1 DEF TableInv, OneJoins
<1> QED
  BY <1>4, <1>5 DEF TableInv, OneJoins

LEMMA EnteringKeepsTable ==
  ASSUME TableInv, Entering, TypeOK'
  PROVE  TableInv'
<1>1. PICK s \in Session, c \in Client, cookie \in 0..MaxSessions, i \in Invite \cup {None} :
        Admit(s, c, cookie, i)
  BY DEF Entering
<1>2. /\ session'[s] = Touched(s, c, cookie, i)
      /\ \A r \in Session \ {s} : session'[r] = session[r]
  BY <1>1 DEF Admit, TableInv, TypeOK
<1>3. opened' = IF session[s].known THEN opened ELSE s
  BY <1>1 DEF Admit
<1>4. opened \in Nat /\ Session \subseteq Nat
  BY GatewayBounds DEF TableInv, TypeOK, Session
<1>5. \A r, t \in Joinable(c) : r = t
  BY DEF TableInv, OneJoins, Joins, Joinable
<1>0. (TypeOK' /\ OneJoins(session') /\ \A r \in Session : session'[r].known => r <= opened') => TableInv'
  BY DEF TableInv, OneJoins
<1>6. Serves(s, c, cookie) /\ ~IsEnded(cookie)
  BY <1>1 DEF Admit, MayPass
<1>7. CASE ByCookie(cookie)
  <2>1. s = cookie /\ session[s].known /\ ~session[s].ended
    BY <1>6, <1>7 DEF Serves, Found, IsEnded, ByCookie
  <2>2. /\ session'[s].client = session[s].client
        /\ session'[s].confirmed
        /\ session'[s].young = session[s].young
    <3>1. session[s].young \in BOOLEAN /\ session[s].confirmed \in BOOLEAN
      BY DEF TableInv, TypeOK, SessionRecord
    <3>2. /\ session'[s].client = session[s].client
          /\ session'[s].confirmed = (session[s].confirmed \/ ByCookie(cookie))
          /\ session'[s].young = (session[s].young \/ ~session[s].known)
      BY <1>2, <2>1 DEF Touched
    <3> QED
      BY <1>7, <2>1, <3>1, <3>2, Zenon
  <2>3. Joins(session'[s]) => Joins(session[s])
    BY <2>1, <2>2 DEF Joins
  <2>4. OneJoins(session')
    BY <1>2, <2>2, <2>3 DEF TableInv, OneJoins
  <2>5. \A r \in Session : session'[r].known => r <= opened'
    BY <1>2, <1>3, <2>1 DEF TableInv
  <2> QED
    BY <1>0, <2>4, <2>5
<1>8. CASE ~ByCookie(cookie) /\ Joinable(c) # {}
  <2>1. ByFingerprint(c) \in Joinable(c)
    BY <1>5, <1>8, FoundByFingerprint DEF TableInv
  <2>2. s \in Joinable(c)
    BY <1>6, <1>8, <2>1 DEF Serves, Found, Joinable, Session, None
  <2>3. session'[s].client = session[s].client
    BY <1>2, <2>2 DEF Touched, Joinable
  <2>4. Joins(session[s])
    BY <2>2 DEF Joinable, Joins
  <2>5. OneJoins(session')
    BY <1>2, <2>3, <2>4 DEF TableInv, OneJoins
  <2>6. \A r \in Session : session'[r].known => r <= opened'
    BY <1>2, <1>3, <2>4 DEF TableInv, Joins
  <2> QED
    BY <1>0, <2>5, <2>6
<1>9. CASE ~ByCookie(cookie) /\ Joinable(c) = {}
  <2>1. s = opened + 1
    BY <1>6, <1>9 DEF Serves, Found, ByFingerprint
  <2>2. ~session[s].known
    BY <1>4, <2>1 DEF TableInv
  <2>3. session'[s].client = c
    BY <1>2, <2>2 DEF Touched
  <2>4. \A r \in Session \ {s} :
          Joins(session'[r]) => FingerprintOf[session'[r].client] # FingerprintOf[c]
    BY <1>2, <1>9 DEF Joins, Joinable
  <2>5. OneJoins(session')
    BY <1>2, <2>3, <2>4 DEF TableInv, OneJoins
  <2>6. \A r \in Session : session'[r].known => r <= opened'
    BY <1>2, <1>3, <1>4, <2>1, <2>2 DEF TableInv
  <2> QED
    BY <1>0, <2>5, <2>6
<1> QED
  BY <1>7, <1>8, <1>9

\* Requests of one fingerprint that carry no cookie never have two sessions to choose
\* between: one is opened only when there is none to join, ageing and confirmation only
\* take sessions away, and a session never changes its client.
THEOREM GatewayOneJoinable == Spec => []OneJoinableSession
<1>1. Init /\ TypeOK => TableInv
  BY DEF Init, TableInv, OneJoins, Joins, Unknown
<1>2. TypeOK /\ TypeOK' /\ TableInv /\ [Next]_vars => TableInv'
  BY TableStep, FadingKeepsTable, EnteringKeepsTable
<1>3. TableInv => OneJoinableSession
  BY OneJoinsIsOneJoinable DEF TableInv
<1> QED
  BY <1>1, <1>2, <1>3, GatewayTypes, PTL DEF Spec

\* A session through which a request or a socket still passes is in the table, or was
\* ended by the host: neither the sweep nor any other step forgets it.
THEOREM GatewayRemembersConnected == Spec => []ConnectedIsRemembered
<1> DEFINE Inv == \A s \in Session : Connected(s) => Remembered(s)
<1>1. Inv <=> ConnectedIsRemembered
  BY DEF ConnectedIsRemembered, Connected, Remembered, Exchanges, Sockets
<1>2. Init => Inv
  BY DEF Init, Connected, Free
<1>3. TypeOK /\ Inv /\ [Next]_vars => Inv'
  <2> SUFFICES ASSUME TypeOK, Inv, [Next]_vars, NEW s \in Session, Connected(s)'
               PROVE  Remembered(s)'
    OBVIOUS
  <2>1. CASE Fading
    BY <2>1 DEF Fading, Keeps, Remembered
  <2>2. CASE Entering
    <3>1. PICK r \in Session, c \in Client, cookie \in 0..MaxSessions, i \in Invite \cup {None} :
            /\ Admit(r, c, cookie, i)
            /\ \A t \in Session : Connected(t)' => Connected(t) \/ t = r
      BY <2>2 DEF Entering
    <3>2. /\ session'[r].known
          /\ \A t \in Session \ {r} : session'[t] = session[t]
      BY <3>1 DEF Admit, Touched, TypeOK
    <3> QED
      BY <3>1, <3>2 DEF Remembered
  <2> QED
    BY <2>1, <2>2, TableStep
<1> QED
  BY <1>1, <1>2, <1>3, GatewayTypes, PTL DEF Spec

-----------------------------------------------------------------------------
(* Invitations                                                             *)

\* A session becomes invited only by the use of an invite that is still good, which
\* counts the use in the same step, or by the host's switch to invite-only.
THEOREM GatewayInvites == Spec => InvitedByInvite
<1> DEFINE Spent(i) ==
      /\ ~invite[i].revoked /\ ~invite[i].expired
      /\ invite[i].uses < invite[i].max
      /\ invite'[i].uses = invite[i].uses + 1
<1> DEFINE ByInvite(s) ==
      session'[s].invited /\ ~session[s].invited =>
        \/ mode # "protected" /\ mode' = "protected"
        \/ \E i \in Invite : Spent(i)
<1>1. ASSUME TypeOK, NEW i \in Invite, Redeemable(i), Redeem(i)
      PROVE  Spent(i)
  <2>1. invite[i] \in InviteRecord /\ invite' = [invite EXCEPT ![i].uses = @ + 1]
    BY <1>1, GatewayBounds DEF TypeOK, Redeem, None, Invite
  <2> QED
    BY <1>1, <2>1 DEF Redeemable, TypeOK, InviteRecord
<1>2. ASSUME TypeOK, NEW r \in Session, NEW c, NEW cookie, NEW i \in Invite \cup {None},
             Admit(r, c, cookie, i), NEW s \in Session
      PROVE  ByInvite(s)
  <2>1. CASE i = None
    <3>1. /\ session'[r].invited = (session[r].invited \/ i # None)
          /\ s # r => session'[s] = session[s]
      BY <1>2 DEF Admit, Touched, TypeOK
    <3>2. session'[s].invited => session[s].invited
      BY <2>1, <3>1, Zenon
    <3> QED
      BY <3>2
  <2>2. CASE i # None
    <3>1. Redeemable(i) /\ Redeem(i) /\ i \in Invite
      BY <1>2, <2>2 DEF Admit, MayPass
    <3>2. Spent(i)
      BY <1>1, <1>2, <3>1
    <3> QED
      BY <3>1, <3>2
  <2> QED
    BY <2>1, <2>2
<1>3. ASSUME NEW m, KeepEveryone(m), mode' = m, NEW s \in Session
      PROVE  ByInvite(s)
  BY <1>3 DEF KeepEveryone
<1>4. ASSUME TypeOK, Visit, NEW s \in Session
      PROVE  ByInvite(s)
  <2>1. ASSUME NEW c \in Client, DenyEnded(c)
        PROVE  ByInvite(s)
    BY <2>1 DEF DenyEnded
  <2>2. ASSUME NEW c \in Client, NEW cookie \in Cookies(c), Get(c, cookie) \/ Upgrade(c, cookie)
        PROVE  ByInvite(s)
    <3>1. PICK r \in Session : Admit(r, c, cookie, None)
      BY <2>2 DEF Get, Upgrade
    <3> QED
      BY <1>2, <1>4, <3>1
  <2>3. ASSUME NEW c \in Client, NEW cookie \in Cookies(c), NEW i \in Invite, UseInvite(c, cookie, i)
        PROVE  ByInvite(s)
    <3>1. PICK r \in Session : Admit(r, c, cookie, i)
      BY <2>3 DEF UseInvite
    <3> QED
      BY <1>2, <1>4, <3>1
  <2>4. ASSUME NEW c \in Client, NEW cookie \in Cookies(c), NEW i \in Invite, DenyAtLimit(c, cookie, i)
        PROVE  ByInvite(s)
    <3>1. Redeemable(i) /\ Redeem(i)
      BY <2>4 DEF DenyAtLimit, MayPass
    <3>2. Spent(i)
      BY <1>1, <1>4, <3>1
    <3> QED
      BY <3>2
  <2> QED
    BY <1>4, <2>1, <2>2, <2>3, <2>4 DEF Visit
<1>5. ASSUME TypeOK, Traffic, NEW s \in Session
      PROVE  ByInvite(s)
  <2>1. PICK n : session' = Seen(n) \/ session' = session
    BY <1>5 DEF Traffic, Respond, AppFails, Close
  <2>2. session'[s] = session[s] \/ session'[s] = [session[s] EXCEPT !.seen = "recent"]
    BY <1>5, <2>1 DEF Seen, TypeOK
  <2>3. session'[s].invited = session[s].invited
    BY <1>5, <2>2 DEF TypeOK, SessionRecord
  <2> QED
    BY <2>3
<1>6. ASSUME TypeOK, Manage, NEW s \in Session
      PROVE  ByInvite(s)
  <2>1. ASSUME NEW r \in Session, NEW block \in BOOLEAN, End(r, block)
        PROVE  ByInvite(s)
    BY <1>6, <2>1 DEF End, TypeOK, SessionRecord
  <2>2. CASE session' = session
    BY <2>2
  <2>3. ASSUME NEW n, NEW m, UpdateAccess(n, m)
        PROVE  ByInvite(s)
    BY <1>3, <2>3 DEF UpdateAccess
  <2>4. ASSUME NEW n, CreateInvite(n)
        PROVE  ByInvite(s)
    BY <1>3, <2>4 DEF CreateInvite
  <2>5. CASE Stop
    BY <2>5 DEF Stop, Unknown
  <2> QED
    BY <1>6, <2>1, <2>2, <2>3, <2>4, <2>5 DEF Manage, Unblock, RevokeInvite, SetAvailable
<1>7. ASSUME TypeOK, Time, NEW s \in Session
      PROVE  ByInvite(s)
  <2>1. ASSUME NEW r \in Session, GrowsUp(r)
        PROVE  ByInvite(s)
    BY <1>7, <2>1 DEF GrowsUp, TypeOK, SessionRecord
  <2>2. ASSUME NEW r \in Session, Ages(r)
        PROVE  ByInvite(s)
    BY <1>7, <2>2 DEF Ages, TypeOK, SessionRecord
  <2>3. ASSUME NEW r \in Session, DropTombstone(r)
        PROVE  ByInvite(s)
    BY <1>7, <2>3 DEF DropTombstone, TypeOK, Unknown
  <2>4. CASE Sweep
    BY <2>4 DEF Sweep, Unknown
  <2>5. CASE session' = session
    BY <2>5
  <2> QED
    BY <1>7, <2>1, <2>2, <2>3, <2>4, <2>5 DEF Time, Expire
<1> DEFINE Invites ==
      \A s \in Session : session'[s].invited /\ ~session[s].invited =>
        \/ mode # "protected" /\ mode' = "protected"
        \/ \E i \in Invite :
             /\ ~invite[i].revoked /\ ~invite[i].expired
             /\ invite[i].uses < invite[i].max
             /\ invite'[i].uses = invite[i].uses + 1
<1>8. TypeOK /\ [Next]_vars => [Invites]_vars
  BY <1>4, <1>5, <1>6, <1>7 DEF Next
<1> QED
  BY <1>8, GatewayTypes, PTL DEF Spec, InvitedByInvite, Invites
=============================================================================
