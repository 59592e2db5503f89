--------------------------- MODULE AccessGateway ---------------------------
(***************************************************************************)
(* The access gateway in front of a hosted app and its session table       *)
(* (packages/access/src/gateway.ts, sessions.ts), with the operations the  *)
(* engine performs on it (services/daemon/src/engine.ts).                  *)
(*                                                                         *)
(* admit() is synchronous, so a request is one step; what follows it (the  *)
(* app's answer, the end of a stream, a disconnect) comes in later steps.  *)
(* Time is a set of ageing steps: a session stops being young (15 s after  *)
(* it was opened), was last seen "recently", longer ago than the idle      *)
(* timeout, or longer ago than the retention.  Requests that change        *)
(* nothing (blocked, uninvited, rate limited, over-long, to a sensitive    *)
(* path, Rynk's own probe) are stuttering steps and are left out.          *)
(***************************************************************************)
EXTENDS Naturals, FiniteSets

CONSTANTS
  Client,           \* browsers and other programs that visit
  AddressOf,        \* the network address of each client
  FingerprintOf,    \* address and user agent of each client, hashed together
  KeepsCookies,     \* the clients that send cookies back
  Limit,            \* values of access.maxUsers the host may choose, 0 for none
  Mode,             \* access modes the host may choose
  MaxSessions,      \* bound: sessions opened in the life of a gateway
  MaxConns,         \* limits.maxConnections
  MaxInflight,      \* limits.maxConcurrentPerSession
  MaxSockets,       \* limits.maxSocketsPerSession
  MaxInvites,       \* bound: invites created
  MaxUses           \* bound: maxUses of an invite

ASSUME GatewayBounds ==
  /\ Client # {}
  /\ Limit \subseteq Nat
  /\ Mode \subseteq {"public", "protected"}
  /\ KeepsCookies \subseteq Client
  /\ MaxSessions \in Nat \ {0} /\ MaxConns \in Nat \ {0}
  /\ MaxInflight \in Nat \ {0} /\ MaxSockets \in Nat \ {0}
  /\ MaxInvites \in Nat /\ MaxUses \in Nat \ {0}
  /\ \A a, b \in Client :
       FingerprintOf[a] = FingerprintOf[b] => AddressOf[a] = AddressOf[b]

Session == 1..MaxSessions
Conn == 1..MaxConns
Invite == 1..MaxInvites
None == 0

VARIABLES
  opened,      \* how many sessions have been opened
  session,     \* the session table
  conn,        \* HTTP exchanges and sockets passing through the gateway
  jar,         \* the gateway's cookie in each client (a session id), or None
  maxUsers,    \* policy.maxUsers
  mode,        \* policy.mode
  blocked,     \* addresses refused
  issued,      \* how many invites have been created
  invite,      \* the invites
  available,   \* FALSE while the app restarts
  serving      \* the gateway has not been stopped

vars == <<opened, session, conn, jar, maxUsers, mode, blocked, issued, invite,
          available, serving>>

SessionRecord ==
  [known : BOOLEAN, client : Client, confirmed : BOOLEAN, young : BOOLEAN,
   seen : {"recent", "idle", "stale"}, invited : BOOLEAN, ended : BOOLEAN]

\* "pending": forwarded, the app has not answered; "open": the answer streams;
\* "closing": the app's side failed, the response is not closed yet; "socket": upgraded.
ConnKind == {"free", "pending", "open", "closing", "socket"}
ConnRecord == [kind : ConnKind, session : 0..MaxSessions, client : Client, cookie : BOOLEAN]
InviteRecord == [uses : 0..MaxUses, max : 0..MaxUses, revoked : BOOLEAN, expired : BOOLEAN]

Unknown ==
  [known |-> FALSE, client |-> CHOOSE c \in Client : TRUE, confirmed |-> FALSE,
   young |-> FALSE, seen |-> "stale", invited |-> FALSE, ended |-> FALSE]
Free == [kind |-> "free", session |-> None, client |-> CHOOSE c \in Client : TRUE,
         cookie |-> FALSE]
NoInvite == [uses |-> 0, max |-> 0, revoked |-> FALSE, expired |-> FALSE]

TypeOK ==
  /\ opened \in 0..MaxSessions
  /\ session \in [Session -> SessionRecord]
  /\ conn \in [Conn -> ConnRecord]
  /\ jar \in [Client -> 0..MaxSessions]
  /\ maxUsers \in Limit
  /\ mode \in Mode
  /\ blocked \subseteq {AddressOf[c] : c \in Client}
  /\ issued \in 0..MaxInvites
  /\ invite \in [Invite -> InviteRecord]
  /\ available \in BOOLEAN
  /\ serving \in BOOLEAN

Init ==
  /\ opened = 0
  /\ session = [s \in Session |-> Unknown]
  /\ conn = [k \in Conn |-> Free]
  /\ jar = [c \in Client |-> None]
  /\ maxUsers \in Limit
  /\ mode \in Mode
  /\ blocked = {}
  /\ issued = 0
  /\ invite = [i \in Invite |-> NoInvite]
  /\ available = FALSE
  /\ serving = TRUE
-----------------------------------------------------------------------------
(* What the session table can tell                                         *)

Exchanges(s) == {k \in Conn : conn[k].session = s /\ conn[k].kind \in {"pending", "open"}}
Inflight(s) == {k \in Conn : conn[k].session = s /\ conn[k].kind \in {"pending", "open", "closing"}}
Sockets(s) == {k \in Conn : conn[k].session = s /\ conn[k].kind = "socket"}

Active(s) ==
  /\ session[s].known
  /\ ~session[s].ended
  /\ Sockets(s) # {} \/ Exchanges(s) # {} \/ session[s].seen = "recent"

ActiveSessions == {s \in Session : Active(s)}
HasCapacity == maxUsers = 0 \/ Cardinality(ActiveSessions) < maxUsers


\* Mutant: a client that keeps no cookies leaves its session after 15 s.
JoinableWhileYoung(c) ==
  {s \in Session :
     /\ session[s].known /\ ~session[s].ended
     /\ FingerprintOf[session[s].client] = FingerprintOf[c]
     /\ session[s].young}

\* Sessions a request without the cookie may join.
Joinable(c) ==
  {s \in Session :
     /\ session[s].known /\ ~session[s].ended
     /\ FingerprintOf[session[s].client] = FingerprintOf[c]
     /\ ~session[s].confirmed \/ session[s].young}
ByFingerprint(c) ==
  IF Joinable(c) = {} THEN None
  ELSE CHOOSE s \in Joinable(c) : \A t \in Joinable(c) : s <= t

ByCookie(cookie) == cookie # None /\ session[cookie].known
IsEnded(cookie) == ByCookie(cookie) /\ session[cookie].ended
Found(c, cookie) == IF ByCookie(cookie) THEN cookie ELSE ByFingerprint(c)

\* The cookie a request carries: a client keeps it, but a request may have been
\* sent before it arrived.
Cookies(c) == {None, jar[c]}


\* Mutant: a revoked invite is still redeemed.
RedeemableForever(i) ==
  /\ i \in 1..issued
  /\ ~invite[i].expired
  /\ invite[i].uses < invite[i].max

Redeemable(i) ==
  /\ i \in 1..issued
  /\ ~invite[i].revoked /\ ~invite[i].expired
  /\ invite[i].uses < invite[i].max
-----------------------------------------------------------------------------
(* Admission                                                               *)

\* Mutant: only a newcomer's address is looked up.
NewcomerMayPass(c, cookie, i) ==
  /\ serving
  /\ cookie = None => AddressOf[c] \notin blocked
  /\ ~IsEnded(cookie)
  /\ i = None \/ Redeemable(i)

\* Neither blocked nor ended, and the invite (if the request has one) is good.
MayPass(c, cookie, i) ==
  /\ serving
  /\ AddressOf[c] \notin blocked
  /\ ~IsEnded(cookie)
  /\ i = None \/ Redeemable(i)

Invited(c, cookie, i) ==
  \/ i # None
  \/ Found(c, cookie) # None /\ session[Found(c, cookie)].invited
Welcome(c, cookie, i) == mode = "protected" => Invited(c, cookie, i)

\* The session the request gets: the one it has, or a new one.
Serves(s, c, cookie) ==
  IF Found(c, cookie) # None THEN s = Found(c, cookie)
  ELSE opened < MaxSessions /\ s = opened + 1


\* Mutant: a session returning from idle is not counted as new.
HasRoomOnceKnown(s) == session[s].known \/ HasCapacity

HasRoom(s) == Active(s) \/ HasCapacity

\* redeem() takes the use and marks the session before the limit is looked at.
Redeem(i) ==
  invite' = IF i = None THEN invite ELSE [invite EXCEPT ![i].uses = @ + 1]

\* create() if the session is new, then touch().
Touched(s, c, cookie, i) ==
  [known |-> TRUE,
   client |-> IF session[s].known THEN session[s].client ELSE c,
   confirmed |-> session[s].confirmed \/ ByCookie(cookie),
   young |-> session[s].young \/ ~session[s].known,
   seen |-> "recent",
   invited |-> session[s].invited \/ i # None,
   ended |-> FALSE]

Admit(s, c, cookie, i) ==
  /\ MayPass(c, cookie, i)
  /\ Welcome(c, cookie, i)
  /\ Serves(s, c, cookie)
  /\ HasRoom(s)
  /\ Redeem(i)
  /\ session' = [session EXCEPT ![s] = Touched(s, c, cookie, i)]
  /\ opened' = IF session[s].known THEN opened ELSE s

\* The limit page: the invite is spent, an idle session it came with is invited.
DenyAtLimit(c, cookie, i) ==
  /\ i # None
  /\ MayPass(c, cookie, i)
  /\ LET s == Found(c, cookie) IN
       /\ ~HasCapacity
       /\ s # None => ~Active(s)
       /\ session' = IF s = None THEN session ELSE [session EXCEPT ![s].invited = TRUE]
  /\ Redeem(i)
  /\ UNCHANGED <<opened, conn, jar, maxUsers, mode, blocked, issued, available, serving>>

\* The "session ended" page clears the cookie.
DenyEnded(c) ==
  /\ serving
  /\ AddressOf[c] \notin blocked
  /\ IsEnded(jar[c])
  /\ jar' = [jar EXCEPT ![c] = None]
  /\ UNCHANGED <<opened, session, conn, maxUsers, mode, blocked, issued, invite,
                 available, serving>>

Receives(c, s) == IF c \in KeepsCookies THEN [jar EXCEPT ![c] = s] ELSE jar
-----------------------------------------------------------------------------
(* HTTP and upgrades                                                       *)

\* handle() with an invite: answered 303 with the cookie, nothing is forwarded.
UseInvite(c, cookie, i) ==
  /\ i # None
  /\ \E s \in Session :
       /\ Admit(s, c, cookie, i)
       /\ jar' = Receives(c, s)
  /\ UNCHANGED <<conn, maxUsers, mode, blocked, issued, available, serving>>

\* handle(): admitted; forwarded unless the app restarts or the session has too
\* many exchanges.
Get(c, cookie) ==
  /\ \E s \in Session :
       /\ Admit(s, c, cookie, None)
       /\ IF available /\ Cardinality(Inflight(s)) < MaxInflight
          THEN \E k \in Conn :
                 /\ conn[k].kind = "free"
                 /\ conn' = [conn EXCEPT ![k] =
                       [kind |-> "pending", session |-> s, client |-> c,
                        cookie |-> ~ByCookie(cookie)]]
          ELSE UNCHANGED conn
  /\ UNCHANGED <<jar, maxUsers, mode, blocked, issued, available, serving>>

Upgrade(c, cookie) ==
  /\ \E s \in Session :
       /\ Admit(s, c, cookie, None)
       /\ IF available /\ Cardinality(Sockets(s)) < MaxSockets
          THEN \E k \in Conn :
                 /\ conn[k].kind = "free"
                 /\ conn' = [conn EXCEPT ![k] =
                       [kind |-> "socket", session |-> s, client |-> c, cookie |-> FALSE]]
          ELSE UNCHANGED conn
  /\ UNCHANGED <<jar, maxUsers, mode, blocked, issued, available, serving>>

\* The app answers: the cookie goes out with its headers.
Respond(k) ==
  /\ conn[k].kind = "pending"
  /\ conn' = [conn EXCEPT ![k].kind = "open", ![k].cookie = FALSE]
  /\ jar' = IF conn[k].cookie THEN Receives(conn[k].client, conn[k].session) ELSE jar
  /\ UNCHANGED <<opened, session, maxUsers, mode, blocked, issued, invite, available, serving>>

\* endStream() and detachSocket() mark the session as seen.
Seen(s) ==
  IF session[s].known THEN [session EXCEPT ![s].seen = "recent"] ELSE session

\* The app's side fails: the stream is done, the response closes later.
AppFails(k) ==
  /\ conn[k].kind \in {"pending", "open"}
  /\ conn' = [conn EXCEPT ![k].kind = "closing", ![k].cookie = FALSE]
  /\ session' = Seen(conn[k].session)
  /\ UNCHANGED <<opened, jar, maxUsers, mode, blocked, issued, invite, available, serving>>

\* The response or socket closes, at either end.
Close(k) ==
  /\ conn[k].kind # "free"
  /\ conn' = [conn EXCEPT ![k] = Free]
  /\ session' = IF conn[k].kind = "closing" THEN session ELSE Seen(conn[k].session)
  /\ UNCHANGED <<opened, jar, maxUsers, mode, blocked, issued, invite, available, serving>>
-----------------------------------------------------------------------------
(* The host                                                                *)

\* disconnect: the sockets are destroyed, the HTTP exchanges are left alone.
End(s, block) ==
  /\ serving
  /\ session[s].known
  /\ session' = [session EXCEPT ![s].ended = TRUE]
  /\ conn' = [k \in Conn |-> IF k \in Sockets(s) THEN Free ELSE conn[k]]
  /\ blocked' = IF block THEN blocked \cup {AddressOf[session[s].client]} ELSE blocked
  /\ UNCHANGED <<opened, jar, maxUsers, mode, issued, invite, available, serving>>

Unblock(a) ==
  /\ serving
  /\ blocked' = blocked \ {a}
  /\ UNCHANGED <<opened, session, conn, jar, maxUsers, mode, issued, invite, available, serving>>


\* Mutant: the mode changes and nobody is invited.
KeepNobody(m) == session' = session

\* Going invite-only invites everyone the table lists.
KeepEveryone(m) ==
  session' = IF m = "protected" /\ mode # "protected"
             THEN [s \in Session |->
                     IF session[s].known /\ ~session[s].ended
                     THEN [session[s] EXCEPT !.invited = TRUE] ELSE session[s]]
             ELSE session

UpdateAccess(n, m) ==
  /\ serving
  /\ KeepEveryone(m)
  /\ maxUsers' = n
  /\ mode' = m
  /\ UNCHANGED <<opened, conn, jar, blocked, issued, invite, available, serving>>

CreateInvite(n) ==
  /\ serving
  /\ issued < MaxInvites
  /\ KeepEveryone("protected")
  /\ mode' = "protected"
  /\ issued' = issued + 1
  /\ invite' = [invite EXCEPT ![issued + 1].max = n]
  /\ UNCHANGED <<opened, conn, jar, maxUsers, blocked, available, serving>>

RevokeInvite(i) ==
  /\ serving
  /\ invite' = [invite EXCEPT ![i].revoked = TRUE]
  /\ UNCHANGED <<opened, session, conn, jar, maxUsers, mode, blocked, issued, available, serving>>

\* The engine: closed while the app restarts, open when it is healthy.
SetAvailable(v) ==
  /\ serving
  /\ available' = v
  /\ UNCHANGED <<opened, session, conn, jar, maxUsers, mode, blocked, issued, invite, serving>>

\* The sessions are cleared and every connection destroyed; their ids mean nothing
\* to the next gateway.
Stop ==
  /\ serving
  /\ serving' = FALSE
  /\ session' = [s \in Session |-> Unknown]
  /\ conn' = [k \in Conn |-> Free]
  /\ UNCHANGED <<opened, jar, maxUsers, mode, blocked, issued, invite, available>>
-----------------------------------------------------------------------------
(* Time                                                                    *)

\* Nothing reads the age of an ended session.
GrowsUp(s) ==
  /\ session[s].young /\ ~session[s].ended
  /\ session' = [session EXCEPT ![s].young = FALSE]
  /\ UNCHANGED <<opened, conn, jar, maxUsers, mode, blocked, issued, invite, available, serving>>

Ages(s) ==
  /\ session[s].known /\ ~session[s].ended
  /\ session[s].seen # "stale"
  /\ session' = [session EXCEPT ![s].seen = IF @ = "recent" THEN "idle" ELSE "stale"]
  /\ UNCHANGED <<opened, conn, jar, maxUsers, mode, blocked, issued, invite, available, serving>>


\* Mutant: the sweep looks at the last request only, not at open connections.
ForgetWhenUnseen(s) == ~session[s].ended /\ session[s].seen = "stale"

ForgetWhen(s) == ~session[s].ended /\ ~Active(s) /\ session[s].seen = "stale"

\* sweep(): forget the sessions that have long been idle.
Sweep ==
  /\ serving
  /\ session' = [s \in Session |-> IF ForgetWhen(s) THEN Unknown ELSE session[s]]
  /\ UNCHANGED <<opened, conn, jar, maxUsers, mode, blocked, issued, invite, available, serving>>

\* A minute after a session was ended the table forgets it too; exchanges it still
\* has keep the record.
DropTombstone(s) ==
  /\ session[s].known /\ session[s].ended
  /\ session' = [session EXCEPT ![s] = [Unknown EXCEPT !.ended = TRUE]]
  /\ UNCHANGED <<opened, conn, jar, maxUsers, mode, blocked, issued, invite, available, serving>>

\* Nothing reads the age of an invite that is spent or revoked.
Expire(i) ==
  /\ Redeemable(i)
  /\ invite' = [invite EXCEPT ![i].expired = TRUE]
  /\ UNCHANGED <<opened, session, conn, jar, maxUsers, mode, blocked, issued, available, serving>>
-----------------------------------------------------------------------------
Visit ==
  \E c \in Client :
    \/ DenyEnded(c)
    \/ \E cookie \in Cookies(c) :
         \/ Get(c, cookie)
         \/ Upgrade(c, cookie)
         \/ \E i \in Invite : UseInvite(c, cookie, i) \/ DenyAtLimit(c, cookie, i)

Traffic == \E k \in Conn : Respond(k) \/ AppFails(k) \/ Close(k)

Manage ==
  \/ \E s \in Session, block \in BOOLEAN : End(s, block)
  \/ \E a \in blocked : Unblock(a)
  \/ \E n \in Limit, m \in Mode : UpdateAccess(n, m)
  \/ \E n \in 1..MaxUses : "protected" \in Mode /\ CreateInvite(n)
  \/ \E i \in 1..issued : RevokeInvite(i)
  \/ \E v \in BOOLEAN : SetAvailable(v)
  \/ Stop

Time ==
  \/ \E s \in Session : GrowsUp(s) \/ Ages(s) \/ DropTombstone(s)
  \/ Sweep
  \/ \E i \in Invite : Expire(i)

Next == Visit \/ Traffic \/ Manage \/ Time

Spec == Init /\ [][Next]_vars
-----------------------------------------------------------------------------
(* Correctness                                                             *)

Limits == INSTANCE UserLimit WITH User <- Session, active <- ActiveSessions, limit <- maxUsers

\* docs/access-control.md, "What counts as an active user": the number of active
\* sessions grows only below the limit, also when an idle visitor returns, and no
\* change of the limit cuts anybody off.
LimitIsKept == Limits!Spec

\* In an invite-only app every session still known was invited or was there when it
\* became invite-only; so nobody who is using it is ever turned away by the switch.
ProtectedMeansInvited ==
  mode = "protected" =>
    \A s \in Session : session[s].known /\ ~session[s].ended => session[s].invited

\* sessions.ts, "page assets never inflate the count": requests of one fingerprint
\* that carry no cookie always have one session to join, never two.
OneJoinableSession ==
  \A r, s \in Session :
    /\ \A x \in {r, s} :
         /\ session[x].known /\ ~session[x].ended
         /\ ~session[x].confirmed \/ session[x].young
    /\ FingerprintOf[session[r].client] = FingerprintOf[session[s].client]
    => r = s

\* A connection is opened only for a session that is known, not ended and (in an
\* invite-only app) invited, and never for an address that is blocked, even with
\* a cookie from before the block.
ConnectionsAreAdmitted ==
  [][\A k \in Conn : conn[k].kind = "free" /\ conn'[k].kind # "free" =>
       LET s == conn'[k].session IN
         /\ session'[s].known /\ ~session'[s].ended
         /\ mode = "protected" => session'[s].invited
         /\ AddressOf[conn'[k].client] \notin blocked]_vars

\* A session that has an open connection is not forgotten: the sweep would free
\* its place while it goes on using the app.
ConnectedIsRemembered ==
  \A s \in Session : Exchanges(s) \cup Sockets(s) # {} => session[s].known \/ session[s].ended

\* A session becomes invited only by the use of an invite that is still good, or
\* by the switch to invite-only.
InvitedByInvite ==
  [][\A s \in Session : session'[s].invited /\ ~session[s].invited =>
       \/ mode # "protected" /\ mode' = "protected"
       \/ \E i \in Invite :
            /\ ~invite[i].revoked /\ ~invite[i].expired
            /\ invite[i].uses < invite[i].max
            /\ invite'[i].uses = invite[i].uses + 1]_vars
=============================================================================
