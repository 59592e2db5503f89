-------------------------- MODULE MCAccessGateway --------------------------
(***************************************************************************)
(* Instances of AccessGateway for TLC, and what a comment says of it that  *)
(* the code does not keep.                                                 *)
(***************************************************************************)
EXTENDS AccessGateway

CONSTANTS laptop, phone, script

\* Two visitors behind one address with one user agent, and one at another address.
MCAddressOf == [c \in {laptop, phone, script} |-> IF c = script THEN "lan" ELSE "home"]
MCFingerprintOf == MCAddressOf

\* A behaviour has several visitors, or one without streams or blocks, invites and both
\* modes.
Crowd == mode = "public" /\ issued = 0 /\ \A s \in Session : ~session[s].invited
Alone ==
  /\ maxUsers = 1 /\ blocked = {}
  /\ \A s \in Session : session[s].known => session[s].client = laptop
  /\ \A k \in Conn : conn[k].client = laptop /\ conn[k].kind \notin {"open", "closing"}
  /\ \A c \in Client \ {laptop} : jar[c] = None

MCSpec == Init /\ [][Next /\ (Crowd \/ Alone)']_vars

\* sessions.ts:157, "its open connections are closed": an ended session has no
\* connection to the app.  end() destroys the sockets, not the HTTP exchanges.
EndedMeansDisconnected ==
  \A s \in Session : session[s].ended => Exchanges(s) \cup Sockets(s) = {}
=============================================================================
