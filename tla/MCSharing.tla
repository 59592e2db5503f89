----------------------------- MODULE MCSharing -----------------------------
(***************************************************************************)
(* Sharing for TLC.  Tunnels and the network meet in refreshUrls() only,   *)
(* which writes both links from what it finds: a behaviour either keeps to *)
(* the changes of the network or, while it stands still, to the exposures. *)
(***************************************************************************)
EXTENDS Sharing

Still ==
  /\ ifs = {1} /\ route = None /\ known = Listed(ifs, route)
  /\ link \in {None, 1} /\ ~missed
Apart == Still \/ (exposure # Lan /\ \A t \in Tunnel : proc[t] = "unused")

MCSpec == Init /\ [][Next /\ Apart']_vars /\ Continues
=============================================================================
