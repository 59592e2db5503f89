----------------------------- MODULE UserLimit -----------------------------
(***************************************************************************)
(* What docs/access-control.md promises of "maximum active users": a       *)
(* newcomer (or a user returning from idle) gets in only below the limit,  *)
(* and changing the limit cuts nobody off.  AccessGateway implements it.   *)
(***************************************************************************)
EXTENDS Naturals, FiniteSets

CONSTANTS User, Limit   \* Limit: the limits the host may choose, 0 for none

VARIABLES active, limit

Init ==
  /\ active = {}
  /\ limit \in Limit

HasRoom == limit = 0 \/ Cardinality(active) < limit

Enter(u) ==
  /\ HasRoom
  /\ active' = active \cup {u}
  /\ UNCHANGED limit

Leave ==
  /\ active' \in SUBSET active
  /\ UNCHANGED limit

ChangeLimit ==
  /\ limit' \in Limit
  /\ UNCHANGED active

Next == (\E u \in User : Enter(u)) \/ Leave \/ ChangeLimit

Spec == Init /\ [][Next]_<<active, limit>>
=============================================================================
