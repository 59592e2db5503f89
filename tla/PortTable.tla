----------------------------- MODULE PortTable -----------------------------
(***************************************************************************)
(* What a port allocator promises: a table of which project holds a port.  *)
(* An allocation takes a port nobody else holds, and gives up what the     *)
(* project held before.  Only where applications may choose their port     *)
(* themselves (adopts) is a port ever taken from another project.          *)
(***************************************************************************)
CONSTANTS Port, Project, Nobody

VARIABLES
  owner,    \* the project that holds a port, or Nobody
  adopts    \* whether ports chosen by applications are recorded here

Empty == [p \in Port |-> Nobody]

Init == owner = Empty /\ adopts \in BOOLEAN

Give(q, p) ==
  owner' = [x \in Port |-> IF x = p THEN q ELSE IF owner[x] = q THEN Nobody ELSE owner[x]]

Allocate(q, p) == owner[p] \in {Nobody, q} /\ Give(q, p) /\ UNCHANGED adopts
Adopt(q, p) == adopts /\ Give(q, p) /\ UNCHANGED adopts
Release(q) ==
  /\ owner' = [x \in Port |-> IF owner[x] = q THEN Nobody ELSE owner[x]]
  /\ UNCHANGED adopts
Restart == owner' = Empty /\ UNCHANGED adopts

Next ==
  \/ \E q \in Project, p \in Port : Allocate(q, p) \/ Adopt(q, p)
  \/ \E q \in Project : Release(q)
  \/ Restart

Spec == Init /\ [][Next]_<<owner, adopts>>
=============================================================================
