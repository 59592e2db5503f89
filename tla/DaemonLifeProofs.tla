-------------------------- MODULE DaemonLifeProofs --------------------------
(***************************************************************************)
(* For any number of deployments, daemon starts and moments of request:    *)
(* the types, that what runs in the background is what the database would  *)
(* have restored, and that restore() brings back what the user had         *)
(* running.  The invariant relates the entry in memory, its row, the saved *)
(* request and the place restore() has come to.                            *)
(***************************************************************************)
EXTENDS DaemonLife, TLAPS

\* the live deployment is the latest; a row appears when run() inserts it
Order ==
  /\ \A i \in DOMAIN rows : i <= created
  /\ IsLive => /\ live.id = created
               /\ live.phase = "new" => ~Persisted
               /\ live.phase \in {"inserted", "prepared", "started", "LIVE"} => Persisted
  /\ restore.at \in {"read", "reaping"} => restore.row \in DOMAIN rows
  /\ \A i \in Id : i > created => cli[i] = "none"
  /\ daemon = "down" => ~IsLive /\ restore.at = "done"

\* timers belong to foreground deployments
Leases ==
  /\ \A i \in attach \cup grace : cli[i] # "none"
  /\ IsLive /\ cli[live.id] # "none" => live.fg

\* the row of the live deployment is desired, and once run() has done both
\* writes the saved request is its own
Recorded ==
  IsLive /\ Persisted =>
    /\ ~Writing => setting = live.fg
    /\ ~Stopping /\ ~live.fg =>
         rows[live.id].desired = "running" /\ rows[live.id].state # "FAILED"

\* what the user has running could be restored at any moment
Kept ==
  wanted = "running" =>
    /\ ~setting /\ Restorable # {}
    /\ daemon = "serving" /\ restore.at = "done" => IsLive
    /\ IsLive => ~live.fg
    /\ Stopping => live.desired = "running" /\ daemon = "closing"

IInv == TypeOK /\ Order /\ Leases /\ Recorded /\ Kept

-----------------------------------------------------------------------------
(* Helpers                                                                  *)

\* WithRow() sets one row.
LEMMA RowSet ==
  ASSUME NEW i \in Id, NEW r \in Row, rows' = WithRow(i, r)
  PROVE  /\ DOMAIN rows' = DOMAIN rows \cup {i}
         /\ rows'[i] = r
         /\ \A j \in DOMAIN rows : j # i => rows'[j] = rows[j]
BY DEF WithRow

\* The entry is either that of a deployment or NotLive.
LEMMA LiveCases ==
  ASSUME TypeOK
  PROVE  /\ IsLive => live \in Live /\ live.id \in Id /\ live.id # 0 /\ live.phase # "none"
         /\ ~IsLive => live.id = 0 /\ live.phase = "none" /\ ~Stopping /\ live.fg = FALSE
<1>1. NotLive.id = 0 /\ NotLive.phase = "none" /\ NotLive.fg = FALSE
  BY DEF NotLive
<1>2. \A l \in Live : l.id \in Id /\ l.id # 0 /\ l.phase # "none"
  BY LifeBounds DEF Live, Id
<1> QED BY <1>1, <1>2 DEF TypeOK, IsLive, Stopping

\* A step that changes no row's `desired` and gives no row up as failed: what
\* could be restored before it can be restored after it.
SameWishes ==
  /\ DOMAIN rows' = DOMAIN rows
  /\ \A i \in DOMAIN rows : /\ rows'[i] \in Row
                            /\ rows'[i].desired = rows[i].desired
                            /\ rows'[i].state = "FAILED" => rows[i].state = "FAILED"

LEMMA SameWishesRestorable ==
  ASSUME SameWishes
  PROVE  Restorable \subseteq Restorable'
BY DEF SameWishes, Restorable, Desired, IsLatest

LEMMA UnchangedRows ==
  ASSUME TypeOK, UNCHANGED rows
  PROVE  SameWishes
BY DEF TypeOK, SameWishes

LEMMA RowState ==
  ASSUME TypeOK, NEW i \in DOMAIN rows, NEW r \in Row,
         r.desired = rows[i].desired, r.state # "FAILED", rows' = WithRow(i, r)
  PROVE  SameWishes
<1>1. i \in Id /\ \A j \in DOMAIN rows : rows[j] \in Row
  BY DEF TypeOK
<1>2. /\ DOMAIN rows' = DOMAIN rows \cup {i}
      /\ rows'[i] = r
      /\ \A j \in DOMAIN rows : j # i => rows'[j] = rows[j]
  BY <1>1, RowSet
<1>3. ASSUME NEW j \in DOMAIN rows
      PROVE  /\ rows'[j] \in Row
             /\ rows'[j].desired = rows[j].desired
             /\ rows'[j].state = "FAILED" => rows[j].state = "FAILED"
  BY <1>1, <1>2
<1> QED BY <1>2, <1>3 DEF SameWishes

LEMMA StoreActiveRows ==
  ASSUME TypeOK, rows' = StoreActive
  PROVE  SameWishes
<1>1. CASE Persisted
  <2> DEFINE r == [rows[live.id] EXCEPT !.state = "active"]
  <2>1. rows[live.id] \in Row /\ live.id \in DOMAIN rows
    BY <1>1 DEF TypeOK, Persisted
  <2>2. r \in Row /\ r.desired = rows[live.id].desired /\ r.state = "active"
    BY <2>1 DEF Row
  <2>3. rows' = WithRow(live.id, r)
    BY <1>1 DEF StoreActive
  <2> HIDE DEF r
  <2> QED BY <2>1, <2>2, <2>3, RowState
<1>2. CASE ~Persisted
  BY <1>2, UnchangedRows DEF StoreActive
<1> QED BY <1>1, <1>2

LEMMA LaunchedRows ==
  ASSUME TypeOK, Persisted, rows' = WithRow(live.id, Launched)
  PROVE  SameWishes
<1>1. rows[live.id] \in Row /\ live.id \in DOMAIN rows
  BY DEF TypeOK, Persisted
<1>2. Launched \in Row /\ Launched.desired = rows[live.id].desired /\ Launched.state = "active"
  BY <1>1 DEF Row, Launched
<1> QED BY <1>1, <1>2, RowState

LEMMA RestoredRows ==
  ASSUME TypeOK, Order, restore.at \in {"read", "reaping"}, Restored
  PROVE  SameWishes
<1> DEFINE r == [rows[restore.row] EXCEPT !.state = "STOPPED"]
<1>1. rows[restore.row] \in Row /\ restore.row \in DOMAIN rows
  BY DEF TypeOK, Order
<1>2. r \in Row /\ r.desired = rows[restore.row].desired /\ r.state = "STOPPED"
  BY <1>1 DEF Row
<1>3. rows' = WithRow(restore.row, r)
  BY DEF Restored
<1> HIDE DEF r
<1> QED BY <1>1, <1>2, <1>3, RowState

\* Where a deployment ends, only its own row changes.
LEMMA EndRows ==
  ASSUME TypeOK, NEW s \in {"STOPPED", "FAILED"}, NEW d \in {"running", "stopped"},
         rows' = StoreEnd(s, d)
  PROVE  /\ DOMAIN rows' = DOMAIN rows
         /\ \A i \in DOMAIN rows : rows'[i] \in Row /\ (i # live.id => rows'[i] = rows[i])
         /\ Persisted => rows'[live.id].desired = d /\ rows'[live.id].state = s
<1>1. CASE Persisted
  <2> DEFINE r == [state |-> s, desired |-> d, pid |-> FALSE]
  <2>1. r \in Row /\ r.desired = d /\ r.state = s
    BY DEF Row
  <2>2. rows' = WithRow(live.id, r)
    BY <1>1 DEF StoreEnd
  <2>3. live.id \in DOMAIN rows /\ live.id \in Id
    BY <1>1 DEF Persisted, TypeOK
  <2> HIDE DEF r
  <2>4. /\ DOMAIN rows' = DOMAIN rows \cup {live.id}
        /\ rows'[live.id] = r
        /\ \A j \in DOMAIN rows : j # live.id => rows'[j] = rows[j]
    BY <2>1, <2>2, <2>3, RowSet
  <2>5. \A j \in DOMAIN rows : rows[j] \in Row
    BY DEF TypeOK
  <2> QED BY <2>1, <2>3, <2>4, <2>5
<1>2. CASE ~Persisted
  BY <1>2 DEF StoreEnd, TypeOK
<1> QED BY <1>1, <1>2

\* run() inserts a row that restore() would take before any other.
LEMMA InsertedRows ==
  ASSUME TypeOK, Order, IsLive, rows' = WithRow(live.id, Inserted)
  PROVE  /\ DOMAIN rows' = DOMAIN rows \cup {live.id}
         /\ \A r \in DOMAIN rows' : rows'[r] \in Row
         /\ rows'[live.id] = Inserted
         /\ live.id \in Restorable'
<1>1. Inserted \in Row /\ Inserted.desired = "running" /\ Inserted.state = "active"
  BY DEF Inserted, Row
<1>2. live.id = created /\ live.id \in Id
  BY LiveCases DEF Order
<1>3. /\ DOMAIN rows' = DOMAIN rows \cup {live.id}
      /\ \A r \in DOMAIN rows' : rows'[r] \in Row
      /\ rows'[live.id] = Inserted
  <2>1. /\ DOMAIN rows' = DOMAIN rows \cup {live.id}
        /\ rows'[live.id] = Inserted
        /\ \A j \in DOMAIN rows : j # live.id => rows'[j] = rows[j]
    BY <1>1, <1>2, RowSet
  <2>2. \A j \in DOMAIN rows : rows[j] \in Row
    BY DEF TypeOK
  <2> QED BY <1>1, <2>1, <2>2
<1>4. \A i \in DOMAIN rows' : i <= live.id
  BY <1>2, <1>3 DEF Order, Id
<1> QED BY <1>1, <1>3, <1>4 DEF Restorable, Desired, IsLatest

\* StartTeardown() changes the entry and one row.
LEMMA Teardown ==
  ASSUME TypeOK, IsLive, NEW d \in {"running", "stopped"}, NEW a \in BOOLEAN,
         StartTeardown(d, a)
  PROVE  /\ live' \in Live
         /\ live'.id = live.id /\ live'.fg = live.fg
         /\ live'.phase = "stopping" /\ live'.desired = d
         /\ SameWishes
<1>1. live \in Live
  BY LiveCases
<1>2. /\ live' \in Live
      /\ live'.id = live.id /\ live'.fg = live.fg
      /\ live'.phase = "stopping" /\ live'.desired = d
  BY <1>1 DEF StartTeardown, Live
<1> QED BY <1>2, StoreActiveRows DEF StartTeardown

\* Create() makes the next deployment the live one.
LEMMA Created ==
  ASSUME TypeOK, NEW fg \in BOOLEAN, Create(fg)
  PROVE  /\ live' \in Live /\ IsLive'
         /\ live'.id = created + 1 /\ live'.fg = fg /\ live'.phase = "new"
         /\ created' = created + 1 /\ created + 1 \in Id /\ created' \in 0..MaxDeployments
<1>1. created + 1 \in Id /\ created + 1 # 0
  BY LifeBounds DEF TypeOK, Create, CanCreate, Id
<1>2. live' \in Live /\ live'.id = created + 1 /\ live'.fg = fg /\ live'.phase = "new"
  BY <1>1 DEF Create, Fresh, Live
<1>3. live' # NotLive
  BY <1>1, <1>2 DEF NotLive
<1> QED BY <1>1, <1>2, <1>3 DEF Create, Id, IsLive, TypeOK

-----------------------------------------------------------------------------
(* Every step keeps the invariant.                                          *)

\* Rows that keep their wishes keep their types.
LEMMA SameWishesTypes ==
  ASSUME TypeOK, SameWishes
  PROVE  DOMAIN rows' \subseteq Id /\ \A r \in DOMAIN rows' : rows'[r] \in Row
BY DEF TypeOK, SameWishes

\* Steps of run(), onExit() and teardown().
LEMMA RunStep ==
  ASSUME IInv, Run
  PROVE  IInv'
<1> USE DEF IInv
<1>1. CASE InsertRow
  <2>1. /\ live \in Live /\ IsLive
        /\ live' \in Live /\ live'.id = live.id /\ live'.fg = live.fg /\ live'.phase = "inserted"
        /\ live.fg \in BOOLEAN
    BY <1>1, LiveCases DEF InsertRow, Live, NotLive, IsLive
  <2>2. /\ DOMAIN rows' = DOMAIN rows \cup {live.id}
        /\ \A r \in DOMAIN rows' : rows'[r] \in Row
        /\ rows'[live.id] = Inserted
        /\ live.id \in Restorable'
    BY <1>1, <2>1, InsertedRows DEF InsertRow
  <2>3. TypeOK'
    BY <1>1, LiveCases, <2>1, <2>2 DEF InsertRow, Outside, TypeOK
  <2>4. Order'
    BY <1>1, <2>1, <2>2 DEF InsertRow, Outside, Order, IsLive, Persisted, TypeOK
  <2>5. Leases'
    BY <1>1, <2>1 DEF InsertRow, Outside, Leases, IsLive
  <2>6. Recorded'
    BY <1>1, <2>1, <2>2
       DEF InsertRow, Outside, Recorded, Writing, Order, IsLive, Stopping, Inserted
  <2>7. Kept'
    BY <1>1, <2>1, <2>2 DEF InsertRow, Outside, Kept, IsLive, Stopping, NotLive
  <2> QED BY <2>3, <2>4, <2>5, <2>6, <2>7
<1>8. CASE SaveRequest
  <2>1. /\ live \in Live /\ IsLive
        /\ live' \in Live /\ live'.id = live.id /\ live'.fg = live.fg /\ live'.phase = "prepared"
        /\ live.fg \in BOOLEAN
    BY <1>8, LiveCases DEF SaveRequest, Live, NotLive, IsLive
  <2>2. Persisted
    BY <1>8, <2>1 DEF SaveRequest, Order
  <2>3. /\ SameWishes
        /\ Restorable \subseteq Restorable'
        /\ DOMAIN rows' \subseteq Id /\ \A r \in DOMAIN rows' : rows'[r] \in Row
    BY <1>8, UnchangedRows, SameWishesRestorable, SameWishesTypes DEF SaveRequest
  <2>4. ~live.fg => live.id \in Restorable
    <3>1. /\ live.id \in DOMAIN rows
          /\ \A i \in DOMAIN rows : i <= live.id
      BY <2>1, <2>2 DEF Persisted, Order
    <3>2. ~live.fg => rows[live.id].desired = "running" /\ rows[live.id].state # "FAILED"
      BY <1>8, <2>1, <2>2 DEF SaveRequest, Recorded, Writing, Stopping
    <3> QED BY <3>1, <3>2 DEF Restorable, Desired, IsLatest
  <2>5. TypeOK'
    BY <1>8, LiveCases, <2>1, <2>3 DEF SaveRequest, Outside, TypeOK
  <2>6. Order'
    BY <1>8, <2>1, <2>2 DEF SaveRequest, Outside, Order, IsLive, Persisted, TypeOK
  <2>7. Leases'
    BY <1>8, <2>1 DEF SaveRequest, Outside, Leases, IsLive
  <2>8. Recorded'
    BY <1>8, <2>1, <2>2
       DEF SaveRequest, Outside, Recorded, Writing, IsLive, Stopping, Persisted
  <2>9. Kept'
    BY <1>8, <2>1, <2>3, <2>4 DEF SaveRequest, Outside, Kept, IsLive, Stopping, NotLive
  <2> QED BY <2>5, <2>6, <2>7, <2>8, <2>9
<1>2. CASE Spawn
  <2>1. /\ live \in Live /\ IsLive
        /\ live' \in Live /\ live'.id = live.id /\ live'.fg = live.fg /\ live'.phase = "started"
    BY <1>2, LiveCases DEF Spawn, Live, NotLive, IsLive
  <2>2. Persisted
    BY <1>2, <2>1 DEF Spawn, Order
  <2>3. /\ SameWishes
        /\ Restorable \subseteq Restorable'
        /\ DOMAIN rows' \subseteq Id /\ \A r \in DOMAIN rows' : rows'[r] \in Row
    BY <1>2, <2>2, LaunchedRows, SameWishesRestorable, SameWishesTypes, LiveCases DEF Spawn
  <2>4. TypeOK'
    BY <1>2, LiveCases, <2>1, <2>3 DEF Spawn, Outside, TypeOK
  <2>5. Order'
    BY <1>2, <2>1, <2>3 DEF Spawn, Outside, Order, IsLive, Persisted, SameWishes
  <2>6. Leases'
    BY <1>2, <2>1 DEF Spawn, Outside, Leases, IsLive
  <2>7. Recorded'
    BY <1>2, <2>1, <2>3
       DEF Spawn, Outside, Recorded, Writing, Order, IsLive, Stopping, Persisted, SameWishes
  <2>8. Kept'
    BY <1>2, <2>3 DEF Spawn, Outside, Kept, Order, Leases, IsLive, Stopping, NotLive
  <2> QED BY <2>4, <2>5, <2>6, <2>7, <2>8
<1>3. CASE GoLive
  <2>1. /\ live \in Live /\ IsLive
        /\ live' \in Live /\ live'.id = live.id /\ live'.fg = live.fg /\ live'.phase = "LIVE"
    BY <1>3, LiveCases DEF GoLive, Live, NotLive, IsLive
  <2>2. /\ SameWishes
        /\ Restorable \subseteq Restorable'
        /\ DOMAIN rows' \subseteq Id /\ \A r \in DOMAIN rows' : rows'[r] \in Row
    BY <1>3, StoreActiveRows, SameWishesRestorable, SameWishesTypes, LiveCases DEF GoLive
  <2>3. TypeOK'
    BY <1>3, <2>1, <2>2 DEF GoLive, Outside, TypeOK
  <2>4. Order'
    BY <1>3, <2>1, <2>2 DEF GoLive, Outside, Order, IsLive, Persisted, SameWishes
  <2>5. Leases'
    BY <1>3, <2>1 DEF GoLive, Outside, Leases, IsLive
  <2>6. Recorded'
    BY <1>3, <2>1, <2>2
       DEF GoLive, Outside, Recorded, Writing, Order, IsLive, Stopping, Persisted, SameWishes
  <2>7. Kept'
    BY <1>3, <2>2 DEF GoLive, Outside, Kept, Order, Leases, IsLive, Stopping, NotLive
  <2> QED BY <2>3, <2>4, <2>5, <2>6, <2>7
<1>4. CASE Relaunch
  <2>1. IsLive /\ live.phase = "LIVE"
    BY <1>4, LiveCases DEF Relaunch, NotLive, IsLive
  <2>2. Persisted
    BY <1>4, <2>1 DEF Relaunch, Order
  <2>3. /\ SameWishes
        /\ Restorable \subseteq Restorable'
        /\ DOMAIN rows' \subseteq Id /\ \A r \in DOMAIN rows' : rows'[r] \in Row
    BY <1>4, <2>2, LaunchedRows, SameWishesRestorable, SameWishesTypes, LiveCases DEF Relaunch
  <2>4. TypeOK'
    BY <1>4, LiveCases, <2>3 DEF Relaunch, Outside, TypeOK
  <2>5. Order'
    BY <1>4, <2>3 DEF Relaunch, Outside, Order, IsLive, Persisted, SameWishes
  <2>6. Leases'
    BY <1>4 DEF Relaunch, Outside, Leases, IsLive
  <2>7. Recorded'
    BY <1>4, <2>3
       DEF Relaunch, Outside, Recorded, Writing, Order, IsLive, Stopping, Persisted, SameWishes
  <2>8. Kept'
    BY <1>4, <2>3 DEF Relaunch, Outside, Kept, Order, Leases, IsLive, Stopping
  <2> QED BY <2>4, <2>5, <2>6, <2>7, <2>8
<1>5. CASE AppFinished
  <2>1. IsLive
    BY <1>5, LiveCases DEF AppFinished, NotLive, IsLive
  <2>2. /\ live' \in Live /\ live'.id = live.id /\ live'.fg = live.fg
        /\ live'.phase = "stopping" /\ live'.desired = "stopped"
        /\ SameWishes
    BY <1>5, <2>1, Teardown DEF AppFinished
  <2>3. /\ Restorable \subseteq Restorable'
        /\ DOMAIN rows' \subseteq Id /\ \A r \in DOMAIN rows' : rows'[r] \in Row
    BY <2>2, SameWishesRestorable, SameWishesTypes
  <2>4. TypeOK'
    BY <1>5, <2>2, <2>3 DEF AppFinished, Outside, TypeOK
  <2>5. Order'
    BY <1>5, <2>1, <2>2 DEF AppFinished, Outside, Order, IsLive, SameWishes
  <2>6. Leases'
    BY <1>5, <2>1, <2>2 DEF AppFinished, Outside, Leases, IsLive
  <2>7. Recorded'
    BY <1>5, <2>1, <2>2 DEF AppFinished, Outside, Recorded, Writing, Order, IsLive, Stopping
  <2>8. Kept'
    BY <1>5 DEF AppFinished, Outside, Kept, Order, Leases, IsLive, Stopping
  <2> QED BY <2>4, <2>5, <2>6, <2>7, <2>8
<1>6. CASE Fail
  <2>1. /\ DOMAIN rows' = DOMAIN rows
        /\ \A i \in DOMAIN rows : rows'[i] \in Row /\ (i # live.id => rows'[i] = rows[i])
    BY <1>6, EndRows DEF Fail
  <2>2. TypeOK'
    BY <1>6, <2>1 DEF Fail, Outside, TypeOK
  <2>3. Order'
    BY <1>6, <2>1 DEF Fail, Outside, Order, IsLive
  <2>4. Leases'
    BY <1>6 DEF Fail, Outside, Leases, IsLive
  <2>5. Recorded'
    BY <1>6 DEF Fail, Outside, Recorded, Writing, Order, IsLive, Stopping
  <2>6. Kept'
    BY <1>6 DEF Fail, Outside, Kept, Order, Leases, IsLive, Stopping
  <2> QED BY <2>2, <2>3, <2>4, <2>5, <2>6
<1>7. CASE EndTeardown
  <2>1. IsLive /\ live \in Live
    BY <1>7, LiveCases DEF EndTeardown, Stopping, NotLive, IsLive
  <2>2. live.desired \in {"running", "stopped"}
    BY <2>1 DEF Live
  <2>3. /\ DOMAIN rows' = DOMAIN rows
        /\ \A i \in DOMAIN rows : rows'[i] \in Row /\ (i # live.id => rows'[i] = rows[i])
        /\ Persisted => rows'[live.id].desired = live.desired /\ rows'[live.id].state = "STOPPED"
    BY <1>7, <2>2, EndRows DEF EndTeardown
  <2>4. \/ /\ live' \in Live /\ IsLive' /\ live'.id = created + 1 /\ live'.fg = FALSE
           /\ live'.phase = "new" /\ created' = created + 1
           /\ created + 1 \in Id /\ created' \in 0..MaxDeployments
        \/ live' = NotLive /\ UNCHANGED created
    BY <1>7, Created DEF EndTeardown
  <2>5. wanted = "running" /\ Persisted => live.id \in Restorable'
    BY <1>7, <2>1, <2>3 DEF EndTeardown, Kept, Order, Persisted, Restorable, Desired, IsLatest
  <2>6. wanted = "running" /\ ~Persisted => Restorable' = Restorable
    BY <1>7, <2>1, <2>3 DEF EndTeardown, StoreEnd, Restorable, Desired, IsLatest
  <2>7. TypeOK'
    BY <1>7, <2>3, <2>4 DEF EndTeardown, Outside, TypeOK
  <2>8. Order'
    BY <1>7, <2>1, <2>3, <2>4 DEF EndTeardown, Outside, Order, IsLive, Persisted, Id, TypeOK
  <2>9. Leases'
    BY <1>7, <2>4 DEF EndTeardown, Outside, Leases, IsLive, Order, TypeOK
  <2>10. Recorded'
    BY <1>7, LiveCases, <2>3, <2>4
       DEF EndTeardown, Outside, Recorded, Writing, Order, IsLive, Stopping, Persisted, Id
  <2>11. Kept'
    BY <1>7, <2>4, <2>5, <2>6
       DEF EndTeardown, Outside, Kept, Order, Leases, IsLive, Stopping, NotLive
  <2> QED BY <2>7, <2>8, <2>9, <2>10, <2>11
<1> QED BY <1>1, <1>2, <1>3, <1>4, <1>5, <1>6, <1>7, <1>8 DEF Run

LEMMA StoppedRows ==
  ASSUME TypeOK, NEW i \in DOMAIN rows,
         rows' = WithRow(i, [rows[i] EXCEPT !.desired = "stopped"])
  PROVE  /\ DOMAIN rows' = DOMAIN rows
         /\ \A j \in DOMAIN rows : rows'[j] \in Row
<1> DEFINE r == [rows[i] EXCEPT !.desired = "stopped"]
<1>1. i \in Id /\ \A j \in DOMAIN rows : rows[j] \in Row
  BY DEF TypeOK
<1>2. r \in Row
  BY <1>1 DEF Row
<1>3. rows' = WithRow(i, r)
  OBVIOUS
<1> HIDE DEF r
<1>4. /\ DOMAIN rows' = DOMAIN rows \cup {i}
      /\ rows'[i] = r
      /\ \A j \in DOMAIN rows : j # i => rows'[j] = rows[j]
  BY <1>1, <1>2, <1>3, RowSet
<1> QED BY <1>1, <1>2, <1>4

\* Requests.
LEMMA UserStep ==
  ASSUME IInv, User
  PROVE  IInv'
<1> USE DEF IInv
<1>1. ASSUME NEW fg \in BOOLEAN, Deploy(fg) PROVE IInv'
  <2>1. /\ live' \in Live /\ IsLive' /\ live'.id = created + 1 /\ live'.fg = fg
        /\ live'.phase = "new" /\ created' = created + 1
        /\ created + 1 \in Id /\ created' \in 0..MaxDeployments
    BY <1>1, Created DEF Deploy
  <2>2. TypeOK'
    BY <1>1, <2>1 DEF Deploy, TypeOK
  <2>3. Order'
    BY <1>1, <2>1 DEF Deploy, Order, IsLive, Persisted, Id, TypeOK, Asking, Serving
  <2>4. Leases'
    BY <1>1, <2>1 DEF Deploy, Leases, IsLive, TypeOK, Order
  <2>5. Recorded'
    BY <1>1, <2>1 DEF Deploy, Recorded, Writing, Order, IsLive, Stopping, Persisted, TypeOK
  <2>6. Kept'
    BY <1>1 DEF Deploy, Kept, Order, Leases, IsLive, Stopping
  <2> QED BY <2>2, <2>3, <2>4, <2>5, <2>6
<1>2. CASE StopLive
  <2>1. IsLive
    BY <1>2 DEF StopLive
  <2>2. /\ live' \in Live /\ live'.id = live.id /\ live'.fg = live.fg
        /\ live'.phase = "stopping" /\ live'.desired = "stopped"
        /\ SameWishes
    BY <1>2, <2>1, Teardown DEF StopLive
  <2>3. /\ Restorable \subseteq Restorable'
        /\ DOMAIN rows' \subseteq Id /\ \A r \in DOMAIN rows' : rows'[r] \in Row
    BY <2>2, SameWishesRestorable, SameWishesTypes
  <2>4. TypeOK'
    BY <1>2, <2>2, <2>3 DEF StopLive, Outside, TypeOK
  <2>5. Order'
    BY <1>2, <2>2 DEF StopLive, Outside, Order, IsLive, SameWishes
  <2>6. Leases'
    BY <1>2, <2>2 DEF StopLive, Outside, Leases, IsLive
  <2>7. Recorded'
    BY <1>2, <2>2
       DEF StopLive, Asking, Outside, Recorded, Writing, Order, IsLive, Stopping, Persisted, SameWishes
  <2>8. Kept'
    BY <1>2 DEF StopLive, Outside, Kept, Order, Leases, IsLive, Stopping
  <2> QED BY <2>4, <2>5, <2>6, <2>7, <2>8
<1>3. CASE StopRow
  <2>1. /\ DOMAIN rows' = DOMAIN rows
        /\ \A i \in DOMAIN rows : rows'[i] \in Row
    BY <1>3, StoppedRows DEF StopRow
  <2>2. TypeOK'
    BY <1>3, <2>1 DEF StopRow, Outside, TypeOK
  <2>3. Order'
    BY <1>3, <2>1 DEF StopRow, Outside, Order, IsLive
  <2>4. Leases'
    BY <1>3 DEF StopRow, Outside, Leases, IsLive
  <2>5. Recorded'
    BY <1>3 DEF StopRow, Outside, Recorded, Writing, Order, IsLive, Stopping
  <2>6. Kept'
    BY <1>3 DEF StopRow, Outside, Kept, Order, Leases, IsLive, Stopping
  <2> QED BY <2>2, <2>3, <2>4, <2>5, <2>6
<1>4. CASE RedeployLive
  <2>1. IsLive
    BY <1>4 DEF RedeployLive
  <2>2. /\ live' \in Live /\ live'.id = live.id /\ live'.fg = live.fg
        /\ live'.phase = "stopping" /\ live'.desired = "running"
        /\ SameWishes
    BY <1>4, <2>1, Teardown DEF RedeployLive
  <2>3. /\ Restorable \subseteq Restorable'
        /\ DOMAIN rows' \subseteq Id /\ \A r \in DOMAIN rows' : rows'[r] \in Row
    BY <2>2, SameWishesRestorable, SameWishesTypes
  <2>4. TypeOK'
    BY <1>4, <2>2, <2>3 DEF RedeployLive, Outside, TypeOK
  <2>5. Order'
    BY <1>4, <2>2 DEF RedeployLive, Outside, Order, IsLive, SameWishes
  <2>6. Leases'
    BY <1>4, <2>2 DEF RedeployLive, Outside, Leases, IsLive
  <2>7. Recorded'
    BY <1>4, <2>2
       DEF RedeployLive, Asking, Outside, Recorded, Writing, Order, IsLive, Stopping, Persisted, SameWishes
  <2>8. Kept'
    BY <1>4 DEF RedeployLive, Outside, Kept, Order, Leases, IsLive, Stopping
  <2> QED BY <2>4, <2>5, <2>6, <2>7, <2>8
<1> QED BY <1>1, <1>2, <1>3, <1>4 DEF User

\* Leases and their timers.
LEMMA ForegroundStep ==
  ASSUME IInv, Foreground
  PROVE  IInv'
<1> USE DEF IInv
<1>1. ASSUME NEW i \in Id, Attach(i) PROVE IInv'
  <2>1. /\ SameWishes
        /\ Restorable \subseteq Restorable'
        /\ DOMAIN rows' \subseteq Id /\ \A r \in DOMAIN rows' : rows'[r] \in Row
    BY <1>1, UnchangedRows, SameWishesRestorable, SameWishesTypes, LiveCases DEF Attach
  <2>2. TypeOK'
    BY <1>1 DEF Attach, TypeOK
  <2>3. Order'
    BY <1>1 DEF Attach, Order, IsLive, Persisted
  <2>4. Leases'
    BY <1>1 DEF Attach, Leases, IsLive, TypeOK
  <2>5. Recorded'
    BY <1>1 DEF Attach, Recorded, Writing, Order, IsLive, Stopping, Persisted
  <2>6. Kept'
    BY <1>1, <2>1 DEF Attach, Kept, Order, Leases, IsLive, Stopping
  <2> QED BY <2>2, <2>3, <2>4, <2>5, <2>6
<1>2. ASSUME NEW i \in Id, Leave(i) PROVE IInv'
  <2>1. /\ SameWishes
        /\ Restorable \subseteq Restorable'
        /\ DOMAIN rows' \subseteq Id /\ \A r \in DOMAIN rows' : rows'[r] \in Row
    BY <1>2, UnchangedRows, SameWishesRestorable, SameWishesTypes, LiveCases DEF Leave
  <2>2. TypeOK'
    BY <1>2 DEF Leave, TypeOK
  <2>3. Order'
    BY <1>2 DEF Leave, Order, IsLive, Persisted
  <2>4. Leases'
    BY <1>2 DEF Leave, Leases, IsLive, TypeOK
  <2>5. Recorded'
    BY <1>2 DEF Leave, Recorded, Writing, Order, IsLive, Stopping, Persisted
  <2>6. Kept'
    BY <1>2, <2>1 DEF Leave, Kept, Order, Leases, IsLive, Stopping
  <2> QED BY <2>2, <2>3, <2>4, <2>5, <2>6
<1>3. ASSUME NEW i \in Id, AttachTimer(i) PROVE IInv'
  <2>1. i # 0
    BY LifeBounds DEF Id
  <2>2. \/ UNCHANGED <<live, rows>>
        \/ IsLive /\ live.id = i /\ StartTeardown("stopped", FALSE)
    BY <1>3, <2>1, LiveCases DEF AttachTimer, StopDeployment
  <2>3. /\ live' \in Live \cup {NotLive}
        /\ live' = live \/ /\ IsLive /\ live.id = i /\ live' \in Live /\ live'.id = live.id
                           /\ live'.fg = live.fg /\ live'.phase = "stopping"
        /\ SameWishes
    BY <1>3, <2>2, Teardown, UnchangedRows DEF TypeOK
  <2>4. /\ Restorable \subseteq Restorable'
        /\ DOMAIN rows' \subseteq Id /\ \A r \in DOMAIN rows' : rows'[r] \in Row
    BY <2>3, SameWishesRestorable, SameWishesTypes
  <2>5. TypeOK'
    BY <1>3, <2>3, <2>4 DEF AttachTimer, TypeOK
  <2>6. Order'
    BY <1>3, <2>3 DEF AttachTimer, Order, IsLive, Persisted, SameWishes
  <2>7. Leases'
    BY <1>3, <2>3 DEF AttachTimer, Leases, IsLive
  <2>8. Recorded'
    BY <1>3, <2>3 DEF AttachTimer, Recorded, Writing, Order, IsLive, Stopping, Persisted, SameWishes
  <2>9. Kept'
    BY <1>3, <2>3, <2>4 DEF AttachTimer, Kept, Order, Leases, IsLive, Stopping, TypeOK
  <2> QED BY <2>5, <2>6, <2>7, <2>8, <2>9
<1>4. ASSUME NEW i \in Id, GraceTimer(i) PROVE IInv'
  <2>1. i # 0
    BY LifeBounds DEF Id
  <2>2. \/ UNCHANGED <<live, rows>>
        \/ IsLive /\ live.id = i /\ StartTeardown("stopped", FALSE)
    BY <1>4, <2>1, LiveCases DEF GraceTimer, StopDeployment
  <2>3. /\ live' \in Live \cup {NotLive}
        /\ live' = live \/ /\ IsLive /\ live.id = i /\ live' \in Live /\ live'.id = live.id
                           /\ live'.fg = live.fg /\ live'.phase = "stopping"
        /\ SameWishes
    BY <1>4, <2>2, Teardown, UnchangedRows DEF TypeOK
  <2>4. /\ Restorable \subseteq Restorable'
        /\ DOMAIN rows' \subseteq Id /\ \A r \in DOMAIN rows' : rows'[r] \in Row
    BY <2>3, SameWishesRestorable, SameWishesTypes
  <2>5. TypeOK'
    BY <1>4, <2>3, <2>4 DEF GraceTimer, TypeOK
  <2>6. Order'
    BY <1>4, <2>3 DEF GraceTimer, Order, IsLive, Persisted, SameWishes
  <2>7. Leases'
    BY <1>4, <2>3 DEF GraceTimer, Leases, IsLive
  <2>8. Recorded'
    BY <1>4, <2>3 DEF GraceTimer, Recorded, Writing, Order, IsLive, Stopping, Persisted, SameWishes
  <2>9. Kept'
    BY <1>4, <2>3, <2>4 DEF GraceTimer, Kept, Order, Leases, IsLive, Stopping, TypeOK
  <2> QED BY <2>5, <2>6, <2>7, <2>8, <2>9
<1> QED BY <1>1, <1>2, <1>3, <1>4 DEF Foreground

\* The daemon and the application processes.
LEMMA ProcessStep ==
  ASSUME IInv, Process
  PROVE  IInv'
<1> USE DEF IInv
<1>1. CASE StartDaemon
  <2>1. /\ SameWishes
        /\ Restorable \subseteq Restorable'
        /\ DOMAIN rows' \subseteq Id /\ \A r \in DOMAIN rows' : rows'[r] \in Row
    BY <1>1, UnchangedRows, SameWishesRestorable, SameWishesTypes, LiveCases DEF StartDaemon
  <2>2. starts' \in 0..MaxStarts
    BY <1>1, LifeBounds DEF StartDaemon, TypeOK
  <2>3. TypeOK'
    BY <1>1, <2>2 DEF StartDaemon, NoRestore, TypeOK
  <2>4. Order'
    BY <1>1 DEF StartDaemon, Order, IsLive
  <2>5. Leases'
    BY <1>1 DEF StartDaemon, Leases, IsLive
  <2>6. Recorded'
    BY <1>1 DEF StartDaemon, Recorded, Writing, Order, IsLive, Stopping
  <2>7. Kept'
    BY <1>1, <2>1 DEF StartDaemon, Kept, Order, Leases, IsLive, Stopping
  <2> QED BY <2>3, <2>4, <2>5, <2>6, <2>7
<1>2. CASE Shutdown
  <2>1. \/ UNCHANGED <<live, rows>> /\ (~IsLive \/ Stopping)
        \/ IsLive /\ StartTeardown("running", FALSE)
    BY <1>2 DEF Shutdown
  <2>2. /\ live' \in Live \cup {NotLive}
        /\ \/ live' = live /\ (~IsLive \/ Stopping)
           \/ /\ IsLive /\ live' \in Live /\ live'.id = live.id /\ live'.fg = live.fg
              /\ live'.phase = "stopping" /\ live'.desired = "running"
        /\ SameWishes
    BY <1>2, <2>1, Teardown, UnchangedRows DEF TypeOK
  <2>3. /\ Restorable \subseteq Restorable'
        /\ DOMAIN rows' \subseteq Id /\ \A r \in DOMAIN rows' : rows'[r] \in Row
    BY <2>2, SameWishesRestorable, SameWishesTypes
  <2>4. TypeOK'
    BY <1>2, <2>2, <2>3 DEF Shutdown, TypeOK
  <2>5. Order'
    BY <1>2, <2>2 DEF Shutdown, Order, IsLive, Persisted, SameWishes
  <2>6. Leases'
    BY <1>2, <2>2 DEF Shutdown, Leases, IsLive
  <2>7. Recorded'
    BY <1>2, <2>2 DEF Shutdown, Recorded, Writing, Order, IsLive, Stopping, Persisted, SameWishes
  <2>8. Kept'
    BY <1>2, <2>2, <2>3 DEF Shutdown, Kept, Order, Leases, IsLive, Stopping
  <2> QED BY <2>4, <2>5, <2>6, <2>7, <2>8
<1>3. CASE Exit
  <2>1. /\ SameWishes
        /\ Restorable \subseteq Restorable'
        /\ DOMAIN rows' \subseteq Id /\ \A r \in DOMAIN rows' : rows'[r] \in Row
    BY <1>3, UnchangedRows, SameWishesRestorable, SameWishesTypes, LiveCases DEF Exit, Gone
  <2>2. TypeOK'
    BY <1>3 DEF Exit, Gone, NoRestore, TypeOK
  <2>3. Order'
    BY <1>3 DEF Exit, Gone, NoRestore, Order, IsLive
  <2>4. Leases'
    BY <1>3 DEF Exit, Gone, Leases, IsLive
  <2>5. Recorded'
    BY <1>3 DEF Exit, Gone, Recorded, Writing, Order, IsLive, Stopping
  <2>6. Kept'
    BY <1>3, <2>1 DEF Exit, Gone, Kept, Order, Leases, IsLive, Stopping, NotLive
  <2> QED BY <2>2, <2>3, <2>4, <2>5, <2>6
<1>4. CASE Killed
  <2>1. /\ SameWishes
        /\ Restorable \subseteq Restorable'
        /\ DOMAIN rows' \subseteq Id /\ \A r \in DOMAIN rows' : rows'[r] \in Row
    BY <1>4, UnchangedRows, SameWishesRestorable, SameWishesTypes, LiveCases DEF Killed, Gone
  <2>2. TypeOK'
    BY <1>4 DEF Killed, Gone, NoRestore, TypeOK
  <2>3. Order'
    BY <1>4 DEF Killed, Gone, NoRestore, Order, IsLive
  <2>4. Leases'
    BY <1>4 DEF Killed, Gone, Leases, IsLive
  <2>5. Recorded'
    BY <1>4 DEF Killed, Gone, Recorded, Writing, Order, IsLive, Stopping
  <2>6. Kept'
    BY <1>4, <2>1 DEF Killed, Gone, Kept, Order, Leases, IsLive, Stopping, NotLive
  <2> QED BY <2>2, <2>3, <2>4, <2>5, <2>6
<1>5. ASSUME NEW i \in Id, ProcessExits(i) PROVE IInv'
  <2>1. /\ SameWishes
        /\ Restorable \subseteq Restorable'
        /\ DOMAIN rows' \subseteq Id /\ \A r \in DOMAIN rows' : rows'[r] \in Row
    BY <1>5, UnchangedRows, SameWishesRestorable, SameWishesTypes, LiveCases DEF ProcessExits
  <2>2. TypeOK'
    BY <1>5 DEF ProcessExits, Outside, TypeOK
  <2>3. Order'
    BY <1>5 DEF ProcessExits, Outside, Order, IsLive, Persisted
  <2>4. Leases'
    BY <1>5 DEF ProcessExits, Outside, Leases, IsLive
  <2>5. Recorded'
    BY <1>5 DEF ProcessExits, Outside, Recorded, Writing, Order, IsLive, Stopping, Persisted
  <2>6. Kept'
    BY <1>5, <2>1 DEF ProcessExits, Outside, Kept, Order, Leases, IsLive, Stopping
  <2> QED BY <2>2, <2>3, <2>4, <2>5, <2>6
<1> QED BY <1>1, <1>2, <1>3, <1>4, <1>5 DEF Process

LEMMA RetiredRows ==
  ASSUME TypeOK, NEW k \in DOMAIN rows,
         rows' = WithRow(k, [rows[k] EXCEPT !.state = "STOPPED", !.desired = "stopped"])
  PROVE  /\ DOMAIN rows' = DOMAIN rows
         /\ \A j \in DOMAIN rows : rows'[j] \in Row /\ (j # k => rows'[j] = rows[j])
<1> DEFINE r == [rows[k] EXCEPT !.state = "STOPPED", !.desired = "stopped"]
<1>1. k \in Id /\ \A j \in DOMAIN rows : rows[j] \in Row
  BY DEF TypeOK
<1>2. r \in Row
  BY <1>1 DEF Row
<1>3. rows' = WithRow(k, r)
  OBVIOUS
<1> HIDE DEF r
<1>4. /\ DOMAIN rows' = DOMAIN rows \cup {k}
      /\ rows'[k] = r
      /\ \A j \in DOMAIN rows : j # k => rows'[j] = rows[j]
  BY <1>1, <1>2, <1>3, RowSet
<1> QED BY <1>1, <1>2, <1>4

\* restore().
LEMMA RestoreStep ==
  ASSUME IInv, Restore
  PROVE  IInv'
<1> USE DEF IInv
<1>1. CASE ReadRows
  <2>1. /\ SameWishes
        /\ Restorable \subseteq Restorable'
        /\ DOMAIN rows' \subseteq Id /\ \A r \in DOMAIN rows' : rows'[r] \in Row
    BY <1>1, UnchangedRows, SameWishesRestorable, SameWishesTypes, LiveCases DEF ReadRows
  <2>2. \A i \in Restorable : i \in DOMAIN rows /\ rows[i].pid \in BOOLEAN
    BY <1>1 DEF Restorable, Desired, TypeOK, Row
  <2>3. \/ Restorable = {} /\ restore' = NoRestore
        \/ /\ restore'.at = "read" /\ restore'.row \in DOMAIN rows
           /\ restore' \in [at : {"done", "due", "read", "reaping"}, row : Id \cup {0}, orphan : BOOLEAN]
    <3>1. CASE Restorable = {}
      BY <1>1, <3>1 DEF ReadRows
    <3>2. CASE Restorable # {}
      <4>1. PICK i \in Restorable :
              restore' = [at |-> "read", row |-> i,
                          orphan |-> rows[i].pid /\ rows[i].state # "STOPPED"]
        BY <1>1, <3>2 DEF ReadRows
      <4>2. i \in DOMAIN rows /\ i \in Id
        BY <2>2 DEF TypeOK
      <4> QED BY <4>1, <4>2
    <3> QED BY <3>1, <3>2
  <2>4. /\ NoRestore \in [at : {"done", "due", "read", "reaping"}, row : Id \cup {0}, orphan : BOOLEAN]
        /\ NoRestore.at = "done"
    BY DEF NoRestore
  <2>5. TypeOK'
    BY <1>1, <2>3, <2>4 DEF ReadRows, TypeOK
  <2>6. Order'
    BY <1>1, <2>3, <2>4 DEF ReadRows, Order, IsLive, Persisted
  <2>7. Leases'
    BY <1>1 DEF ReadRows, Leases, IsLive
  <2>8. Recorded'
    BY <1>1 DEF ReadRows, Recorded, Writing, Order, IsLive, Stopping, Persisted
  <2>9. Kept'
    BY <1>1, <2>1 DEF ReadRows, Kept, Order, Leases, IsLive, Stopping
  <2> QED BY <2>5, <2>6, <2>7, <2>8, <2>9
<1>2. CASE Retire
  <2>1. /\ DOMAIN rows' = DOMAIN rows
        /\ \A i \in DOMAIN rows : rows'[i] \in Row /\ (i # restore.row => rows'[i] = rows[i])
    BY <1>2, RetiredRows DEF Retire, Order
  <2>2. TypeOK'
    BY <1>2, <2>1 DEF Retire, NoRestore, TypeOK
  <2>3. Order'
    BY <1>2, <2>1 DEF Retire, NoRestore, Order, IsLive, Persisted
  <2>4. Leases'
    BY <1>2 DEF Retire, Leases, IsLive
  <2>5. Recorded'
    BY <1>2, <2>1 DEF Retire, Recorded, Writing, Order, IsLive, Stopping, Persisted
  <2>6. Kept'
    BY <1>2 DEF Retire, Kept, Order, Leases, IsLive, Stopping
  <2> QED BY <2>2, <2>3, <2>4, <2>5, <2>6
<1>3. CASE RestoreNow
  <2>1. /\ SameWishes
        /\ Restorable \subseteq Restorable'
        /\ DOMAIN rows' \subseteq Id /\ \A r \in DOMAIN rows' : rows'[r] \in Row
    BY <1>3, RestoredRows, SameWishesRestorable, SameWishesTypes, LiveCases DEF RestoreNow
  <2>2. \/ /\ live' \in Live /\ IsLive' /\ live'.id = created + 1 /\ live'.fg = FALSE
           /\ live'.phase = "new" /\ created' = created + 1 /\ ~IsLive
           /\ created + 1 \in Id /\ created' \in 0..MaxDeployments
        \/ IsLive /\ live' = live /\ created' = created
    BY <1>3, Created DEF RestoreNow, Restored
  <2>3. TypeOK'
    BY <1>3, <2>1, <2>2 DEF RestoreNow, Restored, NoRestore, TypeOK
  <2>4. Order'
    <3>1. DOMAIN rows' = DOMAIN rows /\ \A i \in DOMAIN rows : i \in Nat
      BY <2>1 DEF SameWishes, TypeOK, Id
    <3>2. restore'.at = "done" /\ UNCHANGED <<cli, daemon>> /\ daemon # "down"
      BY <1>3 DEF RestoreNow, Restored, NoRestore, Order
    <3>3. CASE IsLive /\ live' = live /\ created' = created
      BY <3>1, <3>2, <3>3 DEF Order, IsLive, Persisted
    <3>4. CASE ~IsLive /\ live'.id = created + 1 /\ live'.phase = "new" /\ created' = created + 1
      BY <3>1, <3>2, <3>4 DEF Order, IsLive, Persisted, Id, TypeOK
    <3> QED BY <2>2, <3>3, <3>4
  <2>5. Leases'
    BY <1>3, <2>2 DEF RestoreNow, Restored, Leases, IsLive, TypeOK, Order
  <2>6. Recorded'
    BY <1>3, <2>1, <2>2
       DEF RestoreNow, Restored, Recorded, Writing, Order, IsLive, Stopping, Persisted, SameWishes, TypeOK
  <2>7. Kept'
    BY <1>3, <2>1, <2>2 DEF RestoreNow, Restored, Kept, Order, Leases, IsLive, Stopping
  <2> QED BY <2>3, <2>4, <2>5, <2>6, <2>7
<1>4. CASE Reap
  <2>1. /\ SameWishes
        /\ Restorable \subseteq Restorable'
        /\ DOMAIN rows' \subseteq Id /\ \A r \in DOMAIN rows' : rows'[r] \in Row
    BY <1>4, UnchangedRows, SameWishesRestorable, SameWishesTypes, LiveCases DEF Reap
  <2>2. TypeOK'
    BY <1>4 DEF Reap, TypeOK
  <2>3. Order'
    BY <1>4 DEF Reap, Order, IsLive, Persisted
  <2>4. Leases'
    BY <1>4 DEF Reap, Leases, IsLive
  <2>5. Recorded'
    BY <1>4 DEF Reap, Recorded, Writing, Order, IsLive, Stopping, Persisted
  <2>6. Kept'
    BY <1>4, <2>1 DEF Reap, Kept, Order, Leases, IsLive, Stopping
  <2> QED BY <2>2, <2>3, <2>4, <2>5, <2>6
<1>5. CASE RestoreAfterReaping
  <2>1. /\ SameWishes
        /\ Restorable \subseteq Restorable'
        /\ DOMAIN rows' \subseteq Id /\ \A r \in DOMAIN rows' : rows'[r] \in Row
    BY <1>5, RestoredRows, SameWishesRestorable, SameWishesTypes, LiveCases
       DEF RestoreAfterReaping
  <2>2. \/ /\ live' \in Live /\ IsLive' /\ live'.id = created + 1 /\ live'.fg = FALSE
           /\ live'.phase = "new" /\ created' = created + 1 /\ ~IsLive
           /\ created + 1 \in Id /\ created' \in 0..MaxDeployments
        \/ IsLive /\ live' = live /\ created' = created
    BY <1>5, Created DEF RestoreAfterReaping, Restored
  <2>3. TypeOK'
    BY <1>5, <2>1, <2>2 DEF RestoreAfterReaping, Restored, NoRestore, TypeOK
  <2>4. Order'
    <3>1. DOMAIN rows' = DOMAIN rows /\ \A i \in DOMAIN rows : i \in Nat
      BY <2>1 DEF SameWishes, TypeOK, Id
    <3>2. restore'.at = "done" /\ UNCHANGED <<cli, daemon>> /\ daemon # "down"
      BY <1>5 DEF RestoreAfterReaping, Restored, NoRestore, Order
    <3>3. CASE IsLive /\ live' = live /\ created' = created
      BY <3>1, <3>2, <3>3 DEF Order, IsLive, Persisted
    <3>4. CASE ~IsLive /\ live'.id = created + 1 /\ live'.phase = "new" /\ created' = created + 1
      BY <3>1, <3>2, <3>4 DEF Order, IsLive, Persisted, Id, TypeOK
    <3> QED BY <2>2, <3>3, <3>4
  <2>5. Leases'
    BY <1>5, <2>2 DEF RestoreAfterReaping, Restored, Leases, IsLive, TypeOK, Order
  <2>6. Recorded'
    BY <1>5, <2>1, <2>2
       DEF RestoreAfterReaping, Restored, Recorded, Writing, Order, IsLive, Stopping, Persisted, SameWishes, TypeOK
  <2>7. Kept'
    BY <1>5, <2>1, <2>2 DEF RestoreAfterReaping, Restored, Kept, Order, Leases, IsLive, Stopping
  <2> QED BY <2>3, <2>4, <2>5, <2>6, <2>7
<1> QED BY <1>1, <1>2, <1>3, <1>4, <1>5 DEF Restore

-----------------------------------------------------------------------------
(* Theorems                                                                 *)

LEMMA InitIInv == Init => IInv
<1> SUFFICES ASSUME Init PROVE IInv
  OBVIOUS
<1>1. ~IsLive /\ ~Stopping /\ DOMAIN rows = {}
  BY DEF Init, IsLive, Stopping, NotLive
<1>2. TypeOK
  <2>1. 0 \in 0..MaxStarts /\ 0 \in 0..MaxDeployments
    BY LifeBounds
  <2>2. restore \in [at : {"done", "due", "read", "reaping"}, row : Id \cup {0}, orphan : BOOLEAN]
    BY DEF Init, NoRestore
  <2>3. live = NotLive
    BY DEF Init
  <2> QED BY <1>1, <2>1, <2>2, <2>3 DEF Init, TypeOK
<1>3. Order
  BY <1>1 DEF Init, Order, NoRestore
<1>4. Leases /\ Recorded /\ Kept
  BY <1>1 DEF Init, Leases, Recorded, Writing, Kept
<1> QED BY <1>2, <1>3, <1>4 DEF IInv

LEMMA StepIInv == IInv /\ [Next]_vars => IInv'
<1> SUFFICES ASSUME IInv, [Next]_vars PROVE IInv'
  OBVIOUS
<1>1. CASE Next
  BY <1>1, RunStep, UserStep, ForegroundStep, ProcessStep, RestoreStep DEF Next
<1>2. CASE UNCHANGED vars
  BY <1>2 DEF vars, IInv, TypeOK, Order, Leases, Recorded, Writing, Kept, IsLive, Persisted,
              Stopping, Restorable, Desired, IsLatest
<1> QED BY <1>1, <1>2

LEMMA LifeInvariant == Spec => []IInv
BY InitIInv, StepIInv, PTL DEF Spec

\* Every variable keeps its type through restarts of the daemon.
THEOREM LifeTypes == Spec => []TypeOK
<1>1. IInv => TypeOK
  BY DEF IInv
<1> QED BY <1>1, LifeInvariant, PTL

\* What runs in the background is what the next daemon would restore.
THEOREM LifeLiveIsDesired == Spec => []LiveIsDesired
<1>1. IInv => LiveIsDesired
  <2> SUFFICES ASSUME IInv, IsLive, ~live.fg, ~Stopping, ~Writing, Persisted
               PROVE  live.id \in Restorable /\ ~setting
    BY DEF LiveIsDesired
  <2>1. live.id \in DOMAIN rows /\ \A i \in DOMAIN rows : i <= live.id
    BY DEF IInv, Order, Persisted
  <2>2. rows[live.id].desired = "running" /\ rows[live.id].state # "FAILED"
    BY DEF IInv, Recorded
  <2>3. ~setting
    BY DEF IInv, Recorded
  <2> QED BY <2>1, <2>2, <2>3 DEF Restorable, Desired, IsLatest
<1> QED BY <1>1, LifeInvariant, PTL

\* Once restore() is over, what the user had running is live.
THEOREM LifeWantedIsLive == Spec => []WantedIsLive
<1>1. IInv => WantedIsLive
  BY DEF IInv, Kept, WantedIsLive
<1> QED BY <1>1, LifeInvariant, PTL

=============================================================================
