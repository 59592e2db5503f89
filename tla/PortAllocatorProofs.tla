------------------------ MODULE PortAllocatorProofs ------------------------
(***************************************************************************)
(* For every set of projects, every range and every bound: the allocator   *)
(* of PortAllocator implements the table of PortTable.  What makes it so   *)
(* is that between the look at a port's holder and the commit, only        *)
(* releases, which take no lock, can change the reservations; and that a   *)
(* project holds one port, so that giving back the first one found gives   *)
(* back all.  Then what an allocation answers: the port its project had,   *)
(* if it stayed free, and none only if every port was taken.               *)
(***************************************************************************)
EXTENDS PortAllocator, SequenceTheorems, TLAPS

\* A port under a probe is still nobody else's; a call that adopts runs only where
\* applications choose their ports, and is never probing.
ProbeInv ==
  /\ stage = "probe" => /\ Head(todo) \in Port
                        /\ reserved[Head(todo)] \in {Nobody, Head(queue).project}
  /\ \A i \in 1..Len(queue) : queue[i].kind = "adopt" => use = "app" /\ queue[i].want \in Port
  /\ stage \in {"check", "probe"} => Head(queue).kind # "adopt"
  /\ stage = "save" => sticky[Head(queue).project] \in Port

\* A project holds one port.
OnePort == \A p, x \in Port : reserved[p] = reserved[x] /\ reserved[p] # Nobody => p = x

\* A deployment that has begun belongs to a project.
RunInv == /\ \A r \in Run : run[r].pc # "none" \/ run[r].down # "no" => run[r].project \in Project
          /\ \A r \in Run : run[r].pc \in {"astray", "found"} => use = "app"
          /\ \A r \in Run : run[r].pc = "found" => run[r].port \in Port
          /\ \A i \in 1..Len(queue) : queue[i].by # 0 => run[queue[i].by].project \in Project

IInv == TypeOK /\ ProbeInv /\ OnePort /\ RunInv

-----------------------------------------------------------------------------
(* Lemmas                                                                  *)

LEMMA RunTypes ==
  /\ NewRun \in Runs
  /\ \A r \in Runs : Over(r) \in Runs /\ Thrown(r) \in Runs
<1>1. NewRun \in Runs
  BY PortBounds DEF NewRun, Runs, NoPort
<1>2. ASSUME NEW r \in Runs PROVE Over(r) \in Runs
  BY <1>1 DEF Over, Runs
<1>3. ASSUME NEW r \in Runs PROVE Thrown(r) \in Runs
  BY <1>2 DEF Thrown, Runs
<1> QED BY <1>1, <1>2, <1>3

LEMMA ThrownFields ==
  ASSUME NEW r \in Runs
  PROVE  Thrown(r).project = r.project /\ Thrown(r).pc \in {"failing", "done"}
BY DEF Thrown, Over, NewRun, Runs

\* The call that holds the lock, and what is left when it settles.
LEMMA Queues ==
  ASSUME TypeOK, queue # <<>>
  PROVE  /\ Head(queue) \in Calls /\ Head(queue) = queue[1] /\ 1 \in 1..Len(queue)
         /\ Tail(queue) \in Seq(Calls)
         /\ \A i \in 1..Len(Tail(queue)) : i + 1 \in 1..Len(queue) /\ Tail(queue)[i] = queue[i + 1]
BY DEF TypeOK

LEMMA Reserving ==
  ASSUME TypeOK, OnePort, NEW q \in Project, NEW p \in Port, Reserve(q, p)
  PROVE  /\ reserved' \in [Port -> Project \cup {Nobody}]
         /\ sticky' \in [Project -> Port \cup {NoPort}]
         /\ OnePort'
BY DEF TypeOK, OnePort, Reserve

LEMMA Unreserving ==
  ASSUME TypeOK, OnePort, NEW q \in Project, Unreserve(q)
  PROVE  /\ reserved' \in [Port -> Project \cup {Nobody}]
         /\ OnePort'
         /\ reserved' = [x \in Port |-> IF reserved[x] = q THEN Nobody ELSE reserved[x]]
         /\ \A x \in Port : reserved'[x] \in {reserved[x], Nobody}
<1>1. CASE \E p \in Port : reserved[p] = q
  <2>1. PICK p \in Port : reserved[p] = q /\ reserved' = [reserved EXCEPT ![p] = Nobody]
    BY <1>1 DEF Unreserve
  <2>2. \A x \in Port : reserved[x] = q => x = p
    BY <2>1, PortBounds DEF OnePort, TypeOK
  <2> QED BY <2>1, <2>2, PortBounds DEF TypeOK, OnePort
<1>2. CASE ~ \E p \in Port : reserved[p] = q
  BY <1>2 DEF Unreserve, TypeOK, OnePort
<1> QED BY <1>1, <1>2

\* A call that is asked for goes to the end of the queue.
LEMMA Asking ==
  ASSUME TypeOK, NEW c \in Calls, Ask(c)
  PROVE  /\ queue' \in Seq(Calls) /\ queue' # <<>>
         /\ queue # <<>> => Head(queue') = Head(queue)
         /\ \A i \in 1..Len(queue') : queue'[i] = c \/ (i \in 1..Len(queue) /\ queue'[i] = queue[i])
<1>1. queue \in Seq(Calls) /\ queue' = Append(queue, c)
  BY DEF TypeOK, Ask
<1>2. /\ queue' \in Seq(Calls) /\ Len(queue') = Len(queue) + 1 /\ Len(queue) \in Nat
      /\ \A i \in 1..Len(queue) : queue'[i] = queue[i]
      /\ queue'[Len(queue) + 1] = c
  BY <1>1
<1>3. queue' # <<>> /\ (queue # <<>> => Head(queue') = Head(queue))
  BY <1>1, <1>2
<1> QED
  BY <1>2, <1>3

LEMMA Answering ==
  ASSUME IInv, queue # <<>>, NEW p \in Port \cup {NoPort}, Answer(p),
         Head(queue).kind = "adopt" => p # NoPort
  PROVE  /\ queue' \in Seq(Calls) /\ stage' = "idle" /\ steady' = {}
         /\ run' \in [Run -> Runs] /\ had' \in [Project -> Port \cup {NoPort}]
         /\ \A i \in 1..Len(queue') : i + 1 \in 1..Len(queue) /\ queue'[i] = queue[i + 1]
         /\ use' = use => RunInv'
<1> DEFINE call == Head(queue)
<1>1. call \in Calls /\ queue' = Tail(queue)
  BY Queues DEF Answer, Settle, IInv
<1>2. ASSUME NEW r \in Runs
      PROVE  Resumed(r, call, p) \in Runs
  <2>1. Thrown(r) \in Runs /\ [r EXCEPT !.pc = "running"] \in Runs
    BY RunTypes DEF Runs
  <2>2. p # NoPort => [r EXCEPT !.pc = "granted", !.port = p] \in Runs
    BY DEF Runs
  <2> QED
    BY <2>1, <2>2 DEF Resumed
<1>3. run' \in [Run -> Runs]
  <2>1. CASE call.by = 0
    BY <2>1 DEF Answer, IInv, TypeOK
  <2>2. CASE call.by # 0
    BY <2>2, <1>1, <1>2 DEF Answer, IInv, TypeOK, Run, Calls
  <2> QED BY <2>1, <2>2
<1>4. had' \in [Project -> Port \cup {NoPort}]
  BY <1>1 DEF Answer, IInv, TypeOK, Calls
<1>5. ASSUME use' = use PROVE RunInv'
  <2>1. CASE call.by = 0
    BY <2>1, <1>1, <1>5, Queues DEF Answer, IInv, RunInv, TypeOK
  <2>2. CASE call.by # 0
    <3>1. call.by \in Run /\ run[call.by] \in Runs /\ run[call.by].project \in Project
      BY <2>2, <1>1, Queues DEF IInv, TypeOK, RunInv, Run, Calls
    <3>2. run' = [run EXCEPT ![call.by] = Resumed(run[call.by], call, p)]
      BY <2>2 DEF Answer
    <3> DEFINE n == Resumed(run[call.by], call, p)
    <3>3. n.project = run[call.by].project /\ n.pc \notin {"none", "astray", "found"}
      BY <3>1 DEF Resumed, Thrown, Over, NewRun, Runs
    <3>4. /\ run'[call.by] = n
          /\ \A r \in Run : r # call.by => run'[r] = run[r]
      BY <3>1, <3>2 DEF IInv, TypeOK
    <3> HIDE DEF n
    <3>5. \A r \in Run : run'[r].project \in Project \/ run'[r] = run[r]
      BY <3>1, <3>3, <3>4
    <3>6. \A i \in 1..Len(queue') : queue'[i].by # 0 => run'[queue'[i].by].project \in Project
      <4> SUFFICES ASSUME NEW i \in 1..Len(queue'), queue'[i].by # 0
                   PROVE  run'[queue'[i].by].project \in Project
        OBVIOUS
      <4>1. i + 1 \in 1..Len(queue) /\ queue'[i] = queue[i + 1] /\ queue[i + 1] \in Calls
        BY <1>1, Queues DEF IInv, TypeOK
      <4>2. queue[i + 1].by \in Run
        BY <4>1 DEF Calls, Run
      <4> QED BY <4>1, <4>2, <3>5 DEF IInv, RunInv
    <3> QED BY <1>5, <3>1, <3>3, <3>4, <3>5, <3>6 DEF IInv, RunInv
  <2> QED BY <2>1, <2>2
<1> QED BY <1>1, <1>3, <1>4, <1>5, Queues DEF Answer, Settle, IInv

\* One deployment moves on.
LEMMA Moving ==
  ASSUME IInv, NEW r \in Run, NEW n \in Runs, run' = [run EXCEPT ![r] = n], use' = use,
         n.project \in Project, n.pc \in {"astray", "found"} => use = "app",
         n.pc = "found" => n.port \in Port
  PROVE  /\ run' \in [Run -> Runs]
         /\ \A o \in Run : run'[o].pc # "none" \/ run'[o].down # "no" => run'[o].project \in Project
         /\ \A o \in Run : run'[o].pc \in {"astray", "found"} => use' = "app"
         /\ \A o \in Run : run'[o].pc = "found" => run'[o].port \in Port
         /\ \A o \in Run : run[o].project \in Project => run'[o].project \in Project
         /\ queue' = queue => RunInv'
<1>1. /\ run' \in [Run -> Runs] /\ run'[r] = n
      /\ \A o \in Run : o # r => run'[o] = run[o]
  BY DEF IInv, TypeOK
<1>2. ASSUME queue' = queue
      PROVE  \A i \in 1..Len(queue') : queue'[i].by # 0 => run'[queue'[i].by].project \in Project
  <2> SUFFICES ASSUME NEW i \in 1..Len(queue), queue[i].by # 0
               PROVE  run'[queue[i].by].project \in Project
    BY <1>2
  <2>1. queue[i] \in Calls
    BY DEF IInv, TypeOK
  <2>2. queue[i].by \in Run
    BY <2>1 DEF Calls, Run
  <2> QED BY <1>1, <2>2 DEF IInv, RunInv
<1> QED BY <1>1, <1>2 DEF IInv, RunInv

\* ... and asks the allocator.
LEMMA MovingAndAsking ==
  ASSUME IInv, NEW r \in Run, NEW n \in Runs, run' = [run EXCEPT ![r] = n], use' = use,
         n.project \in Project, n.pc = "asked", NEW c \in Calls, Ask(c), c.by = r,
         c.kind = "adopt" => use = "app" /\ c.want \in Port
  PROVE  /\ RunInv' /\ queue' \in Seq(Calls) /\ queue' # <<>>
         /\ queue # <<>> => Head(queue') = Head(queue)
         /\ \A i \in 1..Len(queue') :
              queue'[i].kind = "adopt" => use' = "app" /\ queue'[i].want \in Port
<1>1. /\ run' \in [Run -> Runs] /\ run'[r] = n
      /\ \A o \in Run : o # r => run'[o] = run[o]
  BY DEF IInv, TypeOK
<1>2. \A i \in 1..Len(queue') : queue'[i].by # 0 => run'[queue'[i].by].project \in Project
  <2> SUFFICES ASSUME NEW i \in 1..Len(queue'), queue'[i].by # 0
               PROVE  run'[queue'[i].by].project \in Project
    OBVIOUS
  <2>1. CASE queue'[i] = c
    BY <2>1, <1>1
  <2>2. CASE i \in 1..Len(queue) /\ queue'[i] = queue[i]
    <3>1. queue[i] \in Calls
      BY <2>2 DEF IInv, TypeOK
    <3>2. queue[i].by \in Run
      BY <3>1, <2>2 DEF Calls, Run
    <3> QED BY <1>1, <2>2, <3>2 DEF IInv, RunInv
  <2> QED BY <2>1, <2>2, Asking DEF IInv
<1> QED BY <1>1, <1>2, Asking, Moving DEF IInv, RunInv, ProbeInv

\* The table's view of a commit and of a release.
LEMMA Committing ==
  ASSUME IInv, NEW q \in Project, NEW p \in Port, Reserve(q, p), use' = use,
         reserved[p] \in {Nobody, q} \/ use = "app"
  PROVE  Table!Next
BY DEF Reserve, Table!Next, Table!Allocate, Table!Adopt, Table!Give

LEMMA Releasing ==
  ASSUME IInv, NEW q \in Project, Unreserve(q), use' = use
  PROVE  Table!Next
<1>1. Table!Release(q)
  BY Unreserving DEF IInv, Table!Release
<1> QED BY <1>1 DEF Table!Next

TableStep == Table!Next \/ UNCHANGED <<reserved, use>>

-----------------------------------------------------------------------------
(* The allocator's steps                                                   *)

LEMMA AnsweringInv ==
  ASSUME IInv, queue # <<>>, NEW p \in Port \cup {NoPort}, Answer(p),
         Head(queue).kind = "adopt" => p # NoPort,
         UNCHANGED <<use, reserved, busy>>, loaded' \in BOOLEAN,
         sticky' \in [Project -> Port \cup {NoPort}],
         stored' \in [Project -> Port \cup {NoPort}]
  PROVE  IInv' /\ UNCHANGED <<reserved, use>>
<1>1. TypeOK'
  <2>1. busy' \subseteq Port /\ reserved' \in [Port -> Project \cup {Nobody}]
        /\ use' \in {"share", "app"}
    BY DEF IInv, TypeOK
  <2> QED BY <2>1, Answering DEF TypeOK
<1>2. \A i \in 1..Len(queue') : queue'[i].kind = "adopt" => use' = "app" /\ queue'[i].want \in Port
  BY Answering DEF IInv, ProbeInv
<1>3. ProbeInv'
  BY <1>2, Answering DEF ProbeInv
<1>4. OnePort' /\ RunInv'
  BY Answering DEF IInv, OnePort
<1> QED BY <1>1, <1>3, <1>4 DEF IInv

\* The allocator keeps the invariant and the table.
LEMMA AllocatorInv ==
  ASSUME IInv, AllocatorStep
  PROVE  IInv' /\ TableStep
<1> USE DEF TableStep
<1>1. CASE BeginChoice
  <2> DEFINE call == Head(queue)
             mine == {p \in Port : reserved[p] = call.project /\ call.want \in {NoPort, p}}
  <2>1. queue # <<>> /\ call \in Calls /\ call.kind # "adopt"
    BY <1>1, Queues DEF BeginChoice, IInv
  <2>2. sticky' \in [Project -> Port \cup {NoPort}] /\ loaded' = TRUE
    BY <1>1 DEF BeginChoice, IInv, TypeOK
  <2>3. CASE \E p \in mine : Answer(p)
    <3>1. PICK p \in Port : Answer(p)
      BY <2>3
    <3>2. /\ UNCHANGED <<use, reserved, busy, stored>>
          /\ stored \in [Project -> Port \cup {NoPort}]
      BY <1>1 DEF BeginChoice, IInv, TypeOK
    <3> QED BY <2>1, <2>2, <3>1, <3>2, AnsweringInv
  <2>4. CASE /\ mine = {} /\ stage' = "check" /\ UNCHANGED <<queue, run, had>>
             /\ steady' = {p \in Port : Free(p) /\ reserved[p] \in {Nobody, call.project}}
    BY <1>1, <2>1, <2>2, <2>4 DEF BeginChoice, IInv, TypeOK, ProbeInv, OnePort, RunInv
  <2> QED BY <1>1, <2>3, <2>4 DEF BeginChoice
<1>2. CASE Check
  BY <1>2 DEF Check, IInv, TypeOK, ProbeInv, OnePort, RunInv
<1>3. CASE PassOver
  BY <1>3 DEF PassOver, IInv, TypeOK, ProbeInv, OnePort, RunInv
<1>4. CASE Commit
  <2>1. Head(queue) \in Calls /\ queue # <<>> /\ Head(todo) \in Port
        /\ reserved[Head(todo)] \in {Nobody, Head(queue).project}
    BY <1>4, Queues DEF Commit, IInv, TypeOK, ProbeInv
  <2>2. Head(queue).project \in Project
    BY <2>1 DEF Calls
  <2>3. Table!Next
    BY <1>4, <2>1, <2>2, Committing DEF Commit
  <2>4. sticky'[Head(queue).project] = Head(todo)
    BY <1>4, <2>1, <2>2 DEF Commit, Reserve, IInv, TypeOK
  <2> QED BY <1>4, <2>1, <2>2, <2>3, <2>4, Reserving DEF Commit, IInv, TypeOK, ProbeInv, RunInv
<1>5. CASE Peeked
  <2>1. queue # <<>> /\ Head(todo) \in Port
    BY <1>5 DEF Peeked, IInv, TypeOK, ProbeInv
  <2>9. /\ UNCHANGED <<use, reserved, busy, loaded, sticky, stored>>
        /\ loaded \in BOOLEAN
        /\ sticky \in [Project -> Port \cup {NoPort}] /\ stored \in [Project -> Port \cup {NoPort}]
    BY <1>5 DEF Peeked, IInv, TypeOK
  <2> QED BY <1>5, <2>1, <2>9, AnsweringInv DEF Peeked, ProbeInv, IInv
<1>6. CASE Exhausted
  <2>1. queue # <<>>
    BY <1>6 DEF Exhausted, IInv, TypeOK
  <2>2. Head(queue).kind # "adopt"
    BY <1>6 DEF Exhausted, IInv, ProbeInv
  <2>9. /\ UNCHANGED <<use, reserved, busy, loaded, sticky, stored>>
        /\ loaded \in BOOLEAN
        /\ sticky \in [Project -> Port \cup {NoPort}] /\ stored \in [Project -> Port \cup {NoPort}]
    BY <1>6 DEF Exhausted, IInv, TypeOK
  <2> QED BY <1>6, <2>1, <2>2, <2>9, AnsweringInv DEF Exhausted, ProbeInv, IInv
<1>7. CASE BeginAdopt
  <2>1. queue # <<>> /\ Head(queue) \in Calls /\ Head(queue).project \in Project
        /\ Head(queue).want \in Port /\ use = "app"
    BY <1>7, Queues DEF BeginAdopt, IInv, ProbeInv, Calls
  <2>2. Table!Next
    BY <1>7, <2>1, Committing DEF BeginAdopt
  <2>3. sticky'[Head(queue).project] = Head(queue).want
    BY <1>7, <2>1 DEF BeginAdopt, Reserve, IInv, TypeOK
  <2> QED BY <1>7, <2>1, <2>2, <2>3, Reserving DEF BeginAdopt, IInv, TypeOK, ProbeInv, RunInv
<1>8. CASE Save
  <2> DEFINE q == Head(queue).project
  <2>1. queue # <<>> /\ q \in Project
    BY <1>8, Queues DEF Save, IInv, TypeOK, Calls
  <2>2. sticky[q] \in Port
    BY <1>8, <2>1 DEF Save, IInv, ProbeInv
  <2>3. stored' \in [Project -> Port \cup {NoPort}]
    BY <1>8, <2>1, <2>2 DEF Save, IInv, TypeOK
  <2>4. /\ UNCHANGED <<use, reserved, busy, loaded, sticky>> /\ loaded \in BOOLEAN
        /\ sticky \in [Project -> Port \cup {NoPort}] /\ Answer(sticky[q])
        /\ sticky[q] # NoPort
    BY <1>8, <2>2, PortBounds DEF Save, IInv, TypeOK, Port, NoPort
  <2> QED BY <2>1, <2>2, <2>3, <2>4, AnsweringInv
<1> QED BY <1>1, <1>2, <1>3, <1>4, <1>5, <1>6, <1>7, <1>8 DEF AllocatorStep

-----------------------------------------------------------------------------
(* The steps of the engine, of other programs and of the daemon            *)

\* Whoever does not hold the lock leaves the call that does alone, and can only take
\* reservations away.
LEMMA OutsideInv ==
  ASSUME IInv, UNCHANGED <<use, sticky, loaded, stored, stage, todo, had>>,
         reserved' \in [Port -> Project \cup {Nobody}], OnePort',
         \A x \in Port : reserved'[x] \in {reserved[x], Nobody},
         queue' \in Seq(Calls), queue # <<>> => queue' # <<>> /\ Head(queue') = Head(queue),
         \A i \in 1..Len(queue') : queue'[i].kind = "adopt" => use' = "app" /\ queue'[i].want \in Port,
         run' \in [Run -> Runs], RunInv', busy' \subseteq Port, steady' \subseteq Port
  PROVE  IInv'
<1>1. TypeOK'
  BY DEF IInv, TypeOK
<1>2. ProbeInv'
  BY DEF IInv, TypeOK, ProbeInv
<1> QED BY <1>1, <1>2 DEF IInv

LEMMA SameQueue ==
  ASSUME IInv, queue' = queue, use' = use
  PROVE  /\ queue' \in Seq(Calls) /\ (queue # <<>> => queue' # <<>> /\ Head(queue') = Head(queue))
         /\ \A i \in 1..Len(queue') :
              queue'[i].kind = "adopt" => use' = "app" /\ queue'[i].want \in Port
BY DEF IInv, TypeOK, ProbeInv

LEMMA SameTable ==
  ASSUME IInv, reserved' = reserved
  PROVE  /\ reserved' \in [Port -> Project \cup {Nobody}] /\ OnePort'
         /\ \A x \in Port : reserved'[x] \in {reserved[x], Nobody}
BY DEF IInv, TypeOK, OnePort

LEMMA EngineInv ==
  ASSUME IInv, NEW r \in Run, EngineStep(r)
  PROVE  IInv' /\ TableStep
<1> USE DEF TableStep
<1> DEFINE old == run[r]
<1>0. old \in Runs /\ busy \subseteq Port /\ steady \subseteq Port /\ r # 0
      /\ (old.pc # "none" \/ old.down # "no" => old.project \in Project)
      /\ r \in 0..MaxRuns
  BY PortBounds DEF IInv, TypeOK, RunInv, Run
<1>1. ASSUME NEW q \in Project, NEW want \in Preferred \cup {NoPort}, NEW explicit \in BOOLEAN,
             Start(r, q, want, explicit)
      PROVE  IInv' /\ TableStep
  <2> DEFINE n == [NewRun EXCEPT !.project = q, !.want = want, !.explicit = explicit, !.pc = "asked"]
             c == Call(r, "allocate", q, want, explicit)
  <2>1. n \in Runs /\ n.project = q /\ n.pc = "asked"
    <3>1. want \in Port \cup {NoPort}
      BY PortBounds DEF Port
    <3>2. PICK x \in Runs : x = NewRun
      BY RunTypes
    <3>3. n = [x EXCEPT !.project = q, !.want = want, !.explicit = explicit, !.pc = "asked"]
      BY <3>2
    <3> HIDE DEF n
    <3>4. n \in Runs
      BY <3>1, <3>3 DEF Runs
    <3> QED BY <3>3, <3>4 DEF Runs
  <2>2. c \in Calls /\ c.by = r /\ c.kind = "allocate"
    BY <1>0, PortBounds DEF Call, Calls, Port
  <2> HIDE DEF n, c
  <2>3. run' = [run EXCEPT ![r] = n] /\ Ask(c) /\ use' = use
    BY <1>1 DEF Start, n, c
  <2>4. run' \in [Run -> Runs]
    BY <2>1, <2>3 DEF IInv, TypeOK
  <2>5. UNCHANGED <<use, sticky, loaded, stored, stage, todo, had, reserved, busy, steady>>
    BY <1>1 DEF Start
  <2> QED BY <1>0, <2>1, <2>2, <2>3, <2>4, <2>5, MovingAndAsking, SameTable, OutsideInv
<1>2. ASSUME NEW n \in Runs, run' = [run EXCEPT ![r] = n], n.project \in Project,
             n.pc \in {"astray", "found"} => use = "app", n.pc = "found" => n.port \in Port,
             UNCHANGED <<use, sticky, loaded, stored, queue, stage, todo, busy, had>>,
             steady' \subseteq Port,
             reserved' = reserved \/ Unreserve(n.project)
      PROVE  IInv' /\ TableStep
  <2>1. RunInv' /\ run' \in [Run -> Runs]
    BY <1>2, Moving
  <2>2. CASE reserved' = reserved
    BY <1>0, <1>2, <2>1, <2>2, SameQueue, SameTable, OutsideInv
  <2>3. CASE Unreserve(n.project)
    BY <1>0, <1>2, <2>1, <2>3, SameQueue, Unreserving, Releasing, OutsideInv DEF IInv
  <2> QED BY <1>2, <2>2, <2>3
<1>3. CASE Listen(r)
  <2> DEFINE n == [old EXCEPT !.pc = "running", !.bound = old.port]
  <2>1. n \in Runs /\ n.project \in Project /\ n.pc = "running"
    BY <1>0, <1>3 DEF Listen, Runs
  <2>2. run' = [run EXCEPT ![r] = n]
    BY <1>0, <1>3 DEF Listen, IInv, TypeOK
  <2> HIDE DEF n
  <2> QED BY <1>0, <1>2, <1>3, <2>1, <2>2 DEF Listen, allocator
<1>4. CASE ListenFails(r)
  <2>1. /\ Thrown(old) \in Runs /\ Thrown(old).project = old.project
        /\ Thrown(old).pc \in {"failing", "done"} /\ old.project \in Project
    <3>1. old.project \in Project
      BY <1>0, <1>4 DEF ListenFails
    <3>2. Thrown(old) \in Runs
      BY <1>0, RunTypes
    <3>3. Thrown(old).project = old.project /\ Thrown(old).pc \in {"failing", "done"}
      BY <1>0, ThrownFields
    <3> QED BY <3>1, <3>2, <3>3
  <2>2. CASE run' = [run EXCEPT ![r] = Thrown(old)] /\ UNCHANGED queue
    BY <1>0, <1>2, <1>4, <2>1, <2>2 DEF ListenFails
  <2>3. CASE /\ MayRetry(r) /\ Unreserve(old.project)
             /\ run' = [run EXCEPT ![r].pc = "asked", ![r].attempt = @ + 1]
             /\ Ask(Call(r, "allocate", old.project, old.want, FALSE))
    <3> DEFINE n == [old EXCEPT !.pc = "asked", !.attempt = old.attempt + 1]
               c == Call(r, "allocate", old.project, old.want, FALSE)
    <3>1. n \in Runs /\ n.project \in Project /\ n.pc = "asked"
      <4>1. old.attempt \in 0..(MaxListens - 1) /\ old.attempt + 1 < MaxListens
        BY <1>0, <2>3 DEF MayRetry, Runs
      <4>2. old.attempt + 1 \in 0..(MaxListens - 1)
        BY <4>1, PortBounds
      <4> QED BY <1>0, <2>1, <4>2 DEF Runs
    <3>2. run' = [run EXCEPT ![r] = n]
      BY <1>0, <2>3 DEF IInv, TypeOK
    <3>3. c \in Calls /\ c.by = r /\ c.kind = "allocate"
      BY <1>0, <2>1 DEF Call, Calls, Runs
    <3> HIDE DEF n, c
    <3>4. run' \in [Run -> Runs]
      BY <3>1, <3>2 DEF IInv, TypeOK
    <3>5. Ask(c)
      BY <2>3 DEF c
    <3>6. UNCHANGED <<use, sticky, loaded, stored, stage, todo, had, busy, steady>>
      BY <1>4 DEF ListenFails
    <3> QED BY <1>0, <2>1, <2>3, <3>1, <3>2, <3>3, <3>4, <3>5, <3>6, MovingAndAsking,
               Unreserving, Releasing, OutsideInv DEF IInv
  <2> QED BY <1>4, <2>2, <2>3 DEF ListenFails
<1>5. ASSUME NEW p \in Port, AppListens(r, p) PROVE IInv' /\ TableStep
  <2> DEFINE n == [old EXCEPT !.pc = IF p = old.port THEN "running" ELSE "astray", !.bound = p]
  <2>1. n \in Runs /\ n.project \in Project /\ n.pc # "found"
    BY <1>0, <1>5 DEF AppListens, Runs
  <2>2. run' = [run EXCEPT ![r] = n]
    BY <1>0, <1>5 DEF AppListens, IInv, TypeOK
  <2> HIDE DEF n
  <2> QED BY <1>0, <1>2, <1>5, <2>1, <2>2 DEF AppListens, allocator
<1>6. CASE Discover(r)
  <2> DEFINE n == [old EXCEPT !.pc = "found", !.port = old.bound]
  <2>1. n \in Runs /\ n.project \in Project /\ n.port \in Port /\ use = "app"
    BY <1>0, <1>6 DEF Discover, Runs, IInv, RunInv
  <2>2. run' = [run EXCEPT ![r] = n]
    BY <1>0, <1>6 DEF Discover, IInv, TypeOK
  <2> HIDE DEF n
  <2> QED BY <1>0, <1>2, <1>6, <2>1, <2>2 DEF Discover, allocator
<1>7. CASE Adopt(r)
  <2> DEFINE n == [old EXCEPT !.pc = "asked"]
             c == Call(r, "adopt", old.project, old.port, FALSE)
  <2>1. n \in Runs /\ n.project \in Project /\ n.pc = "asked"
    BY <1>0, <1>7 DEF Adopt, Runs
  <2>2. run' = [run EXCEPT ![r] = n]
    BY <1>0, <1>7 DEF Adopt, IInv, TypeOK
  <2>3. c \in Calls /\ c.by = r /\ use = "app" /\ c.want \in Port
    BY <1>0, <1>7 DEF Adopt, Call, Calls, Runs, IInv, RunInv
  <2> HIDE DEF n, c
  <2>4. run' \in [Run -> Runs]
    BY <2>1, <2>2 DEF IInv, TypeOK
  <2>5. Ask(c) /\ UNCHANGED <<use, reserved, sticky, loaded, stored, stage, todo, busy, had, steady>>
    BY <1>7 DEF Adopt, c
  <2> QED BY <1>0, <2>1, <2>2, <2>3, <2>4, <2>5, MovingAndAsking, SameTable, OutsideInv
<1>8. CASE AppFails(r)
  <2> DEFINE o == [old EXCEPT !.bound = NoPort]
  <2>1. o \in Runs /\ o.project = old.project /\ old.project \in Project
    BY <1>0, <1>8 DEF AppFails, Runs
  <2>2. /\ Thrown(o) \in Runs /\ Thrown(o).project \in Project
        /\ Thrown(o).pc \in {"failing", "done"}
    <3>1. Thrown(o) \in Runs
      BY <2>1, RunTypes
    <3>2. Thrown(o).project = o.project /\ Thrown(o).pc \in {"failing", "done"}
      BY <2>1, ThrownFields
    <3> QED BY <2>1, <3>1, <3>2
  <2> HIDE DEF o
  <2>3. run' = [run EXCEPT ![r] = Thrown(o)]
    BY <1>8 DEF AppFails, o
  <2> QED BY <1>0, <1>2, <1>8, <2>2, <2>3 DEF AppFails, allocator
<1>9. CASE AppExits(r)
  <2> DEFINE n == [old EXCEPT !.bound = NoPort]
  <2>1. n \in Runs /\ n.project \in Project /\ n.pc = "asked"
    BY <1>0, <1>9 DEF AppExits, Runs
  <2>2. run' = [run EXCEPT ![r] = n]
    BY <1>0, <1>9 DEF AppExits, IInv, TypeOK
  <2> HIDE DEF n
  <2> QED BY <1>0, <1>2, <1>9, <2>1, <2>2 DEF AppExits, allocator
<1>10. CASE FailRelease(r)
  <2>1. Over(old) \in Runs /\ Over(old).project = old.project /\ Over(old).pc = "done"
        /\ old.project \in Project
    BY <1>0, <1>10, RunTypes DEF FailRelease, Over, NewRun
  <2> QED BY <1>0, <1>2, <1>10, <2>1 DEF FailRelease
<1>11. CASE Stop(r)
  <2> DEFINE closed == [old EXCEPT !.down = "closing", !.bound = NoPort]
             n == IF old.pc = "running" THEN Over(closed) ELSE closed
  <2>1. closed \in Runs /\ closed.project = old.project /\ closed.pc = old.pc
        /\ closed.port = old.port
    BY <1>0 DEF Runs
  <2>2. Over(closed) \in Runs /\ Over(closed).project = closed.project /\ Over(closed).pc = "done"
    BY <2>1, RunTypes DEF Over, NewRun
  <2>3. n \in Runs /\ n.project \in Project
        /\ (n.pc \in {"astray", "found"} => use = "app") /\ (n.pc = "found" => n.port \in Port)
    BY <1>0, <1>11, <2>1, <2>2 DEF Stop, IInv, RunInv
  <2>4. run' = [run EXCEPT ![r] = n]
    BY <1>11 DEF Stop
  <2> HIDE DEF n
  <2> QED BY <1>0, <1>2, <1>11, <2>3, <2>4 DEF Stop, allocator
<1>12. CASE TeardownRelease(r)
  <2> DEFINE n == [old EXCEPT !.down = "down"]
  <2>1. n \in Runs /\ n.project = old.project /\ old.project \in Project
        /\ n.pc = old.pc /\ n.port = old.port
    BY <1>0, <1>12 DEF TeardownRelease, Runs
  <2>2. run' = [run EXCEPT ![r] = n]
    BY <1>0, <1>12 DEF TeardownRelease, IInv, TypeOK
  <2> HIDE DEF n
  <2> QED BY <1>0, <1>2, <1>12, <2>1, <2>2 DEF TeardownRelease, IInv, RunInv
<1> QED BY <1>1, <1>3, <1>4, <1>5, <1>6, <1>7, <1>8, <1>9, <1>10, <1>11, <1>12 DEF EngineStep

LEMMA PeekInv ==
  ASSUME IInv, NEW q \in Project, Peek(q)
  PROVE  IInv' /\ TableStep
<1> DEFINE c == Call(0, "peek", q, NoPort, FALSE)
<1>1. c \in Calls /\ c.by = 0 /\ c.kind = "peek"
  BY PortBounds DEF c, Call, Calls
<1> HIDE DEF c
<1>2. Ask(c) /\ UNCHANGED <<use, reserved, sticky, loaded, stored, stage, todo, run, busy, had, steady>>
  BY DEF Peek, c
<1>3. RunInv'
  BY <1>1, <1>2, Asking DEF IInv, RunInv
<1>4. \A i \in 1..Len(queue') : queue'[i].kind = "adopt" => use' = "app" /\ queue'[i].want \in Port
  BY <1>1, <1>2, Asking DEF IInv, ProbeInv
<1>5. run' \in [Run -> Runs] /\ busy' \subseteq Port /\ steady' \subseteq Port
  BY <1>2 DEF IInv, TypeOK
<1> QED BY <1>1, <1>2, <1>3, <1>4, <1>5, Asking, SameTable, OutsideInv DEF IInv, TableStep

LEMMA OthersInv ==
  ASSUME IInv, Others
  PROVE  IInv' /\ TableStep
BY DEF IInv, TypeOK, ProbeInv, OnePort, RunInv, Others, allocator, TableStep

LEMMA EmptyQueue == Restart => 1..Len(queue') = {}
<1>1. Restart => queue' = <<>>
  BY DEF Restart
<1>2. 1..Len(<<>>) = {}
  OBVIOUS
<1> QED BY <1>1, <1>2

LEMMA RestartInv ==
  ASSUME IInv, Restart
  PROVE  IInv' /\ TableStep
<1>1. \A r \in Run : run'[r] \in Runs /\ run'[r].project = run[r].project
                     /\ (run'[r].pc = "done" \/ run'[r] = run[r])
                     /\ (run'[r].pc = "done" => run[r].pc # "none")
  <2> SUFFICES ASSUME NEW r \in Run
               PROVE  run'[r] \in Runs /\ run'[r].project = run[r].project
                      /\ (run'[r].pc = "done" \/ run'[r] = run[r])
                      /\ (run'[r].pc = "done" => run[r].pc # "none")
    OBVIOUS
  <2>1. run[r] \in Runs
    BY DEF IInv, TypeOK
  <2>2. Over(run[r]) \in Runs /\ Over(run[r]).project = run[r].project /\ Over(run[r]).pc = "done"
    BY <2>1, RunTypes DEF Over, NewRun
  <2> DEFINE n == [Over(run[r]) EXCEPT !.bound = NoPort, !.down = "down"]
  <2>3. n \in Runs /\ n.project = run[r].project /\ n.pc = "done"
    BY <2>2 DEF Runs
  <2>4. run'[r] = IF run[r].pc = "none" THEN run[r] ELSE n
    BY DEF Restart
  <2> HIDE DEF n
  <2> QED BY <2>1, <2>3, <2>4
<1>2. run' \in [Run -> Runs]
  BY <1>1 DEF Restart
<1>3. TypeOK'
  <2>1. queue' = <<>> /\ <<>> \in Seq(Calls) /\ stage' = "idle" /\ steady' = {}
    <3>1. queue' = <<>> /\ stage' = "idle" /\ steady' = {}
      BY DEF Restart
    <3>2. <<>> \in Seq(Calls)
      OBVIOUS
    <3> QED BY <3>1, <3>2
  <2>2. /\ reserved' \in [Port -> Project \cup {Nobody}]
        /\ sticky' \in [Project -> Port \cup {NoPort}] /\ loaded' \in BOOLEAN
    BY DEF Restart
  <2>3. stored' \in [Project -> Port \cup {NoPort}] /\ had' \in [Project -> Port \cup {NoPort}]
    BY DEF Restart, IInv, TypeOK
  <2>4. use' = use /\ busy' = busy
    BY DEF Restart
  <2> QED BY <1>2, <2>1, <2>2, <2>3, <2>4 DEF IInv, TypeOK
<1>4. RunInv'
  <2>1. use' = use /\ 1..Len(queue') = {}
    BY EmptyQueue DEF Restart
  <2> QED BY <1>1, <2>1 DEF IInv, RunInv
<1>5. ProbeInv' /\ OnePort'
  <2>1. stage' = "idle" /\ 1..Len(queue') = {} /\ \A p \in Port : reserved'[p] = Nobody
    BY EmptyQueue DEF Restart
  <2> QED BY <2>1 DEF ProbeInv, OnePort
<1>6. Table!Next
  BY DEF Restart, Table!Next, Table!Restart, Table!Empty
<1> QED BY <1>3, <1>4, <1>5, <1>6 DEF IInv, TableStep

-----------------------------------------------------------------------------

LEMMA InitInv == Init => IInv /\ Table!Init
<1> SUFFICES ASSUME Init PROVE IInv /\ Table!Init
  OBVIOUS
<1>1. queue = <<>> /\ 1..Len(queue) = {} /\ queue \in Seq(Calls) /\ stage = "idle"
  BY DEF Init
<1>2. /\ reserved \in [Port -> Project \cup {Nobody}] /\ run \in [Run -> Runs]
      /\ sticky \in [Project -> Port \cup {NoPort}] /\ stored \in [Project -> Port \cup {NoPort}]
      /\ had \in [Project -> Port \cup {NoPort}]
  BY RunTypes DEF Init
<1>3. TypeOK
  BY <1>1, <1>2 DEF Init, TypeOK
<1>4. ProbeInv
  BY <1>1 DEF ProbeInv
<1>5. OnePort
  BY DEF Init, OnePort
<1>6. RunInv
  BY <1>1 DEF Init, RunInv, NewRun
<1>7. Table!Init
  BY DEF Init, Table!Init, Table!Empty
<1> QED BY <1>3, <1>4, <1>5, <1>6, <1>7 DEF IInv

LEMMA StepInv == IInv /\ [Next]_vars => IInv' /\ TableStep
<1> SUFFICES ASSUME IInv, [Next]_vars PROVE IInv' /\ TableStep
  OBVIOUS
<1>1. CASE UNCHANGED vars
  BY <1>1 DEF vars, IInv, TypeOK, ProbeInv, OnePort, RunInv, TableStep
<1>2. CASE Next
  BY <1>2, AllocatorInv, EngineInv, PeekInv, OthersInv, RestartInv DEF Next
<1> QED BY <1>1, <1>2

\* The allocator's and its callers' types, for every range, set of projects and bound.
THEOREM PortTypes == Spec => []TypeOK
<1>1. IInv => TypeOK
  BY DEF IInv
<1> QED BY <1>1, InitInv, StepInv, PTL DEF Spec

\* A project never holds two ports.
THEOREM PortsOnePort == Spec => []OnePort
<1>1. IInv => OnePort
  BY DEF IInv
<1> QED BY <1>1, InitInv, StepInv, PTL DEF Spec

\* The allocator implements the table: allocate() never takes a port from another project,
\* whatever releases, retries, restarts and other programs do between its probes.
THEOREM PortTableImplemented == Spec => ImplementsPortTable
<1>1. IInv /\ [Next]_vars => [Table!Next]_<<reserved, (use = "app")>>
  BY StepInv DEF TableStep
<1> QED BY <1>1, InitInv, StepInv, PTL DEF Spec, ImplementsPortTable, Table!Spec
--------------------------------------------------------
-----------------------------------------------------------------------------
(* What an allocation answers                                              *)

\* What the call that holds the lock may answer, and whether nobody has taken the port its
\* project was last given since it began.
Eligible(call) == IF call.strict THEN {call.want} ELSE (Low..High) \ Avoid
Returns(call) == had[call.project] \in steady

Tries(ports, p) == \E i \in 1..Len(ports) : ports[i] = p

\* Before the last port of the project only the preferred one is tried.
Leads(ports, want, last) ==
  \A i \in 1..Len(ports) :
    ports[i] \in {want, last} \/ \E j \in 1..(i - 1) : ports[j] = last

\* A search still has to probe every port that has been free since it began, and the one
\* its project had before any other but the preferred one.
SearchInv ==
  /\ todo \in Seq(Int) /\ events \in Nat
  /\ \A i \in 1..Len(queue) : queue[i].strict => queue[i].want # NoPort
  /\ stage = "idle" => steady = {}
  /\ stage = "probe" => todo # <<>>
  /\ stage \in {"check", "probe"} =>
       /\ \A p \in steady : Free(p) /\ reserved[p] \in {Nobody, Head(queue).project}
       /\ \A p \in steady \cap Eligible(Head(queue)) : Tries(todo, p)
       /\ Returns(Head(queue)) =>
            Leads(todo, Head(queue).want, had[Head(queue).project])

\* What was last answered is what the store says, what the allocator remembers once it
\* has read the store, and the only port a project may have reserved; between a commit
\* and its answer the allocator is ahead of the store.
Saving(q) == stage = "save" /\ Head(queue).project = q
MemoryInv ==
  /\ stored = had
  /\ \A q \in Project : loaded /\ ~Saving(q) => sticky[q] = had[q]
  /\ \A q \in Project, p \in Port :
       reserved[p] = q => p = IF Saving(q) THEN sticky[q] ELSE had[q]
  /\ stage = "save" => Head(queue).kind # "peek"
  /\ stage = "save" /\ Head(queue).kind = "allocate" /\ Returns(Head(queue)) =>
       sticky[Head(queue).project] \in {Head(queue).want, had[Head(queue).project]}

AnswerInv == SearchInv /\ MemoryInv

LEMMA ScanFinds ==
  ASSUME NEW want \in Port \cup {NoPort}
  PROVE  /\ Scan(want) \in Seq(Int)
         /\ \A p \in (Low..High) \ Avoid : Tries(Scan(want), p)
<1> DEFINE start == IF want = NoPort THEN Low ELSE want
           near == Upward(start + 1, Least(start + ScanSpan, High))
           whole == Upward(Low, High)
<1>1. start \in Int /\ Low \in Int /\ High \in Int /\ NoPort \in Int
  BY PortBounds DEF Port, NoPort
<1>2. ASSUME NEW a \in Int, NEW b \in Int
      PROVE  /\ Upward(a, b) \in Seq(Int)
             /\ \A p \in (a..b) \ Avoid : Tries(Upward(a, b), p)
  <2> DEFINE n == IF b - a + 1 < 0 THEN 0 ELSE b - a + 1
             f == [i \in 1..n |-> IF a + i - 1 \in Avoid THEN NoPort ELSE a + i - 1]
  <2>1. n \in Nat /\ 1..n = 1..(b - a + 1)
    OBVIOUS
  <2>2. Upward(a, b) = f
    BY <2>1 DEF Upward
  <2>3. f \in Seq(Int) /\ Len(f) = n
    BY <1>1, <2>1
  <2>4. \A p \in (a..b) \ Avoid : p - a + 1 \in 1..n /\ f[p - a + 1] = p
    BY <2>1
  <2> HIDE DEF f, n
  <2>5. \A p \in (a..b) \ Avoid : Tries(f, p)
    BY <2>3, <2>4 DEF Tries
  <2> QED
    BY <2>2, <2>3, <2>5
<1>3. Least(start + ScanSpan, High) \in Int /\ start + 1 \in Int
  BY <1>1, PortBounds DEF Least
<1>4. near \in Seq(Int) /\ whole \in Seq(Int)
  BY <1>1, <1>2, <1>3
<1>5. \A p \in (Low..High) \ Avoid : Tries(whole, p)
  BY <1>1, <1>2
<1>6. Scan(want) = near \o whole
  BY DEF Scan
<1> HIDE DEF near, whole
<1>7. /\ near \o whole \in Seq(Int) /\ Len(near \o whole) = Len(near) + Len(whole)
      /\ \A i \in 1..Len(whole) : (near \o whole)[Len(near) + i] = whole[i]
  BY <1>4
<1>8. \A i \in 1..Len(whole) : Len(near) + i \in 1..Len(near \o whole)
  BY <1>4, <1>7
<1> QED
  BY <1>5, <1>6, <1>7, <1>8 DEF Tries

\* Sequences put together: what each part holds the whole one does.
LEMMA Joined ==
  ASSUME NEW a \in Seq(Int), NEW b \in Seq(Int)
  PROVE  /\ a \o b \in Seq(Int)
         /\ a # <<>> => a \o b # <<>> /\ (a \o b)[1] = a[1]
         /\ a = <<>> => a \o b = b
         /\ \A p : Tries(a, p) \/ Tries(b, p) => Tries(a \o b, p)
<1>1. /\ a \o b \in Seq(Int) /\ Len(a \o b) = Len(a) + Len(b)
      /\ Len(a) \in Nat /\ Len(b) \in Nat
      /\ \A i \in 1..Len(a) : (a \o b)[i] = a[i]
      /\ \A i \in 1..Len(b) : (a \o b)[Len(a) + i] = b[i]
  OBVIOUS
<1>2. a # <<>> => a \o b # <<>> /\ (a \o b)[1] = a[1]
  BY <1>1
<1>3. a = <<>> => a \o b = b
  OBVIOUS
<1>4. \A i \in 1..Len(a) : i \in 1..Len(a \o b)
  BY <1>1
<1>5. \A i \in 1..Len(b) : Len(a) + i \in 1..Len(a \o b)
  BY <1>1
<1> QED
  BY <1>1, <1>2, <1>3, <1>4, <1>5 DEF Tries

\* A list that tries nothing but the two ports, or the last one before any other, leads
\* whatever follows.
LEMMA JoinedLeads ==
  ASSUME NEW a \in Seq(Int), NEW b \in Seq(Int), NEW want, NEW last,
         Leads(a, want, last), Leads(b, want, last) \/ Tries(a, last)
  PROVE  Leads(a \o b, want, last)
<1>1. /\ Len(a \o b) = Len(a) + Len(b) /\ Len(a) \in Nat /\ Len(b) \in Nat
      /\ \A i \in 1..Len(a) : (a \o b)[i] = a[i]
      /\ \A i \in 1..Len(b) : (a \o b)[Len(a) + i] = b[i]
  OBVIOUS
<1> SUFFICES ASSUME NEW i \in 1..Len(a \o b), (a \o b)[i] \notin {want, last}
             PROVE  \E j \in 1..(i - 1) : (a \o b)[j] = last
  BY DEF Leads
<1>2. CASE i \in 1..Len(a)
  <2>1. PICK j \in 1..(i - 1) : a[j] = last
    BY <1>1, <1>2 DEF Leads
  <2>2. j \in 1..Len(a)
    BY <1>1, <1>2
  <2> QED
    BY <1>1, <2>1, <2>2
<1>3. CASE i \notin 1..Len(a)
  <2> DEFINE k == i - Len(a)
  <2>1. k \in 1..Len(b) /\ (a \o b)[i] = b[k] /\ i = Len(a) + k
    BY <1>1, <1>3
  <2> HIDE DEF k
  <2>2. CASE Tries(a, last)
    <3>1. PICK j \in 1..Len(a) : a[j] = last
      BY <2>2 DEF Tries
    <3>2. j \in 1..(i - 1)
      BY <1>1, <2>1
    <3> QED
      BY <1>1, <3>1, <3>2
  <2>3. CASE Leads(b, want, last)
    <3>1. PICK j \in 1..(k - 1) : b[j] = last
      BY <2>1, <2>3 DEF Leads
    <3>2. j \in 1..Len(b) /\ Len(a) + j \in 1..(i - 1)
      BY <1>1, <2>1
    <3> QED
      BY <1>1, <3>1, <3>2
  <2> QED
    BY <2>2, <2>3
<1> QED
  BY <1>2, <1>3

\* A search tries every port it may answer, and the one its project had before any other
\* but the preferred one.
LEMMA CandidatesFind ==
  ASSUME NEW call \in Calls, NEW last \in Port \cup {NoPort}, call.strict => call.want # NoPort
  PROVE  /\ Candidates(call, last) \in Seq(Int)
         /\ \A p \in Port \cap Eligible(call) : Tries(Candidates(call, last), p)
         /\ last # NoPort => Leads(Candidates(call, last), call.want, last)
<1>1. call.want \in Port \cup {NoPort} /\ call.strict \in BOOLEAN
  BY DEF Calls
<1>2. Port \subseteq Int /\ NoPort \in Int /\ NoPort \notin Port
  BY PortBounds DEF Port, NoPort
<1>3. ASSUME NEW p \in Port
      PROVE  /\ WithGrace(p, last) \in Seq(Int)
             /\ \A i \in 1..Len(WithGrace(p, last)) : WithGrace(p, last)[i] = p
             /\ Tries(WithGrace(p, last), p)
  <2> DEFINE n == IF p = last THEN GraceRetries + 1 ELSE 1
             f == [i \in 1..n |-> p]
  <2>1. n \in Nat /\ n >= 1
    BY PortBounds
  <2>2. WithGrace(p, last) = f
    BY DEF WithGrace
  <2> HIDE DEF n
  <2>3. f \in Seq(Int) /\ Len(f) = n /\ \A i \in 1..n : f[i] = p
    BY <1>2, <1>3, <2>1
  <2> QED
    BY <2>1, <2>2, <2>3 DEF Tries
<1> DEFINE wanted == IF call.want = NoPort THEN <<>> ELSE WithGrace(call.want, last)
           again == IF last \in {NoPort, call.want} THEN <<>> ELSE WithGrace(last, last)
           rest == IF call.strict THEN <<>> ELSE again \o Scan(call.want)
<1>4. wanted \in Seq(Int) /\ again \in Seq(Int)
  BY <1>1, <1>3
<1>5. Scan(call.want) \in Seq(Int)
  BY <1>1, ScanFinds
<1>6. again \o Scan(call.want) \in Seq(Int) /\ <<>> \in Seq(Int)
  BY <1>4, <1>5, Joined
<1>7. rest \in Seq(Int)
  BY <1>6
<1>8. Candidates(call, last) = wanted \o rest
  BY DEF Candidates
<1>9. ASSUME NEW p \in Port, p \in Eligible(call)
      PROVE  Tries(Candidates(call, last), p)
  <2>1. CASE call.strict
    <3>1. p = call.want /\ p # NoPort
      BY <1>2, <1>9, <2>1 DEF Eligible
    <3>2. Tries(wanted, p)
      BY <1>3, <3>1
    <3> HIDE DEF wanted, rest
    <3> QED
      BY <1>4, <1>7, <1>8, <3>2, Joined
  <2>2. CASE ~call.strict
    <3>1. p \in (Low..High) \ Avoid
      BY <1>9, <2>2 DEF Eligible
    <3>2. Tries(Scan(call.want), p)
      BY <1>1, <3>1, ScanFinds
    <3>3. Tries(again \o Scan(call.want), p)
      <4> HIDE DEF again
      <4> QED
        BY <1>4, <1>5, <3>2, Joined
    <3>4. rest = again \o Scan(call.want)
      BY <2>2
    <3>5. Tries(rest, p)
      BY <3>3, <3>4
    <3> HIDE DEF wanted, rest
    <3> QED
      BY <1>4, <1>7, <1>8, <3>5, Joined
  <2> QED
    BY <2>1, <2>2
<1>10. ASSUME last # NoPort
       PROVE  Leads(Candidates(call, last), call.want, last)
  <2>1. last \in Port
    BY <1>10
  <2>2. Leads(<<>>, call.want, last)
    BY DEF Leads
  <2>3. Leads(wanted, call.want, last)
    <3>1. \A i \in 1..Len(wanted) : wanted[i] = call.want
      BY <1>1, <1>3
    <3> HIDE DEF wanted
    <3> QED
      BY <3>1 DEF Leads
  <2>4. Leads(again, call.want, last)
    <3>1. \A i \in 1..Len(again) : again[i] = last
      BY <1>3, <2>1
    <3> HIDE DEF again
    <3> QED
      BY <3>1 DEF Leads
  <2>5. CASE call.want = last
    <3>1. Tries(wanted, last)
      BY <1>3, <2>1, <2>5, <1>10
    <3> HIDE DEF wanted, rest
    <3> QED
      BY <1>4, <1>7, <1>8, <2>3, <3>1, JoinedLeads
  <2>6. CASE call.want # last
    <3>1. Tries(again, last)
      BY <1>3, <1>10, <2>1, <2>6
    <3>2. Leads(again \o Scan(call.want), call.want, last)
      <4> HIDE DEF again
      <4> QED
        BY <1>4, <1>5, <2>4, <3>1, JoinedLeads
    <3>3. Leads(rest, call.want, last)
      BY <2>2, <3>2
    <3> HIDE DEF wanted, rest
    <3> QED
      BY <1>4, <1>7, <1>8, <2>3, <3>3, JoinedLeads
  <2> QED
    BY <2>5, <2>6
<1> HIDE DEF wanted, rest
<1>11. Candidates(call, last) \in Seq(Int)
  BY <1>4, <1>7, <1>8, Joined
<1> QED
  BY <1>9, <1>10, <1>11

\* The rest of the queue, and what a caller adds to it.
LEMMA QueueKept ==
  ASSUME IInv, SearchInv, queue # <<>>, queue' = Tail(queue)
  PROVE  \A i \in 1..Len(queue') : queue'[i].strict => queue'[i].want # NoPort
  BY Queues DEF IInv, SearchInv

LEMMA QueueGrown ==
  ASSUME IInv, SearchInv, NEW c \in Calls, Ask(c), c.strict => c.want # NoPort
  PROVE  /\ \A i \in 1..Len(queue') : queue'[i].strict => queue'[i].want # NoPort
         /\ queue # <<>> => Head(queue') = Head(queue)
         /\ queue # <<>> => queue' # Tail(queue)
<1>1. queue' = Append(queue, c) /\ queue \in Seq(Calls)
  BY DEF Ask, IInv, TypeOK
<1>2. queue # <<>> => Len(queue') # Len(Tail(queue))
  BY <1>1
<1> QED
  BY <1>2, Asking DEF IInv, SearchInv

\* An answer ends the call and leaves the memory as it was.
LEMMA AnswerEnds ==
  ASSUME IInv, AnswerInv, queue # <<>>, NEW p, Answer(p), had' = had, stored' = had, events' = events,
         \A q \in Project : loaded' => sticky'[q] = had[q],
         \A q \in Project, x \in Port : reserved'[x] = q => x = had[q]
  PROVE  AnswerInv'
<1>1. queue' = Tail(queue) /\ stage' = "idle" /\ todo' = <<>> /\ steady' = {}
  BY DEF Answer, Settle
<1>2. SearchInv'
  <2>1. <<>> \in Seq(Int)
    OBVIOUS
  <2> QED
    BY <1>1, <2>1, QueueKept DEF AnswerInv, SearchInv
<1>3. MemoryInv'
  BY <1>1 DEF MemoryInv, Saving
<1> QED
  BY <1>2, <1>3 DEF AnswerInv

\* A port under search is not the holder's alone: it goes on to the next one.
LEMMA NextPort ==
  ASSUME IInv, AnswerInv, stage \in {"check", "probe"}, todo # <<>>, todo[1] \notin steady,
         todo' = Tail(todo), stage' = "check",
         UNCHANGED <<reserved, sticky, loaded, stored, queue, run, busy, had, steady, events>>
  PROVE  AnswerInv'
<1>1. /\ todo \in Seq(Int) /\ Len(todo) \in Nat /\ Tail(todo) \in Seq(Int)
      /\ Len(Tail(todo)) = Len(todo) - 1
      /\ \A i \in 1..Len(Tail(todo)) : Tail(todo)[i] = todo[i + 1]
  BY DEF AnswerInv, SearchInv
<1>2. ASSUME NEW p \in steady, p \in Eligible(Head(queue))
      PROVE  Tries(todo', p)
  <2>1. PICK i \in 1..Len(todo) : todo[i] = p
    BY <1>2 DEF AnswerInv, SearchInv, Tries
  <2>2. i # 1
    BY <1>2, <2>1
  <2>3. i - 1 \in 1..Len(Tail(todo)) /\ Tail(todo)[i - 1] = p
    BY <1>1, <2>1, <2>2
  <2> QED
    BY <2>3 DEF Tries
<1>3. ASSUME Returns(Head(queue))
      PROVE  Leads(todo', Head(queue).want, had[Head(queue).project])
  <2> DEFINE last == had[Head(queue).project]
             want == Head(queue).want
  <2>1. Leads(todo, want, last) /\ todo[1] # last
    BY <1>3 DEF AnswerInv, SearchInv, Returns
  <2> HIDE DEF last, want
  <2> SUFFICES ASSUME NEW i \in 1..Len(Tail(todo)), Tail(todo)[i] \notin {want, last}
               PROVE  \E j \in 1..(i - 1) : Tail(todo)[j] = last
    BY DEF Leads, last, want
  <2>2. i + 1 \in 1..Len(todo) /\ todo[i + 1] \notin {want, last}
    BY <1>1
  <2>3. PICK j \in 1..i : todo[j] = last
    BY <2>1, <2>2 DEF Leads
  <2>4. j # 1
    BY <2>1, <2>3
  <2>5. j - 1 \in 1..(i - 1) /\ j - 1 \in 1..Len(Tail(todo)) /\ Tail(todo)[j - 1] = todo[j]
    BY <1>1, <2>3, <2>4
  <2> QED
    BY <2>3, <2>5
<1>4. \A p : Free(p)' <=> Free(p)
  BY DEF Free, Bound
<1>5. SearchInv'
  BY <1>1, <1>2, <1>3, <1>4 DEF AnswerInv, SearchInv, Eligible, Returns
<1>6. MemoryInv'
  BY DEF AnswerInv, MemoryInv, Saving
<1> QED
  BY <1>5, <1>6 DEF AnswerInv

\* A commit: the project holds this port and no other, and the store will be told.
LEMMA CommitAnswer ==
  ASSUME IInv, AnswerInv, queue # <<>>, stage # "save", NEW p \in Port,
         Reserve(Head(queue).project, p),
         stage' = "save", todo' = <<>> \/ todo' = todo,
         UNCHANGED <<loaded, stored, queue, had, steady, events>>,
         Head(queue).kind # "peek",
         Head(queue).kind = "allocate" /\ Returns(Head(queue)) =>
           p \in {Head(queue).want, had[Head(queue).project]}
  PROVE  AnswerInv'
<1> DEFINE q == Head(queue).project
<1>1. q \in Project
  BY Queues DEF IInv, Calls
<1>2. /\ sticky'[q] = p
      /\ \A o \in Project : o # q => sticky'[o] = sticky[o]
      /\ \A x \in Port, o \in Project :
           reserved'[x] = o => IF o = q THEN x = p ELSE reserved[x] = o
  BY <1>1, PortBounds DEF Reserve, IInv, TypeOK
<1>3. SearchInv'
  <2>1. todo' \in Seq(Int)
    <3>1. <<>> \in Seq(Int)
      OBVIOUS
    <3> QED
      BY <3>1 DEF AnswerInv, SearchInv
  <2> QED
    BY <2>1 DEF AnswerInv, SearchInv
<1>4. \A o \in Project : Saving(o)' <=> o = q
  BY DEF Saving
<1>5. \A o \in Project : ~Saving(o)
  BY DEF Saving
<1> HIDE DEF q
<1>6. \A o \in Project : loaded' /\ ~Saving(o)' => sticky'[o] = had'[o]
  BY <1>2, <1>4, <1>5 DEF AnswerInv, MemoryInv
<1>7. \A o \in Project, x \in Port : reserved'[x] = o => x = IF Saving(o)' THEN sticky'[o] ELSE had'[o]
  BY <1>2, <1>4, <1>5 DEF AnswerInv, MemoryInv
<1>8. Head(queue').kind = "allocate" /\ Returns(Head(queue))' =>
        sticky'[Head(queue').project] \in {Head(queue').want, had'[Head(queue').project]}
  BY <1>2 DEF Returns, q
<1>9. stored' = had'
  BY DEF AnswerInv, MemoryInv
<1> QED
  BY <1>3, <1>6, <1>7, <1>8, <1>9 DEF AnswerInv, MemoryInv

LEMMA AllocatorAnswers ==
  ASSUME IInv, AnswerInv, AllocatorStep
  PROVE  AnswerInv'
<1> DEFINE call == Head(queue)
           q == call.project
<1>0. /\ queue # <<>> => call \in Calls /\ q \in Project /\ (call.strict => call.want # NoPort)
      /\ had \in [Project -> Port \cup {NoPort}] /\ stored = had
      /\ sticky \in [Project -> Port \cup {NoPort}]
  BY Queues DEF IInv, TypeOK, AnswerInv, MemoryInv, SearchInv, Calls
<1>1. CASE BeginChoice
  <2>1. /\ stage = "idle" /\ queue # <<>> /\ loaded' = TRUE
        /\ UNCHANGED <<use, reserved, stored, busy, events>>
        /\ \A o \in Project : ~Saving(o)
    BY <1>1 DEF BeginChoice, Saving
  <2>2. \A o \in Project : sticky'[o] = had[o]
    BY <1>0, <1>1, <2>1 DEF BeginChoice, AnswerInv, MemoryInv
  <2>3. \A o \in Project, x \in Port : reserved[x] = o => x = had[o]
    BY <2>1 DEF AnswerInv, MemoryInv
  <2>4. ASSUME NEW p \in Port, reserved[p] = q, Answer(p)
        PROVE  AnswerInv'
    <3>1. p = had[q]
      BY <1>0, <2>1, <2>3, <2>4
    <3>2. had' = had
      BY <1>0, <2>1, <2>4, <3>1 DEF Answer
    <3> QED
      BY <1>0, <2>1, <2>2, <2>3, <2>4, <3>2, AnswerEnds
  <2>5. CASE /\ stage' = "check" /\ todo' = Candidates(call, sticky'[q])
             /\ steady' = {p \in Port : Free(p) /\ reserved[p] \in {Nobody, q}}
             /\ UNCHANGED <<queue, run, had>>
    <3>1. todo' = Candidates(call, had[q]) /\ had[q] \in Port \cup {NoPort}
      BY <1>0, <2>1, <2>2, <2>5
    <3>2. \A p : Free(p)' <=> Free(p)
      BY <2>1, <2>5 DEF Free, Bound
    <3>3. steady' \subseteq Port /\ NoPort \notin Port
      BY <2>5 DEF Port, NoPort
    <3>4. /\ todo' \in Seq(Int)
          /\ \A p \in steady' : p \in Eligible(call) => Tries(todo', p)
          /\ had[q] \in steady' => Leads(todo', call.want, had[q])
      BY <1>0, <2>1, <3>1, <3>3, CandidatesFind
    <3>5. SearchInv'
      BY <2>1, <2>5, <3>2, <3>4 DEF AnswerInv, SearchInv, Eligible, Returns
    <3>6. MemoryInv'
      BY <1>0, <2>1, <2>2, <2>3, <2>5 DEF MemoryInv, Saving
    <3> QED
      BY <3>5, <3>6 DEF AnswerInv
  <2> QED
    BY <1>1, <2>4, <2>5 DEF BeginChoice
<1>2. CASE Check
  <2>1. CASE stage' = "probe" /\ todo' = todo
    <3>1. \A p : Free(p)' <=> Free(p)
      BY <1>2 DEF Check, Free, Bound
    <3>2. SearchInv'
      BY <1>2, <2>1, <3>1 DEF Check, AnswerInv, SearchInv, Eligible, Returns
    <3>3. MemoryInv'
      BY <1>2, <2>1 DEF Check, AnswerInv, MemoryInv, Saving
    <3> QED
      BY <3>2, <3>3 DEF AnswerInv
  <2>2. CASE ~(Head(todo) \in Port /\ reserved[Head(todo)] \in {Nobody, q})
    <3>1. todo # <<>> /\ Head(todo) = todo[1]
      BY <1>2 DEF Check, AnswerInv, SearchInv
    <3>2. todo[1] \notin steady
      BY <1>2, <2>2, <3>1 DEF Check, AnswerInv, SearchInv, IInv, TypeOK
    <3>3. todo' = Tail(todo) /\ stage' = "check"
      BY <1>2, <2>2 DEF Check
    <3> QED
      BY <1>2, <3>1, <3>2, <3>3, NextPort DEF Check
  <2> QED
    BY <1>2, <2>1, <2>2 DEF Check
<1>3. CASE PassOver
  <2>1. todo # <<>> /\ Head(todo) = todo[1]
    BY <1>3 DEF PassOver, AnswerInv, SearchInv
  <2>2. todo[1] \notin steady
    BY <1>3, <2>1 DEF PassOver, AnswerInv, SearchInv
  <2> QED
    BY <1>3, <2>1, <2>2, NextPort DEF PassOver
<1>4. CASE Commit
  <2>1. queue # <<>> /\ Head(todo) \in Port /\ todo # <<>> /\ Head(todo) = todo[1]
    BY <1>4 DEF Commit, IInv, TypeOK, ProbeInv, AnswerInv, SearchInv
  <2>2. Returns(call) => Head(todo) \in {call.want, had[q]}
    <3>1. 1 \in 1..Len(todo) /\ 1..(1 - 1) = {}
      BY <2>1 DEF AnswerInv, SearchInv
    <3>2. Returns(call) => Leads(todo, call.want, had[q])
      BY <1>4 DEF Commit, AnswerInv, SearchInv
    <3> QED
      BY <2>1, <3>1, <3>2 DEF Leads
  <2> QED
    BY <1>4, <2>1, <2>2, CommitAnswer DEF Commit
<1>5. CASE Peeked
  <2>1. queue # <<>> /\ had' = had
    BY <1>5 DEF Peeked, Answer, IInv, TypeOK
  <2>2. \A o \in Project : ~Saving(o)
    BY <1>5 DEF Peeked, Saving
  <2>3. UNCHANGED <<use, reserved, sticky, loaded, stored, busy, events>> /\ Answer(Head(todo))
    BY <1>5 DEF Peeked
  <2> QED
    BY <1>0, <2>1, <2>2, <2>3, AnswerEnds DEF AnswerInv, MemoryInv
<1>6. CASE Exhausted
  <2>1. queue # <<>> /\ had' = had
    BY <1>6 DEF Exhausted, Answer, IInv, TypeOK
  <2>2. \A o \in Project : ~Saving(o)
    BY <1>6 DEF Exhausted, Saving
  <2>3. UNCHANGED <<use, reserved, sticky, loaded, stored, busy, events>> /\ Answer(NoPort)
    BY <1>6 DEF Exhausted
  <2> QED
    BY <1>0, <2>1, <2>2, <2>3, AnswerEnds DEF AnswerInv, MemoryInv
<1>7. CASE BeginAdopt
  <2>1. queue # <<>> /\ call.want \in Port
    BY <1>7, Queues DEF BeginAdopt, IInv, ProbeInv
  <2> QED
    BY <1>7, <2>1, CommitAnswer DEF BeginAdopt
<1>8. CASE Save
  <2>1. queue # <<>> /\ sticky[q] \in Port /\ call.kind # "peek"
    BY <1>8 DEF Save, IInv, TypeOK, ProbeInv, AnswerInv, MemoryInv
  <2>2. stored' = [had EXCEPT ![q] = sticky[q]]
    BY <1>0, <1>8 DEF Save
  <2>3. had' = [had EXCEPT ![q] = sticky[q]]
    BY <1>8, <2>1 DEF Save, Answer, Port, NoPort
  <2>4. /\ queue' = Tail(queue) /\ stage' = "idle" /\ todo' = <<>> /\ steady' = {}
        /\ UNCHANGED <<reserved, sticky, loaded, events>>
    BY <1>8 DEF Save, Answer, Settle
  <2>5. SearchInv'
    <3>1. <<>> \in Seq(Int)
      OBVIOUS
    <3> QED
      BY <2>1, <2>4, <3>1, QueueKept DEF AnswerInv, SearchInv
  <2>6. \A o \in Project : Saving(o) <=> o = q
    BY <1>8 DEF Save, Saving
  <2>7. \A o \in Project : had'[o] = IF o = q THEN sticky[o] ELSE had[o]
    BY <1>0, <2>1, <2>3
  <2> HIDE DEF q
  <2>8. MemoryInv'
    BY <2>2, <2>3, <2>4, <2>6, <2>7 DEF AnswerInv, MemoryInv, Saving
  <2> QED
    BY <2>5, <2>8 DEF AnswerInv
<1> QED
  BY <1>1, <1>2, <1>3, <1>4, <1>5, <1>6, <1>7, <1>8 DEF AllocatorStep

\* Whoever does not hold the lock takes no port that counts as steady any more and adds
\* no reservation, so the search and the memory stay right.
LEMMA OutsideAnswers ==
  ASSUME IInv, AnswerInv, UNCHANGED <<sticky, loaded, stored, stage, todo, had>>,
         \A x \in Port : reserved'[x] \in {reserved[x], Nobody},
         queue # <<>> => Head(queue') = Head(queue),
         \A i \in 1..Len(queue') : queue'[i].strict => queue'[i].want # NoPort,
         steady' \subseteq steady, \A p \in steady' : Free(p) => Free(p)', events' \in Nat
  PROVE  AnswerInv'
<1>1. stage \in {"idle", "check", "probe", "save"} /\ (stage # "idle" => Head(queue') = Head(queue))
  BY DEF IInv, TypeOK
<1>2. steady \subseteq Port
  BY DEF IInv, TypeOK
<1>3. SearchInv'
  BY <1>1, <1>2 DEF AnswerInv, SearchInv, Eligible, Returns
<1>4. \A q : Saving(q)' <=> Saving(q)
  BY <1>1 DEF Saving
<1>5. \A q \in Project, p \in Port :
        reserved'[p] = q => p = IF Saving(q) THEN sticky[q] ELSE had[q]
  <2>1. \A q \in Project, p \in Port : reserved'[p] = q => reserved[p] = q
    BY PortBounds
  <2> QED
    BY <2>1 DEF AnswerInv, MemoryInv
<1>6. MemoryInv'
  BY <1>1, <1>4, <1>5 DEF AnswerInv, MemoryInv, Returns
<1> QED
  BY <1>3, <1>6 DEF AnswerInv

LEMMA QueueSame ==
  ASSUME IInv, AnswerInv, queue' = queue
  PROVE  /\ \A i \in 1..Len(queue') : queue'[i].strict => queue'[i].want # NoPort
         /\ queue # <<>> => Head(queue') = Head(queue)
         /\ queue # <<>> => queue' # Tail(queue)
<1>1. queue # <<>> => Len(Tail(queue)) # Len(queue)
  BY DEF IInv, TypeOK
<1> QED
  BY <1>1 DEF AnswerInv, SearchInv

\* A deployment listens on no port but a new one, which is not steady from then on.
LEMMA StillFree ==
  ASSUME IInv, NEW r \in Run, NEW n, run' = [run EXCEPT ![r] = n], busy' = busy,
         steady' \subseteq Port, n.bound \in {run[r].bound, NoPort} \/ n.bound \notin steady'
  PROVE  \A p \in steady' : Free(p) => Free(p)'
<1>1. /\ run'[r] = n
      /\ \A o \in Run : o # r => run'[o] = run[o]
  BY DEF IInv, TypeOK
<1>2. NoPort \notin Port
  BY DEF Port, NoPort
<1> QED
  BY <1>1, <1>2 DEF Free, Bound

LEMMA EngineAnswers ==
  ASSUME IInv, AnswerInv, NEW r \in Run, EngineStep(r)
  PROVE  AnswerInv' /\ had' = had /\ (queue # <<>> => queue' # Tail(queue))
<1> DEFINE old == run[r]
<1>0. /\ old \in Runs /\ steady \subseteq Port /\ r \in 0..MaxRuns /\ events \in Nat
      /\ (old.pc # "none" \/ old.down # "no" => old.project \in Project)
      /\ \A x \in Port : reserved[x] \in {reserved[x], Nobody}
  BY PortBounds DEF IInv, TypeOK, RunInv, Run, AnswerInv, SearchInv
<1>1. ASSUME NEW q \in Project, Unreserve(q)
      PROVE  \A x \in Port : reserved'[x] \in {reserved[x], Nobody}
  BY <1>1, Unreserving DEF IInv
<1>2. \A o \in Runs : Over(o).bound = o.bound /\ Thrown(o).bound = o.bound
  BY DEF Over, Thrown, NewRun, Runs
<1>3. ASSUME NEW n, run' = [run EXCEPT ![r] = n],
             n.bound \in {old.bound, NoPort} \/ n.bound \notin steady',
             steady' \subseteq steady,
             UNCHANGED <<sticky, loaded, stored, stage, todo, busy, had, events>>,
             reserved' = reserved \/ \E q \in Project : Unreserve(q),
             queue' = queue \/ \E c \in Calls : Ask(c) /\ (c.strict => c.want # NoPort)
      PROVE  AnswerInv' /\ had' = had /\ (queue # <<>> => queue' # Tail(queue))
  <2>1. /\ \A i \in 1..Len(queue') : queue'[i].strict => queue'[i].want # NoPort
        /\ queue # <<>> => Head(queue') = Head(queue)
        /\ queue # <<>> => queue' # Tail(queue)
    BY <1>3, QueueSame, QueueGrown DEF AnswerInv
  <2>2. \A x \in Port : reserved'[x] \in {reserved[x], Nobody}
    BY <1>0, <1>1, <1>3
  <2>3. \A p \in steady' : Free(p) => Free(p)'
    BY <1>0, <1>3, StillFree
  <2> QED
    BY <1>0, <1>3, <2>1, <2>2, <2>3, OutsideAnswers
<1>4. ASSUME NEW q \in Project, NEW want \in Preferred \cup {NoPort}, NEW explicit \in BOOLEAN,
             Start(r, q, want, explicit)
      PROVE  AnswerInv' /\ had' = had /\ (queue # <<>> => queue' # Tail(queue))
  <2> DEFINE n == [NewRun EXCEPT !.project = q, !.want = want, !.explicit = explicit, !.pc = "asked"]
             c == Call(r, "allocate", q, want, explicit)
  <2>1. n.bound = NoPort
    BY DEF NewRun
  <2>2. c \in Calls /\ c.strict = explicit /\ c.want = want
    BY <1>0, PortBounds DEF Call, Calls, Port
  <2>3. explicit => want # NoPort
    BY <1>4 DEF Start
  <2> HIDE DEF n, c
  <2>4. run' = [run EXCEPT ![r] = n] /\ Ask(c)
    BY <1>4 DEF Start, n, c
  <2> QED
    BY <1>3, <1>4, <2>1, <2>2, <2>3, <2>4 DEF Start
<1>5. CASE Listen(r)
  <2> DEFINE n == [old EXCEPT !.pc = "running", !.bound = old.port]
  <2>1. n.bound = old.port
    BY <1>0 DEF Runs
  <2>2. run' = [run EXCEPT ![r] = n]
    BY <1>0, <1>5 DEF Listen, IInv, TypeOK
  <2> HIDE DEF n
  <2> QED
    BY <1>3, <1>5, <2>1, <2>2 DEF Listen, allocator
<1>6. CASE ListenFails(r)
  <2>1. old.project \in Project /\ Thrown(old).bound = old.bound
    BY <1>0, <1>2, <1>6 DEF ListenFails
  <2>2. CASE run' = [run EXCEPT ![r] = Thrown(old)] /\ UNCHANGED queue
    BY <1>3, <1>6, <2>1, <2>2 DEF ListenFails
  <2>3. CASE /\ Unreserve(old.project)
             /\ run' = [run EXCEPT ![r].pc = "asked", ![r].attempt = @ + 1]
             /\ Ask(Call(r, "allocate", old.project, old.want, FALSE))
    <3> DEFINE n == [old EXCEPT !.pc = "asked", !.attempt = old.attempt + 1]
               c == Call(r, "allocate", old.project, old.want, FALSE)
    <3>1. n.bound = old.bound
      BY <1>0 DEF Runs
    <3>2. run' = [run EXCEPT ![r] = n]
      BY <1>0, <2>3 DEF IInv, TypeOK
    <3>3. c \in Calls /\ ~c.strict
      BY <1>0, <2>1 DEF Call, Calls, Runs
    <3> HIDE DEF n, c
    <3>4. Ask(c)
      BY <2>3 DEF c
    <3> QED
      BY <1>3, <1>6, <2>1, <2>3, <3>1, <3>2, <3>3, <3>4 DEF ListenFails
  <2> QED
    BY <1>6, <2>2, <2>3 DEF ListenFails
<1>7. ASSUME NEW p \in Port, AppListens(r, p)
      PROVE  AnswerInv' /\ had' = had /\ (queue # <<>> => queue' # Tail(queue))
  <2> DEFINE n == [old EXCEPT !.pc = IF p = old.port THEN "running" ELSE "astray", !.bound = p]
  <2>1. n.bound = p
    BY <1>0 DEF Runs
  <2>2. run' = [run EXCEPT ![r] = n]
    BY <1>0, <1>7 DEF AppListens, IInv, TypeOK
  <2> HIDE DEF n
  <2> QED
    BY <1>3, <1>7, <2>1, <2>2 DEF AppListens, allocator
<1>8. CASE Discover(r)
  <2> DEFINE n == [old EXCEPT !.pc = "found", !.port = old.bound]
  <2>1. n.bound = old.bound
    BY <1>0 DEF Runs
  <2>2. run' = [run EXCEPT ![r] = n]
    BY <1>0, <1>8 DEF Discover, IInv, TypeOK
  <2> HIDE DEF n
  <2> QED
    BY <1>3, <1>8, <2>1, <2>2 DEF Discover, allocator
<1>9. CASE Adopt(r)
  <2> DEFINE n == [old EXCEPT !.pc = "asked"]
             c == Call(r, "adopt", old.project, old.port, FALSE)
  <2>1. n.bound = old.bound
    BY <1>0 DEF Runs
  <2>2. run' = [run EXCEPT ![r] = n]
    BY <1>0, <1>9 DEF Adopt, IInv, TypeOK
  <2>3. c \in Calls /\ ~c.strict
    BY <1>0, <1>9 DEF Adopt, Call, Calls, Runs
  <2> HIDE DEF n, c
  <2>4. Ask(c)
    BY <1>9 DEF Adopt, c
  <2> QED
    BY <1>3, <1>9, <2>1, <2>2, <2>3, <2>4 DEF Adopt
<1>10. CASE AppFails(r)
  <2> DEFINE o == [old EXCEPT !.bound = NoPort]
  <2>1. o \in Runs /\ o.bound = NoPort
    BY <1>0 DEF Runs
  <2>2. Thrown(o).bound = NoPort
    BY <1>2, <2>1
  <2> HIDE DEF o
  <2>3. run' = [run EXCEPT ![r] = Thrown(o)]
    BY <1>10 DEF AppFails, o
  <2> QED
    BY <1>3, <1>10, <2>2, <2>3 DEF AppFails, allocator
<1>11. CASE AppExits(r)
  <2> DEFINE n == [old EXCEPT !.bound = NoPort]
  <2>1. n.bound = NoPort
    BY <1>0 DEF Runs
  <2>2. run' = [run EXCEPT ![r] = n]
    BY <1>0, <1>11 DEF AppExits, IInv, TypeOK
  <2> HIDE DEF n
  <2> QED
    BY <1>3, <1>11, <2>1, <2>2 DEF AppExits, allocator
<1>12. CASE FailRelease(r)
  <2>1. old.project \in Project /\ Over(old).bound = old.bound
    BY <1>0, <1>2, <1>12 DEF FailRelease
  <2> QED
    BY <1>3, <1>12, <2>1 DEF FailRelease
<1>13. CASE Stop(r)
  <2> DEFINE closed == [old EXCEPT !.down = "closing", !.bound = NoPort]
             n == IF old.pc = "running" THEN Over(closed) ELSE closed
  <2>1. closed \in Runs /\ closed.bound = NoPort
    BY <1>0 DEF Runs
  <2>2. n.bound = NoPort
    BY <1>2, <2>1
  <2>3. run' = [run EXCEPT ![r] = n]
    BY <1>13 DEF Stop
  <2> HIDE DEF n
  <2> QED
    BY <1>3, <1>13, <2>2, <2>3 DEF Stop, allocator
<1>14. CASE TeardownRelease(r)
  <2> DEFINE n == [old EXCEPT !.down = "down"]
  <2>1. n.bound = old.bound /\ old.project \in Project
    BY <1>0, <1>14 DEF TeardownRelease, Runs
  <2>2. run' = [run EXCEPT ![r] = n]
    BY <1>0, <1>14 DEF TeardownRelease, IInv, TypeOK
  <2> HIDE DEF n
  <2> QED
    BY <1>3, <1>14, <2>1, <2>2 DEF TeardownRelease
<1> QED
  BY <1>4, <1>5, <1>6, <1>7, <1>8, <1>9, <1>10, <1>11, <1>12, <1>13, <1>14 DEF EngineStep

LEMMA OtherAnswers ==
  ASSUME IInv, AnswerInv, (\E q \in Project : Peek(q)) \/ Others \/ UNCHANGED vars
  PROVE  AnswerInv' /\ had' = had /\ (queue # <<>> => queue' # Tail(queue))
<1>0. events \in Nat /\ \A x \in Port : reserved[x] \in {reserved[x], Nobody}
  BY DEF AnswerInv, SearchInv
<1>1. ASSUME NEW q \in Project, Peek(q)
      PROVE  AnswerInv' /\ had' = had /\ (queue # <<>> => queue' # Tail(queue))
  <2> DEFINE c == Call(0, "peek", q, NoPort, FALSE)
  <2>1. c \in Calls /\ ~c.strict
    BY PortBounds DEF Call, Calls
  <2> HIDE DEF c
  <2>2. /\ Ask(c) /\ events' = events + 1
        /\ UNCHANGED <<use, reserved, sticky, loaded, stored, stage, todo, run, busy, had, steady>>
    BY <1>1 DEF Peek, c
  <2>3. \A p : Free(p)' <=> Free(p)
    BY <2>2 DEF Free, Bound
  <2>4. /\ \A i \in 1..Len(queue') : queue'[i].strict => queue'[i].want # NoPort
        /\ queue # <<>> => Head(queue') = Head(queue)
        /\ queue # <<>> => queue' # Tail(queue)
    BY <2>1, <2>2, QueueGrown DEF AnswerInv
  <2> QED
    BY <1>0, <2>2, <2>3, <2>4, OutsideAnswers
<1>2. ASSUME Others \/ UNCHANGED vars
      PROVE  AnswerInv' /\ had' = had /\ (queue # <<>> => queue' # Tail(queue))
  <2>1. UNCHANGED <<use, allocator, run, events, had>>
    BY <1>2 DEF Others, vars, allocator
  <2>2. steady' \subseteq steady /\ \A p \in steady' : Free(p) => Free(p)'
    BY <1>2 DEF Others, vars, allocator, Free, Bound
  <2> QED
    BY <1>0, <2>1, <2>2, QueueSame, OutsideAnswers DEF allocator
<1> QED
  BY <1>1, <1>2

LEMMA RestartAnswers ==
  ASSUME IInv, AnswerInv, Restart
  PROVE  AnswerInv' /\ events' # events
<1>1. events \in Nat /\ events' = events + 1
  BY DEF Restart, AnswerInv, SearchInv
<1>2. /\ stage' = "idle" /\ steady' = {} /\ todo' = <<>> /\ 1..Len(queue') = {}
      /\ ~loaded' /\ \A p \in Port : reserved'[p] = Nobody
      /\ stored' = had'
  BY EmptyQueue DEF Restart, AnswerInv, MemoryInv
<1>3. <<>> \in Seq(Int)
  OBVIOUS
<1>4. SearchInv'
  BY <1>1, <1>2, <1>3 DEF SearchInv
<1>5. MemoryInv'
  BY <1>2, PortBounds DEF MemoryInv
<1> QED
  BY <1>1, <1>4, <1>5 DEF AnswerInv

LEMMA AnswersStep ==
  ASSUME IInv, AnswerInv, [Next]_vars
  PROVE  AnswerInv'
  BY AllocatorAnswers, EngineAnswers, OtherAnswers, RestartAnswers DEF Next

LEMMA AnswersInit == Init => AnswerInv
<1> SUFFICES ASSUME Init PROVE AnswerInv
  OBVIOUS
<1>1. queue = <<>> /\ 1..Len(queue) = {} /\ todo = <<>> /\ <<>> \in Seq(Int)
  BY DEF Init
<1>2. SearchInv
  BY <1>1 DEF Init, SearchInv
<1>3. MemoryInv
  BY PortBounds DEF Init, MemoryInv, Saving
<1> QED
  BY <1>2, <1>3 DEF AnswerInv

\* Only the steps of the allocator answer a call.
LEMMA WhoAnswers ==
  ASSUME IInv, AnswerInv, [Next]_vars, Answered
  PROVE  AllocatorStep
<1>1. queue # <<>> /\ queue' = Tail(queue) /\ events' = events
  BY DEF Answered
<1> QED
  BY <1>1, EngineAnswers, OtherAnswers, RestartAnswers DEF Next

\* Nothing but the port a call prefers takes the place of the one its project was last
\* given, if that was free during the whole call, across releases, retries and restarts of
\* the daemon: the memory and the store name it, and it is probed before the scan.
THEOREM PortsKept == Spec => KeepsItsPort
<1> DEFINE Kept ==
      Answered =>
       LET call == Head(queue)
       IN (call.kind = "allocate" /\ had[call.project] \in steady)
            => had'[call.project] \in {had[call.project], call.want}
<1>1. IInv /\ AnswerInv /\ [Next]_vars => [Kept]_vars
  <2> SUFFICES ASSUME IInv, AnswerInv, [Next]_vars, Answered,
                      Head(queue).kind = "allocate", Returns(Head(queue))
               PROVE  had'[Head(queue).project]
                        \in {had[Head(queue).project], Head(queue).want}
    BY DEF Returns
  <2> DEFINE q == Head(queue).project
  <2>1. queue # <<>> /\ queue' = Tail(queue) /\ q \in Project
    BY Queues DEF Answered, IInv, Calls
  <2>2. had[q] \in steady /\ had \in [Project -> Port \cup {NoPort}]
    BY DEF Returns, IInv, TypeOK
  <2>3. stage # "idle"
    BY <2>2 DEF AnswerInv, SearchInv
  <2>4. AllocatorStep
    BY WhoAnswers
  <2>5. CASE Exhausted
    BY <2>5 DEF Exhausted, Answer
  <2>6. CASE Save
    BY <2>1, <2>2, <2>6 DEF Save, Answer, AnswerInv, MemoryInv
  <2> QED
    BY <2>3, <2>4, <2>5, <2>6
    DEF AllocatorStep, BeginChoice, Check, PassOver, Commit, Peeked, BeginAdopt
<1> QED
  BY <1>1, InitInv, StepInv, AnswersInit, AnswersStep, PTL DEF Spec, KeepsItsPort, Kept

\* A call throws only if every port it may answer was taken at some time during it: the
\* scan has probed each one, those at the edges of the range included.
THEOREM PortsNotMissed == Spec => MissesNoFreePort
<1> DEFINE Searched ==
      Answered /\ stage = "check" =>
       LET call == Head(queue)
       IN steady \cap (IF call.strict THEN {call.want} ELSE (Low..High) \ Avoid) = {}
<1>1. IInv /\ AnswerInv /\ [Next]_vars => [Searched]_vars
  <2> SUFFICES ASSUME IInv, AnswerInv, [Next]_vars, Answered, stage = "check"
               PROVE  steady \cap Eligible(Head(queue)) = {}
    BY DEF Eligible
  <2>1. queue # <<>> /\ queue' = Tail(queue) /\ queue' # queue
    BY QueueSame DEF Answered
  <2>2. AllocatorStep
    BY WhoAnswers
  <2>3. todo = <<>>
    BY <2>1, <2>2
    DEF AllocatorStep, BeginChoice, Check, PassOver, Commit, Peeked, Exhausted, BeginAdopt, Save
  <2>4. \A p \in steady \cap Eligible(Head(queue)) : Tries(todo, p)
    BY DEF AnswerInv, SearchInv
  <2>5. 1..Len(todo) = {}
    BY <2>3
  <2> QED
    BY <2>4, <2>5 DEF Tries
<1> QED
  BY <1>1, InitInv, StepInv, AnswersInit, AnswersStep, PTL DEF Spec, MissesNoFreePort, Searched
=============================================================================
