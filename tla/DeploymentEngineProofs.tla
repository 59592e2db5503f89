----------------------- MODULE DeploymentEngineProofs -----------------------
(***************************************************************************)
(* For every number of deployments, instances, threads and retries.        *)
(*                                                                         *)
(* First part: the types, that a project has one unfinished deployment,    *)
(* that the records of a deployment fit its state (Consistent), that a     *)
(* stop is final, and that the row of a finished deployment stays.  The    *)
(* invariant is IInv, that is TypeOK and Consistent; every step is shown   *)
(* to keep it, and to move the record and the row of each deployment only  *)
(* along Follows and RowFollows.                                           *)
(*                                                                         *)
(* Second part: that a deployment has one process, that its gateway        *)
(* forwards only while it serves, and that it is STOPPED only after its    *)
(* process, but for processes that kill() has given up on.  The invariant  *)
(* is IInv and PInv, which says of each deployment what its driver, its    *)
(* teardown, its process and its gateway know of each other.               *)
(*                                                                         *)
(* Third part: that a deployment can be reached while it is live, unless   *)
(* an older one has robbed it.  The invariant adds Reach, what a launch    *)
(* has secured so far.                                                     *)
(***************************************************************************)
EXTENDS DeploymentEngine, TLAPS

-----------------------------------------------------------------------------
(* The states                                                              *)

LEMMA StatesListed ==
  DeploymentState =
    {"CREATED", "DISCOVERING", "RESOLVING", "PREPARING", "INSTALLING", "BUILDING",
     "ALLOCATING", "STARTING", "HEALTH_CHECKING", "REGISTERING", "EXPOSING", "LIVE",
     "RESTARTING", "STOPPING", "STOPPED", "FAILED"}
<1>1. DOMAIN PIPELINE = 1..12
  BY DEF PIPELINE
<1>2. {Stage(i) : i \in 1..12} =
        {"CREATED", "DISCOVERING", "RESOLVING", "PREPARING", "INSTALLING", "BUILDING",
         "ALLOCATING", "STARTING", "HEALTH_CHECKING", "REGISTERING", "EXPOSING", "LIVE"}
  BY DEF PIPELINE, Stage
<1> QED
  BY <1>1, <1>2 DEF DeploymentState

LEMMA TerminalIsFinal ==
  ASSUME NEW from, NEW to, from \in Terminal, CanTransition(from, to)
  PROVE  to \in {"RESTARTING", "CREATED", "STOPPED"}
<1>1. DOMAIN PIPELINE = 1..12
  BY DEF PIPELINE
<1>2. \A i \in 1..12 : Stage(i) \notin Terminal
  BY DEF PIPELINE, Stage, Terminal
<1>3. <<from, to>> \notin Forward
  BY <1>1, <1>2 DEF Forward
<1>4. <<from, to>> \notin Interrupted
  BY DEF Interrupted
<1> QED
  BY <1>3, <1>4 DEF CanTransition, Transitions, Terminal

-----------------------------------------------------------------------------
(***************************************************************************)
(* The inductive invariant, in parts, and what one step does to one record *)
(***************************************************************************)
ThreadsOK ==
  /\ thr \in [Thread -> ThreadRecord]
  /\ \A t \in Thread :
       /\ thr[t].pc # "idle" => thr[t].dep \in 1..made
       /\ thr[t].pc \in Spawned => thr[t].inst \in Instance
ProcessesOK ==
  /\ owner \in [Instance -> 0..MaxDeployments]
  /\ alive \subseteq Instance
  /\ \A i \in alive : owner[i] \in 1..made
NetOK ==
  /\ killing \in [Instance -> Sent]
  /\ listening \subseteq Instance
  /\ reserved \subseteq {"share", "app"}
  /\ route \in 0..MaxDeployments
  /\ robbed \subseteq Deployment
TeardownsOK ==
  /\ td \in [Deployment -> Teardown]
  /\ \A d \in Deployment : td[d].pc # "idle" => d \in 1..made /\ dep[d].stopping

Sane(e) ==
  /\ e \in LiveRecord
  /\ e.stopping => e.state \in {"STOPPING", "STOPPED", "FAILED"}
  /\ e.forget => IsTerminal(e.state)
RecordsOK ==
  /\ made \in 0..MaxDeployments
  /\ live \in 0..made
  /\ dep \in [Deployment -> LiveRecord]
  /\ row \in [Deployment -> RowRecord]
  /\ \A d \in Deployment :
       /\ Sane(dep[d])
       /\ d > made => dep[d] = NewLive
       /\ row[d].state \in Terminal => IsTerminal(dep[d].state)
  /\ \A d \in 1..made : ~IsTerminal(dep[d].state) => live = d

IInv == RecordsOK /\ TeardownsOK /\ ThreadsOK /\ ProcessesOK /\ NetOK

\* What a step may do to the Live record of d, and to its row.
Follows(d, e) ==
  /\ Sane(e)
  /\ IsTerminal(dep[d].state) => IsTerminal(e.state)
  /\ dep[d].stopping => /\ e.stopping
                        /\ e.state \in {dep[d].state, "STOPPED", "FAILED"}
                        /\ e.available => dep[d].available
RowFollows(d, r, e) ==
  /\ r \in RowRecord
  /\ r.state \in Terminal => IsTerminal(e.state)
  /\ row[d].state \in Terminal => r.state = row[d].state

RecordStep(d) ==
  /\ dep' = [dep EXCEPT ![d] = dep'[d]]
  /\ row' = [row EXCEPT ![d] = row'[d]]
  /\ Follows(d, dep'[d])
  /\ RowFollows(d, row'[d], dep'[d])

\* The stages a run of launch() or of the pipeline may enter.
Running == {"DISCOVERING", "RESOLVING", "PREPARING", "INSTALLING", "BUILDING", "ALLOCATING",
            "STARTING", "HEALTH_CHECKING", "REGISTERING", "EXPOSING", "LIVE"}

LEMMA IInvIsConsistent == IInv <=> TypeOK /\ Consistent
<1>1. ASSUME IInv PROVE TypeOK
  BY <1>1, EngineBounds DEF IInv, TypeOK, RecordsOK, TeardownsOK, ThreadsOK, ProcessesOK, NetOK
<1>2. ASSUME IInv PROVE Consistent
  BY <1>2 DEF IInv, Consistent, RecordsOK, TeardownsOK, ThreadsOK, ProcessesOK, Sane,
              OneDeploymentAtATime
<1>3. ASSUME TypeOK, Consistent PROVE IInv
  <2>1. \A d \in Deployment : Sane(dep[d])
    BY <1>3 DEF TypeOK, Consistent, Sane
  <2> QED
    BY <1>3, <2>1 DEF IInv, TypeOK, Consistent, RecordsOK, TeardownsOK, ThreadsOK,
                      ProcessesOK, NetOK, OneDeploymentAtATime
<1> QED
  BY <1>1, <1>2, <1>3

LEMMA MadeIsDeployment ==
  ASSUME IInv
  PROVE  1..made \subseteq Deployment
  BY EngineBounds DEF IInv, RecordsOK, Deployment

\* A transition to a running stage starts from an unfinished deployment nobody stops.
LEMMA EnterFollows ==
  ASSUME NEW d, NEW e, Follows(d, e), NEW to \in Running \cup {"FAILED"}, MayEnter(e, to)
  PROVE  ~e.stopping /\ ~e.forget /\ ~IsTerminal(e.state)
         /\ ~dep[d].stopping /\ ~IsTerminal(dep[d].state)
<1>1. ~e.stopping
  BY DEF MayEnter, Running
<1>2. ~IsTerminal(e.state)
  <2> SUFFICES ASSUME e.state \in Terminal PROVE FALSE
    BY DEF IsTerminal
  <2> QED
    BY TerminalIsFinal DEF MayEnter, Running
<1> QED
  BY <1>1, <1>2 DEF Follows, Sane

\* From there any record that is neither stopping nor forgotten will do.
LEMMA FreeFollows ==
  ASSUME NEW d, ~dep[d].stopping, ~IsTerminal(dep[d].state),
         NEW e \in LiveRecord, ~e.stopping, ~e.forget
  PROVE  Follows(d, e)
  BY DEF Follows, Sane

\* And a record that keeps its state can close the gateway and drop its timers.
LEMMA SameFollows ==
  ASSUME IInv, NEW d \in 1..made, NEW e \in LiveRecord, e.state = dep[d].state,
         e.stopping = dep[d].stopping, e.forget => dep[d].forget,
         e.available => dep[d].available
  PROVE  Follows(d, e)
<1>1. Sane(dep[d])
  BY MadeIsDeployment DEF IInv, RecordsOK
<1> QED
  BY <1>1 DEF Follows, Sane

(***************************************************************************)
(* Steps of a suspended run: one deployment's records, threads and network *)
(***************************************************************************)
PipelineStep(d) ==
  /\ UNCHANGED api
  /\ RecordStep(d)
  /\ ThreadsOK'
  /\ NetOK'

\* The rows a step may write: left alone, mirroring the record, or set by the caller.
LEMMA RowLeftAlone ==
  ASSUME IInv, NEW d \in 1..made, NEW e, Follows(d, e)
  PROVE  RowFollows(d, row[d], e)
  BY MadeIsDeployment DEF IInv, RecordsOK, RowFollows, Follows

LEMMA WriteStep ==
  ASSUME IInv, NEW d \in 1..made, NEW e, Follows(d, e), Write(d, e)
  PROVE  RecordStep(d)
<1>1. d \in Deployment /\ dep'[d] = e /\ row'[d] = row[d] /\ row \in [Deployment -> RowRecord]
      /\ dep \in [Deployment -> LiveRecord]
  BY MadeIsDeployment DEF Write, IInv, RecordsOK
<1>2. row' = [row EXCEPT ![d] = row'[d]]
  BY <1>1 DEF Write
<1>3. dep' = [dep EXCEPT ![d] = dep'[d]]
  BY <1>1 DEF Write
<1> QED
  BY <1>1, <1>2, <1>3, RowLeftAlone DEF RecordStep

LEMMA SaveStep ==
  ASSUME IInv, NEW d \in 1..made, NEW e, Follows(d, e), Save(d, e),
         row[d].state \in Terminal => e.state = row[d].state
  PROVE  RecordStep(d)
<1>1. d \in Deployment /\ dep'[d] = e /\ row \in [Deployment -> RowRecord]
      /\ dep \in [Deployment -> LiveRecord] /\ e \in LiveRecord
  BY MadeIsDeployment DEF Save, IInv, RecordsOK, Follows, Sane
<1>2. dep' = [dep EXCEPT ![d] = dep'[d]]
  BY <1>1 DEF Save
<1>3. CASE Persisted(d)
  <2>1. row'[d] = [row[d] EXCEPT !.state = e.state] /\ row' = [row EXCEPT ![d] = row'[d]]
    BY <1>1, <1>3 DEF Save
  <2>2. row'[d] \in RowRecord /\ row'[d].state = e.state
    BY <1>1, <2>1 DEF RowRecord, LiveRecord
  <2> QED
    BY <1>1, <1>2, <2>1, <2>2 DEF RecordStep, RowFollows, IsTerminal
<1>4. CASE ~Persisted(d)
  <2>1. row'[d] = row[d] /\ row' = [row EXCEPT ![d] = row'[d]]
    BY <1>1, <1>4 DEF Save
  <2> QED
    BY <1>1, <1>2, <2>1, RowLeftAlone DEF RecordStep
<1> QED
  BY <1>3, <1>4

\* Every record, and every row, does only what Follows and RowFollows allow.
AllFollow == \A d \in Deployment : Follows(d, dep'[d]) /\ RowFollows(d, row'[d], dep'[d])

LEMMA OthersFollow ==
  ASSUME IInv, NEW d \in Deployment, dep'[d] = dep[d], row'[d] = row[d]
  PROVE  Follows(d, dep'[d]) /\ RowFollows(d, row'[d], dep'[d])
  BY DEF Follows, RowFollows, IInv, RecordsOK, Sane

LEMMA RecordsPreserved ==
  ASSUME IInv, NEW d \in 1..made, made' = made, live' = live, RecordStep(d)
  PROVE  RecordsOK' /\ AllFollow
<1>1. d \in Deployment /\ dep \in [Deployment -> LiveRecord] /\ row \in [Deployment -> RowRecord]
  BY MadeIsDeployment DEF IInv, RecordsOK
<1>2. dep' \in [Deployment -> LiveRecord] /\ row' \in [Deployment -> RowRecord]
  BY <1>1 DEF RecordStep, Follows, RowFollows, Sane
<1>3. \A c \in Deployment : c # d => dep'[c] = dep[c] /\ row'[c] = row[c]
  BY <1>1 DEF RecordStep
<1>4. Follows(d, dep'[d]) /\ RowFollows(d, row'[d], dep'[d])
  BY DEF RecordStep
<1>5. AllFollow
  BY <1>3, <1>4, OthersFollow DEF AllFollow
<1>6. \A c \in Deployment : c > made => dep'[c] = NewLive
  BY <1>3, EngineBounds DEF IInv, RecordsOK
<1>7. \A c \in 1..made : ~IsTerminal(dep'[c].state) => live = c
  BY <1>3, <1>4, MadeIsDeployment DEF Follows, IInv, RecordsOK
<1>8. \A c \in Deployment : Sane(dep'[c]) /\ (row'[c].state \in Terminal => IsTerminal(dep'[c].state))
  BY <1>5 DEF AllFollow, Follows, RowFollows
<1> QED
  BY <1>2, <1>5, <1>6, <1>7, <1>8 DEF RecordsOK, IInv

LEMMA PipelinePreserves ==
  ASSUME IInv, NEW d \in 1..made, PipelineStep(d), ProcessesOK'
  PROVE  IInv' /\ AllFollow
<1>1. RecordsOK' /\ AllFollow /\ td' = td /\ made' = made
  BY RecordsPreserved DEF PipelineStep, api
<1>2. TeardownsOK'
  BY <1>1 DEF TeardownsOK, IInv, AllFollow, Follows
<1> QED
  BY <1>1, <1>2 DEF IInv, PipelineStep

(***************************************************************************)
(* fail()                                                                  *)
(***************************************************************************)
LEMMA HostedFollows ==
  ASSUME NEW d, NEW e, Follows(d, e), NEW status \in Hosting
  PROVE  Follows(d, Hosted(e, status))
  BY DEF Hosted, Follows, Sane, LiveRecord

LEMMA IdleIsAThread == Idle \in ThreadRecord
  BY EngineBounds DEF Idle, ThreadRecord, PC, None

LEMMA ParkKeepsThreads ==
  ASSUME IInv, NEW t \in Thread, Park(t), made' = made
  PROVE  ThreadsOK'
  BY IdleIsAThread DEF IInv, ThreadsOK, Park, Idle, Spawned

LEMMA BeginKeepsThreads ==
  ASSUME IInv, NEW t \in Thread, NEW d \in 1..made, NEW pc \in PC \ Spawned,
         Begin(t, d, pc), made' = made
  PROVE  ThreadsOK'
<1>1. d \in 0..MaxDeployments
  BY MadeIsDeployment DEF Deployment
<1>2. [Idle EXCEPT !.pc = pc, !.dep = d] \in ThreadRecord
  BY <1>1, IdleIsAThread DEF ThreadRecord
<1> QED
  BY <1>2 DEF IInv, ThreadsOK, Begin, Idle

\* Signals and releases keep the types of killing and of what is the project's.
LEMMA SignalTyped ==
  ASSUME IInv, NEW i, Signal(i)
  PROVE  killing' \in [Instance -> Sent]
<1>1. killing \in [Instance -> Sent] /\ "SIGKILL" \in Sent /\ "SIGTERM" \in Sent
  BY DEF IInv, NetOK, Sent
<1> QED
  BY <1>1 DEF Signal

LEMMA ReleaseKeepsNet ==
  ASSUME IInv, NEW d, NEW e, ReleaseFor(d, e), UNCHANGED <<killing, listening>>
  PROVE  NetOK'
  BY EngineBounds DEF ReleaseFor, TakesFromOthers, NetOK, IInv, None

LEMMA FailFinishStep ==
  ASSUME IInv, NEW t \in Thread, NEW d \in 1..made, NEW e, Follows(d, e), UNCHANGED api,
         FailFinish(t, d, e)
  PROVE  PipelineStep(d)
<1> DEFINE f == [Released(e) EXCEPT !.state = "FAILED", !.forget = TRUE]
           r == [state |-> FailureStored(d, e), desired |-> "stopped"]
<1>1. d \in Deployment /\ dep \in [Deployment -> LiveRecord] /\ row \in [Deployment -> RowRecord]
  BY MadeIsDeployment DEF IInv, RecordsOK
<1>2. f \in LiveRecord /\ f.stopping = e.stopping /\ f.state = "FAILED" /\ ~f.available
  <2>1. Released(e) \in LiveRecord /\ Released(e).stopping = e.stopping /\ ~Released(e).available
    <3>1. None \in 0..MaxInstances
      BY EngineBounds DEF None
    <3> QED
      BY <3>1 DEF Follows, Sane, LiveRecord, Released
  <2> QED
    BY <2>1, StatesListed DEF LiveRecord
<1>3. Follows(d, f)
  BY <1>2 DEF Follows, Sane, IsTerminal, Terminal
<1>4. Follows(d, Hosted(f, "failed"))
  BY <1>3, HostedFollows DEF Hosting
<1>5. Hosted(f, "failed").state = "FAILED"
  BY <1>2 DEF Hosted, LiveRecord
<1>6. RowFollows(d, r, Hosted(f, "failed"))
  <2>1. FailureStored(d, e) \in DeploymentState \cup {"none"}
    BY <1>1, StatesListed DEF FailureStored, RowRecord
  <2>2. row[d].state \in Terminal => FailureStored(d, e) = row[d].state
    BY <1>1, EnterFollows DEF FailureStored, IInv, RecordsOK
  <2> QED
    BY <1>5, <2>1, <2>2 DEF RowFollows, RowRecord, IsTerminal, Terminal
<1>7. RecordStep(d)
  <2>1. dep'[d] = Hosted(f, "failed") /\ dep' = [dep EXCEPT ![d] = dep'[d]]
    BY <1>1 DEF FailFinish
  <2>2. row' = [row EXCEPT ![d] = row'[d]] /\ row'[d] = IF Persisted(d) THEN r ELSE row[d]
    BY <1>1 DEF FailFinish
  <2> QED
    BY <1>4, <1>6, <2>1, <2>2, RowLeftAlone DEF RecordStep
<1>8. ThreadsOK'
  BY ParkKeepsThreads DEF FailFinish, api
<1>9. NetOK'
  BY ReleaseKeepsNet DEF FailFinish
<1> QED
  BY <1>7, <1>8, <1>9 DEF PipelineStep

LEMMA FailGatewayStep ==
  ASSUME IInv, NEW t \in Thread, NEW d \in 1..made, NEW e, Follows(d, e), UNCHANGED api,
         FailGateway(t, d, e)
  PROVE  PipelineStep(d)
<1>1. CASE e.gateway = None /\ FailFinish(t, d, e)
  BY <1>1, FailFinishStep
<1>2. CASE e.gateway # None /\ ~(e.gateway = None /\ FailFinish(t, d, e))
  <2>1. Write(d, e) /\ Begin(t, d, "failClose")
    BY <1>2 DEF FailGateway
  <2>2. NetOK'
    BY <1>2 DEF FailGateway, NetOK, IInv
  <2> QED
    BY <2>1, <2>2, WriteStep, BeginKeepsThreads DEF PipelineStep, PC, Spawned, api
<1> QED
  BY <1>1, <1>2 DEF FailGateway

LEMMA FailBeginStep ==
  ASSUME IInv, NEW t \in Thread, NEW d \in 1..made, NEW e, Follows(d, e), UNCHANGED api,
         alive' \subseteq Instance, FailBegin(t, d, e)
  PROVE  PipelineStep(d)
<1>1. CASE ~e.stopping /\ e.instance \notin alive' /\ FailGateway(t, d, e)
  BY <1>1, FailGatewayStep
<1>2. CASE e.stopping /\ Write(d, e) /\ Park(t) /\ UNCHANGED <<killing, net>>
  <2>1. NetOK'
    BY <1>2 DEF NetOK, IInv, net
  <2> QED
    BY <1>2, <2>1, WriteStep, ParkKeepsThreads DEF PipelineStep, api
<1>3. CASE /\ e.instance \in alive' /\ Signal(e.instance) /\ Write(d, e)
           /\ thr' = [thr EXCEPT ![t] = [Idle EXCEPT !.pc = "failStop", !.dep = d,
                                                     !.inst = e.instance]]
           /\ UNCHANGED net
  <2>1. NetOK'
    BY <1>3, SignalTyped DEF NetOK, IInv, net
  <2>2. [Idle EXCEPT !.pc = "failStop", !.dep = d, !.inst = e.instance] \in ThreadRecord
    <3>1. e.instance \in 0..MaxInstances /\ d \in 0..MaxDeployments
      BY MadeIsDeployment DEF Follows, Sane, LiveRecord, Deployment
    <3> QED
      BY <3>1, IdleIsAThread DEF ThreadRecord, PC
  <2>3. ThreadsOK'
    BY <1>3, <2>2 DEF IInv, ThreadsOK, Idle, api, Spawned
  <2> QED
    BY <1>3, <2>1, <2>3, WriteStep DEF PipelineStep
<1> QED
  BY <1>1, <1>2, <1>3 DEF FailBegin

(***************************************************************************)
(* The actions of a suspended run                                          *)
(***************************************************************************)
LEMMA Working ==
  ASSUME IInv, NEW t \in Thread, thr[t].pc # "idle"
  PROVE  /\ thr[t] \in ThreadRecord
         /\ thr[t].dep \in 1..made
         /\ thr[t].dep \in Deployment
         /\ dep[thr[t].dep] \in LiveRecord
         /\ Follows(thr[t].dep, dep[thr[t].dep])
<1>1. thr[t].dep \in 1..made /\ thr[t] \in ThreadRecord
  BY DEF IInv, ThreadsOK
<1>2. thr[t].dep \in Deployment
  BY <1>1, MadeIsDeployment
<1> QED
  BY <1>1, <1>2 DEF IInv, RecordsOK, Follows, Sane

LEMMA GotoKeepsThreads ==
  ASSUME IInv, NEW t \in Thread, thr[t].pc # "idle", NEW pc \in PC, Goto(t, pc), made' = made,
         pc \in Spawned => thr[t].pc \in Spawned
  PROVE  ThreadsOK'
<1> DEFINE u == [thr[t] EXCEPT !.pc = pc]
<1>1. u \in ThreadRecord
  BY Working DEF ThreadRecord
<1>2. thr[t].dep \in 1..made /\ u.dep = thr[t].dep /\ u.inst = thr[t].inst /\ u.pc = pc
  BY Working DEF ThreadRecord
<1> QED
  BY <1>1, <1>2 DEF IInv, ThreadsOK, Goto

LEMMA ProcessesKept ==
  ASSUME IInv, UNCHANGED <<api, owner, alive>>
  PROVE  ProcessesOK' /\ alive' \subseteq Instance
  BY DEF IInv, ProcessesOK, api

\* A transition that is not refused, with whatever else the handler records.
LEMMA EnterStep ==
  ASSUME IInv, NEW d \in 1..made, NEW e, Follows(d, e), NEW to \in Running, MayEnter(e, to),
         NEW f \in LiveRecord, f.stopping = e.stopping, f.forget = e.forget,
         Save(d, f)
  PROVE  RecordStep(d)
<1>1. ~e.stopping /\ ~e.forget /\ ~dep[d].stopping /\ ~IsTerminal(dep[d].state)
  BY EnterFollows
<1>2. Follows(d, f)
  BY <1>1, FreeFollows
<1>3. row[d].state \notin Terminal
  BY <1>1, MadeIsDeployment DEF IInv, RecordsOK
<1> QED
  BY <1>2, <1>3, SaveStep

LEMMA StateOfRecord ==
  ASSUME NEW e \in LiveRecord, NEW to \in DeploymentState
  PROVE  /\ [e EXCEPT !.state = to] \in LiveRecord
         /\ [e EXCEPT !.state = to].stopping = e.stopping
         /\ [e EXCEPT !.state = to].forget = e.forget
         /\ [e EXCEPT !.state = to].state = to
  BY DEF LiveRecord

LEMMA RunningIsState == Running \subseteq DeploymentState
  BY StatesListed DEF Running

LEMMA EnterStateStep ==
  ASSUME IInv, NEW t \in Thread, thr[t].pc # "idle", NEW to \in Running,
         MayEnter(dep[thr[t].dep], to),
         Save(thr[t].dep, [dep[thr[t].dep] EXCEPT !.state = to])
  PROVE  RecordStep(thr[t].dep)
<1> DEFINE d == thr[t].dep
           e == dep[d]
<1>1. d \in 1..made /\ e \in LiveRecord /\ Follows(d, e) /\ to \in DeploymentState
  BY Working, RunningIsState
<1>2. /\ [e EXCEPT !.state = to] \in LiveRecord
      /\ [e EXCEPT !.state = to].stopping = e.stopping
      /\ [e EXCEPT !.state = to].forget = e.forget
  BY <1>1, StateOfRecord
<1> QED
  BY <1>1, <1>2, EnterStep

LEMMA AdvanceStep ==
  ASSUME IInv, NEW t \in Thread, thr[t].pc # "idle", UNCHANGED <<api, owner, alive>>,
         NEW to \in Running, NEW pc \in PC \ Spawned,
         Advance(t, thr[t].dep, dep[thr[t].dep], to, pc)
  PROVE  PipelineStep(thr[t].dep)
<1> DEFINE d == thr[t].dep
           e == dep[d]
<1>0. alive' \subseteq Instance /\ made' = made /\ UNCHANGED api
  BY ProcessesKept DEF api
<1>1. CASE ~MayEnter(e, to) /\ FailBegin(t, d, e)
  BY <1>1, <1>0, Working, FailBeginStep
<1>2. CASE MayEnter(e, to) /\ Save(d, [e EXCEPT !.state = to]) /\ Goto(t, pc)
           /\ UNCHANGED <<killing, net>>
  <2>1. RecordStep(d)
    BY <1>2, EnterStateStep
  <2>2. ThreadsOK'
    BY <1>0, <1>2, GotoKeepsThreads
  <2>3. NetOK'
    BY <1>2 DEF NetOK, IInv, net
  <2> QED
    BY <1>0, <2>1, <2>2, <2>3 DEF PipelineStep
<1> QED
  BY <1>1, <1>2 DEF Advance

LEMMA ThrowsStep ==
  ASSUME IInv, NEW t \in Thread, NEW pc, pc # "idle", Throws(t, pc)
  PROVE  PipelineStep(thr[t].dep)
<1>1. thr[t].pc # "idle"
  BY DEF Throws, At
<1>2. alive' \subseteq Instance
  BY ProcessesKept DEF Throws
<1> QED
  BY <1>1, <1>2, Working, FailBeginStep DEF Throws

LEMMA LaunchStep ==
  ASSUME IInv, NEW t \in Thread, NEW d \in 1..made, NEW e, Follows(d, e), UNCHANGED api,
         alive' \subseteq Instance, Launch(t, d, e)
  PROVE  PipelineStep(d)
<1>1. CASE ~MayEnter(e, "STARTING") /\ FailBegin(t, d, e)
  BY <1>1, FailBeginStep
<1>2. CASE MayEnter(e, "STARTING") /\ Save(d, [e EXCEPT !.state = "STARTING"])
           /\ Begin(t, d, "start") /\ UNCHANGED <<killing, net>>
  <2>1. RecordStep(d)
    BY <1>2, EnterStep, StateOfRecord, RunningIsState DEF Running, Follows, Sane
  <2>2. ThreadsOK'
    BY <1>2, BeginKeepsThreads DEF PC, Spawned, api
  <2>3. NetOK'
    BY <1>2 DEF NetOK, IInv, net
  <2> QED
    BY <2>1, <2>2, <2>3 DEF PipelineStep
<1> QED
  BY <1>1, <1>2 DEF Launch

\* A run of an async method moves its own deployment and keeps the processes' owners.
Moves(t) ==
  /\ thr[t].dep \in 1..made
  /\ PipelineStep(thr[t].dep)
  /\ ProcessesOK'

LEMMA DetectStep ==
  ASSUME IInv, NEW t \in Thread, Detect(t)
  PROVE  Moves(t)
<1> DEFINE d == thr[t].dep
           e == dep[d]
<1>1. thr[t].pc # "idle" /\ UNCHANGED <<api, owner, alive>>
  BY DEF Detect, At
<1>2. d \in 1..made /\ d \in Deployment /\ e \in LiveRecord /\ Follows(d, e)
  BY <1>1, Working
<1>3. UNCHANGED api /\ made' = made /\ ProcessesOK' /\ alive' \subseteq Instance
  BY <1>1, ProcessesKept DEF api
<1>4. CASE ~MayEnter(e, "RESOLVING") /\ FailBegin(t, d, e)
  BY <1>2, <1>3, <1>4, FailBeginStep DEF Moves
<1>5. CASE /\ MayEnter(e, "RESOLVING")
           /\ dep' = [dep EXCEPT ![d].state = "PREPARING"]
           /\ row' = [row EXCEPT ![d] = [state |-> "PREPARING", desired |-> "running"]]
           /\ Goto(t, "prepare")
           /\ UNCHANGED <<killing, net>>
  <2>1. ~e.stopping /\ ~e.forget /\ ~IsTerminal(e.state)
    BY <1>2, <1>5, EnterFollows DEF Running
  <2>2. dep'[d] = [e EXCEPT !.state = "PREPARING"] /\ dep' = [dep EXCEPT ![d] = dep'[d]]
    BY <1>2, <1>5 DEF IInv, RecordsOK
  <2>3. "PREPARING" \in DeploymentState
    BY StatesListed
  <2>4. dep'[d] \in LiveRecord /\ ~dep'[d].stopping /\ ~dep'[d].forget
    BY <1>2, <2>1, <2>2, <2>3, StateOfRecord
  <2>5. Follows(d, dep'[d])
    BY <2>1, <2>4, FreeFollows
  <2>6. row'[d] = [state |-> "PREPARING", desired |-> "running"]
        /\ row' = [row EXCEPT ![d] = row'[d]]
    BY <1>2, <1>5 DEF IInv, RecordsOK
  <2>7. RowFollows(d, row'[d], dep'[d])
    BY <1>2, <2>1, <2>3, <2>6 DEF RowFollows, RowRecord, Terminal, IInv, RecordsOK
  <2>8. ThreadsOK'
    BY <1>1, <1>3, <1>5, GotoKeepsThreads DEF PC, Spawned
  <2>9. NetOK'
    BY <1>5 DEF NetOK, net, IInv
  <2> QED
    BY <1>2, <1>3, <2>2, <2>5, <2>6, <2>7, <2>8, <2>9 DEF Moves, PipelineStep, RecordStep
<1> QED
  BY <1>4, <1>5 DEF Detect

LEMMA StagesStep ==
  ASSUME IInv, NEW t \in Thread, Prepare(t) \/ Install(t) \/ Build(t)
  PROVE  Moves(t)
<1> DEFINE next(to) == CASE to = "INSTALLING" -> "install" [] to = "BUILDING" -> "build"
                         [] OTHER -> "allocApp"
<1>1. thr[t].pc # "idle" /\ UNCHANGED <<api, owner, alive>>
  BY DEF Prepare, Install, Build, NextStage, At
<1>2. PICK to \in {"INSTALLING", "BUILDING", "ALLOCATING"} :
        Advance(t, thr[t].dep, dep[thr[t].dep], to, next(to))
  BY DEF Prepare, Install, Build, NextStage
<1>3. next(to) \in PC \ Spawned /\ to \in Running
  BY DEF PC, Running, Spawned
<1> HIDE DEF next
<1> QED
  BY <1>1, <1>2, <1>3, AdvanceStep, ProcessesKept, Working DEF Moves

LEMMA AllocateAppPortStep ==
  ASSUME IInv, NEW t \in Thread, AllocateAppPort(t)
  PROVE  Moves(t)
<1> DEFINE d == thr[t].dep
           e == dep[d]
<1>1. thr[t].pc # "idle" /\ UNCHANGED <<api, owner, alive>>
  BY DEF AllocateAppPort, At
<1>2. d \in 1..made /\ d \in Deployment /\ e \in LiveRecord /\ Follows(d, e)
  BY <1>1, Working
<1>3. UNCHANGED api /\ made' = made /\ ProcessesOK'
  BY <1>1, ProcessesKept DEF api
<1>4. NetOK'
  BY DEF AllocateAppPort, NetOK, IInv
<1>5. CASE MayEnter(e, "STARTING") /\ Save(d, [e EXCEPT !.state = "STARTING"]) /\ Goto(t, "start")
  <2>1. RecordStep(d)
    BY <1>1, <1>5, EnterStateStep DEF Running
  <2>2. ThreadsOK'
    BY <1>1, <1>3, <1>5, GotoKeepsThreads DEF PC, Spawned
  <2> QED
    BY <1>2, <1>3, <1>4, <2>1, <2>2 DEF Moves, PipelineStep
<1>6. CASE Park(t) /\ UNCHANGED <<dep, row>>
  <2>1. RecordStep(d)
    BY <1>2, <1>6, RowLeftAlone DEF RecordStep, IInv, RecordsOK
  <2> QED
    BY <1>2, <1>3, <1>4, <1>6, <2>1, ParkKeepsThreads DEF Moves, PipelineStep
<1> QED
  BY <1>5, <1>6 DEF AllocateAppPort

LEMMA SpawnStep ==
  ASSUME IInv, NEW t \in Thread, Spawn(t)
  PROVE  Moves(t)
<1> DEFINE d == thr[t].dep
           i == FreshInstance
           e == [dep[d] EXCEPT !.instance = i, !.missed = FALSE]
           f == [e EXCEPT !.state = "HEALTH_CHECKING"]
<1>1. thr[t].pc # "idle" /\ UNCHANGED api /\ made' = made
  BY DEF Spawn, At, api
<1>2. d \in 1..made /\ d \in Deployment /\ dep[d] \in LiveRecord /\ thr[t] \in ThreadRecord
  BY <1>1, Working
<1>3. i \in Instance
  BY DEF Spawn, FreshInstance, Unspawned
<1>4. i \in 0..MaxInstances
  BY <1>3, EngineBounds DEF Instance
<1>5. ProcessesOK' /\ alive' \subseteq Instance
  <2>1. owner' = [owner EXCEPT ![i] = d] /\ alive' = alive \cup {i}
    BY DEF Spawn
  <2>2. d \in 0..MaxDeployments
    BY <1>2 DEF Deployment
  <2> HIDE DEF d, i
  <2> QED
    BY <1>1, <1>2, <1>3, <2>1, <2>2 DEF ProcessesOK, IInv
<1>6. /\ e \in LiveRecord /\ e.state = dep[d].state /\ e.stopping = dep[d].stopping
      /\ e.forget = dep[d].forget /\ e.available = dep[d].available
  BY <1>2, <1>4 DEF LiveRecord
<1>7. Follows(d, e)
  <2> HIDE DEF e
  <2> QED
    BY <1>2, <1>6, SameFollows
<1>8. CASE ~MayEnter(e, "HEALTH_CHECKING") /\ FailBegin(t, d, e)
  BY <1>1, <1>2, <1>5, <1>7, <1>8, FailBeginStep DEF Moves
<1>9. CASE MayEnter(e, "HEALTH_CHECKING") /\ Save(d, f)
           /\ thr' = [thr EXCEPT ![t].pc = "health", ![t].inst = i] /\ UNCHANGED <<killing, net>>
  <2>1. f \in LiveRecord /\ f.stopping = e.stopping /\ f.forget = e.forget
    <3> HIDE DEF e
    <3> QED
      BY <1>6, StatesListed, StateOfRecord
  <2>2. RecordStep(d)
    <3> HIDE DEF d, e, f
    <3> QED
      BY <1>2, <1>7, <1>9, <2>1, EnterStep DEF Running
  <2>3. [thr[t] EXCEPT !.pc = "health", !.inst = i] \in ThreadRecord
        /\ [thr[t] EXCEPT !.pc = "health", !.inst = i].dep = d
        /\ [thr[t] EXCEPT !.pc = "health", !.inst = i].inst = i
    BY <1>2, <1>4 DEF ThreadRecord, PC
  <2>4. thr' = [thr EXCEPT ![t] = [thr[t] EXCEPT !.pc = "health", !.inst = i]]
    BY <1>9 DEF IInv, ThreadsOK
  <2>5. ThreadsOK'
    BY <1>1, <1>2, <1>3, <2>3, <2>4 DEF IInv, ThreadsOK
  <2>6. NetOK'
    BY <1>9 DEF NetOK, net, IInv
  <2> QED
    BY <1>1, <1>2, <1>5, <2>2, <2>5, <2>6 DEF Moves, PipelineStep
<1> QED
  BY <1>8, <1>9 DEF Spawn

LEMMA HealthOkStep ==
  ASSUME IInv, NEW t \in Thread, HealthOk(t)
  PROVE  Moves(t)
<1> DEFINE d == thr[t].dep
           e == dep[d]
           x == IF e.gateway = None THEN e.target ELSE thr[t].inst
           f == [e EXCEPT !.state = "EXPOSING", !.target = x]
           pc == IF e.gateway = None THEN "allocShare" ELSE "probe"
<1>1. thr[t].pc # "idle" /\ UNCHANGED <<api, owner, alive>>
  BY DEF HealthOk, At
<1>2. d \in 1..made /\ e \in LiveRecord /\ Follows(d, e) /\ thr[t] \in ThreadRecord
  BY <1>1, Working
<1>3. UNCHANGED api /\ made' = made /\ ProcessesOK' /\ alive' \subseteq Instance
  BY <1>1, ProcessesKept DEF api
<1>4. CASE ~MayEnter(e, "REGISTERING") /\ FailBegin(t, d, e)
  BY <1>2, <1>3, <1>4, FailBeginStep DEF Moves
<1>5. CASE MayEnter(e, "REGISTERING") /\ Save(d, f) /\ Goto(t, pc) /\ UNCHANGED <<killing, net>>
  <2>1. x \in 0..MaxInstances
    BY <1>2 DEF LiveRecord, ThreadRecord
  <2>2. f \in LiveRecord /\ f.stopping = e.stopping /\ f.forget = e.forget
    <3> HIDE DEF x, e
    <3> QED
      BY <1>2, <2>1, StatesListed DEF LiveRecord
  <2>3. RecordStep(d)
    <3> HIDE DEF d, e, f
    <3> QED
      BY <1>2, <1>5, <2>2, EnterStep DEF Running
  <2>4. ThreadsOK'
    BY <1>1, <1>3, <1>5, GotoKeepsThreads DEF PC, Spawned, HealthOk, At
  <2>5. NetOK'
    BY <1>5 DEF NetOK, net, IInv
  <2> QED
    BY <1>2, <1>3, <2>3, <2>4, <2>5 DEF Moves, PipelineStep
<1> QED
  BY <1>4, <1>5 DEF HealthOk

\* Steps that leave the records alone.
LEMMA QuietStep ==
  ASSUME IInv, NEW t \in Thread, thr[t].pc # "idle", UNCHANGED <<api, owner, alive, dep, row>>,
         ThreadsOK', NetOK'
  PROVE  Moves(t)
<1>1. RecordStep(thr[t].dep)
  BY Working, RowLeftAlone DEF RecordStep, IInv, RecordsOK
<1> QED
  BY <1>1, Working, ProcessesKept DEF Moves, PipelineStep

LEMMA HealthOverStep ==
  ASSUME IInv, NEW t \in Thread, HealthStopped(t) \/ HealthTimeout(t)
  PROVE  Moves(t)
<1>1. CASE HealthStopped(t)
  <2>1. NetOK'
    BY <1>1 DEF HealthStopped, NetOK, net, IInv
  <2> QED
    BY <1>1, <2>1, ParkKeepsThreads, QuietStep DEF HealthStopped, At, api
<1>2. CASE HealthTimeout(t)
  <2>1. NetOK'
    BY <1>2, SignalTyped DEF HealthTimeout, NetOK, net, IInv
  <2> QED
    BY <1>2, <2>1, GotoKeepsThreads, QuietStep DEF HealthTimeout, At, api, PC, Spawned
<1> QED
  BY <1>1, <1>2

LEMMA SharePortStep ==
  ASSUME IInv, NEW t \in Thread, AllocateSharePort(t) \/ ListenBusy(t)
  PROVE  Moves(t)
<1>1. CASE AllocateSharePort(t)
  <2>1. NetOK'
    BY <1>1 DEF AllocateSharePort, NetOK, IInv
  <2> QED
    BY <1>1, <2>1, GotoKeepsThreads, QuietStep DEF AllocateSharePort, At, api, PC, Spawned
<1>2. CASE ListenBusy(t)
  <2>1. NetOK' /\ thr[t].pc # "idle" /\ made' = made
    BY <1>2 DEF ListenBusy, TakesFromOthers, NetOK, IInv, At, api
  <2>2. thr[t] \in ThreadRecord /\ thr[t].dep \in 1..made
    BY <2>1, Working
  <2> DEFINE u == [thr[t] EXCEPT !.pc = "allocShare", !.tries = @ + 1]
  <2>3. thr[t].tries + 1 \in 0..MaxListens
    BY <1>2, <2>2, EngineBounds DEF ListenBusy, ThreadRecord
  <2>4. u \in ThreadRecord /\ u.dep = thr[t].dep /\ u.inst = thr[t].inst
    BY <2>2, <2>3 DEF ThreadRecord, PC
  <2>5. thr' = [thr EXCEPT ![t] = u]
    BY <1>2 DEF ListenBusy, IInv, ThreadsOK
  <2>6. ThreadsOK'
    BY <1>2, <2>1, <2>2, <2>4, <2>5 DEF IInv, ThreadsOK, ListenBusy, At, Spawned
  <2> QED
    BY <1>2, <2>1, <2>6, QuietStep DEF ListenBusy
<1> QED
  BY <1>1, <1>2

LEMMA ListenStep ==
  ASSUME IInv, NEW t \in Thread, Listen(t)
  PROVE  Moves(t)
<1> DEFINE d == thr[t].dep
           i == thr[t].inst
           f == [dep[d] EXCEPT !.gateway = i, !.target = i, !.available = FALSE]
<1>1. thr[t].pc # "idle" /\ UNCHANGED <<api, owner, alive>>
  BY DEF Listen, At
<1>2. d \in 1..made /\ dep[d] \in LiveRecord /\ i \in 0..MaxInstances /\ i \in Instance
  BY <1>1, Working DEF ThreadRecord, IInv, ThreadsOK, Listen, At, Spawned
<1>3. UNCHANGED api /\ made' = made /\ ProcessesOK'
  BY <1>1, ProcessesKept DEF api
<1>4. /\ f \in LiveRecord /\ f.state = dep[d].state /\ f.stopping = dep[d].stopping
      /\ f.forget = dep[d].forget /\ ~f.available
  BY <1>2 DEF LiveRecord
<1>5. RecordStep(d)
  <2>1. Write(d, f)
    BY DEF Listen, Opened
  <2> HIDE DEF f, d
  <2> QED
    BY <1>2, <1>4, <2>1, SameFollows, WriteStep
<1>6. ThreadsOK'
  BY <1>1, <1>3, GotoKeepsThreads DEF Listen, PC, Spawned, At
<1>7. NetOK'
  BY <1>2 DEF Listen, NetOK, IInv
<1> QED
  BY <1>2, <1>3, <1>5, <1>6, <1>7 DEF Moves, PipelineStep

LEMMA RegisterStep ==
  ASSUME IInv, NEW t \in Thread, Register(t)
  PROVE  Moves(t)
<1> DEFINE d == thr[t].dep
           h == IF dep[d].hosting = "none" THEN "starting" ELSE dep[d].hosting
           f == [dep[d] EXCEPT !.route = TRUE, !.hosting = h]
<1>1. thr[t].pc # "idle" /\ UNCHANGED <<api, owner, alive>>
  BY DEF Register, At
<1>2. d \in 1..made /\ d \in Deployment /\ dep[d] \in LiveRecord
  BY <1>1, Working
<1>3. UNCHANGED api /\ made' = made /\ ProcessesOK'
  BY <1>1, ProcessesKept DEF api
<1>4. /\ f \in LiveRecord /\ f.state = dep[d].state /\ f.stopping = dep[d].stopping
      /\ f.forget = dep[d].forget /\ f.available = dep[d].available
  BY <1>2 DEF LiveRecord, Hosting
<1>5. RecordStep(d)
  <2>1. Write(d, f)
    BY <1>2 DEF Register, LiveRecord
  <2> HIDE DEF f, d
  <2> QED
    BY <1>2, <1>4, <2>1, SameFollows, WriteStep
<1>6. ThreadsOK'
  BY <1>1, <1>3, GotoKeepsThreads DEF Register, PC, Spawned, At
<1>7. NetOK'
  BY <1>2, EngineBounds DEF Register, TakesFromOthers, NetOK, IInv, Deployment
<1> QED
  BY <1>2, <1>3, <1>5, <1>6, <1>7 DEF Moves, PipelineStep

LEMMA GoLiveStep ==
  ASSUME IInv, NEW t \in Thread, GoLive(t)
  PROVE  Moves(t)
<1> DEFINE d == thr[t].dep
           e == dep[d]
           f == Hosted(Served(e), "live")
<1>1. thr[t].pc # "idle" /\ UNCHANGED <<api, owner, alive>>
  BY DEF GoLive, At
<1>2. d \in 1..made /\ e \in LiveRecord /\ Follows(d, e)
  BY <1>1, Working
<1>3. UNCHANGED api /\ made' = made /\ ProcessesOK' /\ alive' \subseteq Instance
  BY <1>1, ProcessesKept DEF api
<1>4. CASE ~MayEnter(e, "LIVE") /\ FailBegin(t, d, e)
  BY <1>2, <1>3, <1>4, FailBeginStep DEF Moves
<1>5. CASE MayEnter(e, "LIVE") /\ Save(d, f) /\ Park(t) /\ UNCHANGED <<killing, net>>
  <2>1. Served(e) \in LiveRecord /\ Served(e).stopping = e.stopping /\ Served(e).forget = e.forget
    BY <1>2, StatesListed DEF Served, LiveRecord
  <2>2. f \in LiveRecord /\ f.stopping = e.stopping /\ f.forget = e.forget
    BY <2>1 DEF Hosted, LiveRecord, Hosting
  <2>3. RecordStep(d)
    <3> HIDE DEF d, e, f
    <3> QED
      BY <1>2, <1>5, <2>2, EnterStep DEF Running
  <2>4. NetOK'
    BY <1>5 DEF NetOK, net, IInv
  <2> QED
    BY <1>2, <1>3, <1>5, <2>3, <2>4, ParkKeepsThreads DEF Moves, PipelineStep
<1> QED
  BY <1>4, <1>5 DEF GoLive

LEMMA RelaunchStep ==
  ASSUME IInv, NEW t \in Thread, RelaunchStopped(t) \/ Backoff(t)
  PROVE  Moves(t)
<1> DEFINE d == thr[t].dep
           f == [dep[d] EXCEPT !.relaunching = FALSE]
<1>1. thr[t].pc # "idle" /\ UNCHANGED <<api, owner, alive>>
  BY DEF RelaunchStopped, Backoff, At
<1>2. d \in 1..made /\ dep[d] \in LiveRecord /\ Follows(d, dep[d])
  BY <1>1, Working
<1>3. UNCHANGED api /\ ProcessesOK' /\ alive' \subseteq Instance
  BY <1>1, ProcessesKept
<1>4. /\ f \in LiveRecord /\ f.state = dep[d].state /\ f.stopping = dep[d].stopping
      /\ f.forget = dep[d].forget /\ f.available = dep[d].available
  BY <1>2 DEF LiveRecord
<1>5. Follows(d, f)
  <2> HIDE DEF f, d
  <2> QED
    BY <1>2, <1>4, SameFollows
<1>6. Launch(t, d, f) \/ Launch(t, d, dep[d])
  BY DEF RelaunchStopped, Backoff
<1> QED
  BY <1>2, <1>3, <1>5, <1>6, LaunchStep DEF Moves

LEMMA FailStep ==
  ASSUME IInv, NEW t \in Thread, FailStopped(t) \/ FailClosed(t)
  PROVE  Moves(t)
<1>1. thr[t].pc # "idle" /\ UNCHANGED <<api, owner, alive>>
  BY DEF FailStopped, FailClosed, At
<1>2. thr[t].dep \in 1..made /\ Follows(thr[t].dep, dep[thr[t].dep])
  BY <1>1, Working
<1> QED
  BY <1>1, <1>2, ProcessesKept, FailGatewayStep, FailFinishStep DEF FailStopped, FailClosed, Moves

LEMMA FaultStep ==
  ASSUME IInv, NEW t \in Thread, Fault(t) \/ HealthGone(t) \/ GiveUp(t) \/ ListenFails(t)
  PROVE  Moves(t)
<1>1. PICK pc \in PC \ {"idle"} : Throws(t, pc)
  BY DEF Fault, HealthGone, GiveUp, ListenFails, PC
<1>2. thr[t].pc # "idle" /\ UNCHANGED <<api, owner, alive>>
  BY <1>1 DEF Throws, At
<1> QED
  BY <1>1, <1>2, ThrowsStep, ProcessesKept, Working DEF Moves

LEMMA RunStep ==
  ASSUME IInv, NEW t \in Thread, Step(t) \/ Fault(t)
  PROVE  Moves(t)
  BY DetectStep, StagesStep, AllocateAppPortStep, SpawnStep, HealthOkStep, HealthOverStep,
     SharePortStep, ListenStep, RegisterStep, GoLiveStep, RelaunchStep, FailStep, FaultStep
  DEF Step

(***************************************************************************)
(* teardown(), the requests, the exits and the timers                      *)
(***************************************************************************)
LEMMA TeardownFinishStep ==
  ASSUME IInv, NEW d \in 1..made, NEW e, Follows(d, e), e.stopping,
         NEW desired \in {"running", "stopped"}, NEW again \in BOOLEAN,
         owner' = owner, alive' \subseteq alive, TeardownFinish(d, e, desired, again)
  PROVE  IInv' /\ AllFollow
<1> DEFINE g == [Released(e) EXCEPT !.state = IF @ = "STOPPING" THEN "STOPPED" ELSE @]
           f == Hosted(g, "stopped")
           stored == IF e.state = "STOPPING" THEN "STOPPED" ELSE row[d].state
           gone == IF live = d THEN None ELSE live
           fresh == [NewLive EXCEPT !.state = "DISCOVERING"]
<1>1. /\ d \in Deployment /\ dep \in [Deployment -> LiveRecord]
      /\ row \in [Deployment -> RowRecord] /\ td \in [Deployment -> Teardown]
      /\ made \in 0..MaxDeployments /\ MaxDeployments \in Nat /\ live \in 0..made
  BY MadeIsDeployment, EngineBounds DEF IInv, RecordsOK, TeardownsOK
<1>2. f \in LiveRecord /\ f.stopping /\ f.state \in {"STOPPED", "FAILED"} /\ ~f.available
  <2>1. /\ Released(e) \in LiveRecord /\ Released(e).stopping /\ Released(e).state = e.state
        /\ ~Released(e).available
    <3>1. None \in 0..MaxInstances
      BY EngineBounds DEF None
    <3> QED
      BY <3>1 DEF Follows, Sane, LiveRecord, Released
  <2>2. e.state \in {"STOPPING", "STOPPED", "FAILED"}
    BY DEF Follows, Sane
  <2>3. g \in LiveRecord /\ g.stopping /\ g.state \in {"STOPPED", "FAILED"} /\ ~g.available
    BY <2>1, <2>2, StatesListed DEF LiveRecord
  <2> HIDE DEF g
  <2> QED
    BY <2>3 DEF Hosted, LiveRecord, Hosting
<1>3. Follows(d, f)
  BY <1>2 DEF Follows, Sane, IsTerminal, Terminal
<1>4. row' \in [Deployment -> RowRecord] /\ RowFollows(d, row'[d], f)
      /\ \A c \in Deployment : c # d => row'[c] = row[c]
  <2>1. stored \in DeploymentState \cup {"none"}
    BY <1>1, StatesListed DEF RowRecord
  <2>2. [state |-> stored, desired |-> desired] \in RowRecord
    BY <2>1 DEF RowRecord
  <2>3. row' = IF Persisted(d)
               THEN [row EXCEPT ![d] = [state |-> stored, desired |-> desired]] ELSE row
    BY DEF TeardownFinish
  <2>4. row[d].state \in Terminal => stored = row[d].state
    BY <1>1 DEF IInv, RecordsOK, Follows, IsTerminal, Terminal
  <2>5. IsTerminal(f.state)
    BY <1>2 DEF IsTerminal, Terminal
  <2> HIDE DEF f, stored
  <2> QED
    BY <1>1, <2>2, <2>3, <2>4, <2>5 DEF RowFollows
<1>5. NetOK'
  BY ReleaseKeepsNet DEF TeardownFinish
<1>6. td' = [td EXCEPT ![d] = NoTeardown] /\ NoTeardown \in Teardown /\ NoTeardown.pc = "idle"
  BY EngineBounds DEF TeardownFinish, NoTeardown, Teardown, None
<1>7. CASE made' = made /\ live' = gone /\ thr' = thr /\ dep' = [dep EXCEPT ![d] = f]
  <2> HIDE DEF f
  <2>1. \A c \in Deployment : c # d => dep'[c] = dep[c]
    BY <1>1, <1>7
  <2>2. dep'[d] = f /\ dep' \in [Deployment -> LiveRecord]
    BY <1>1, <1>2, <1>7
  <2>3. AllFollow
    BY <1>3, <1>4, <2>1, <2>2, OthersFollow DEF AllFollow
  <2>4. \A c \in 1..made : ~IsTerminal(dep'[c].state) => live' = c
    BY <1>2, <1>7, <2>1, <2>2, MadeIsDeployment DEF IInv, RecordsOK, IsTerminal, Terminal
  <2>5. ASSUME NEW c \in Deployment, c > made PROVE dep'[c] = NewLive
    <3>1. c # d
      BY <1>1, <2>5
    <3> QED
      BY <2>1, <2>5, <3>1 DEF IInv, RecordsOK
  <2>6. RecordsOK'
    BY <1>1, <1>4, <1>7, <2>2, <2>3, <2>4, <2>5 DEF RecordsOK, AllFollow, Follows, RowFollows, None
  <2>7. TeardownsOK'
    BY <1>1, <1>6, <1>7, <2>1 DEF TeardownsOK, IInv
  <2>8. ThreadsOK' /\ ProcessesOK'
    BY <1>7 DEF ThreadsOK, ProcessesOK, IInv
  <2> QED
    BY <1>5, <2>3, <2>6, <2>7, <2>8 DEF IInv
<1>8. CASE /\ CanCreate(gone) /\ made' = made + 1 /\ live' = made + 1
           /\ dep' = [dep EXCEPT ![d] = f, ![made + 1].state = "DISCOVERING"]
           /\ Begin(FreshThread, made + 1, "detect")
  <2> HIDE DEF f
  <2>1. made + 1 \in Deployment /\ made + 1 # d /\ dep[made + 1] = NewLive
    BY <1>1, <1>8 DEF CanCreate, Deployment, IInv, RecordsOK
  <2>2. /\ dep'[d] = f /\ dep'[made + 1] = fresh
        /\ \A c \in Deployment \ {d, made + 1} : dep'[c] = dep[c]
        /\ fresh \in LiveRecord /\ ~fresh.stopping /\ ~fresh.forget
    <3>1. NewLive \in LiveRecord
      BY <1>1, <2>1
    <3>2. ~NewLive.stopping /\ ~NewLive.forget
      BY DEF NewLive
    <3>3. "DISCOVERING" \in DeploymentState
      BY StatesListed
    <3>4. /\ fresh \in LiveRecord /\ fresh.stopping = NewLive.stopping
          /\ fresh.forget = NewLive.forget
      <4> HIDE DEF fresh
      <4> QED
        BY <3>1, <3>3, StateOfRecord DEF fresh
    <3>5. fresh \in LiveRecord /\ ~fresh.stopping /\ ~fresh.forget
      BY <3>2, <3>4
    <3> HIDE DEF fresh
    <3>6. dep'[d] = f /\ \A c \in Deployment \ {d, made + 1} : dep'[c] = dep[c]
      BY <1>1, <1>8, <2>1
    <3>7. dep'[made + 1] = fresh
      BY <1>1, <1>8, <2>1 DEF fresh
    <3> QED
      BY <3>5, <3>6, <3>7
  <2>3. dep' \in [Deployment -> LiveRecord]
    BY <1>1, <1>2, <1>8, <2>1, <2>2
  <2>4. Follows(made + 1, dep'[made + 1])
    BY <2>1, <2>2, FreeFollows DEF NewLive, IsTerminal, Terminal
  <2>5. row[made + 1].state \notin Terminal
    BY <2>1 DEF IInv, RecordsOK, NewLive, IsTerminal, Terminal
  <2>6. AllFollow
    BY <1>1, <1>3, <1>4, <2>1, <2>2, <2>4, <2>5, OthersFollow DEF AllFollow, RowFollows
  <2>7. \A c \in 1..made' : ~IsTerminal(dep'[c].state) => live' = c
    <3> SUFFICES ASSUME NEW c \in 1..made, ~IsTerminal(dep'[c].state) PROVE FALSE
      BY <1>1, <1>8
    <3>1. c # d /\ c \in Deployment
      BY <1>2, <2>2, MadeIsDeployment DEF IsTerminal, Terminal
    <3>2. dep'[c] = dep[c]
      BY <1>1, <2>2, <3>1
    <3>3. live = c
      BY <3>2 DEF IInv, RecordsOK
    <3> QED
      BY <1>1, <1>8, <3>1, <3>2, <3>3 DEF CanCreate, None
  <2>8. ASSUME NEW c \in Deployment, c > made' PROVE dep'[c] = NewLive
    <3>1. c # d /\ c # made + 1 /\ c > made
      BY <1>1, <1>8, <2>8 DEF Deployment
    <3> QED
      BY <2>2, <3>1 DEF IInv, RecordsOK
  <2>9. RecordsOK'
    <3>1. made' \in 0..MaxDeployments /\ live' \in 0..made'
      BY <1>1, <1>8, <2>1 DEF Deployment
    <3>2. \A c \in Deployment :
            Sane(dep'[c]) /\ (row'[c].state \in Terminal => IsTerminal(dep'[c].state))
      BY <2>6 DEF AllFollow, Follows, RowFollows
    <3> QED
      BY <1>4, <2>3, <2>7, <2>8, <3>1, <3>2 DEF RecordsOK
  <2>10. TeardownsOK'
    BY <1>1, <1>6, <1>8, <2>2, <2>6 DEF TeardownsOK, IInv, AllFollow, Follows
  <2>11. ThreadsOK'
    <3>1. FreshThread \in Thread
      BY <1>8 DEF CanCreate, FreshThread, FreeThreads
    <3>2. made + 1 \in 0..MaxDeployments
      BY <2>1, <1>1 DEF Deployment
    <3>3. [Idle EXCEPT !.pc = "detect", !.dep = made + 1] \in ThreadRecord
      BY <3>2, IdleIsAThread DEF ThreadRecord, PC
    <3> QED
      BY <1>1, <1>8, <3>1, <3>3 DEF IInv, ThreadsOK, Begin, Idle, Spawned
  <2>12. ProcessesOK'
    BY <1>1, <1>8 DEF ProcessesOK, IInv
  <2> QED
    BY <1>5, <2>6, <2>9, <2>10, <2>11, <2>12 DEF IInv
<1> QED
  BY <1>7, <1>8 DEF TeardownFinish

\* A teardown that has to wait: the deployment is stopping and its teardown recorded.
LEMMA TeardownWaits ==
  ASSUME IInv, NEW d \in 1..made, NEW e, Follows(d, e), e.stopping, RecordStopping(d, e),
         NEW x \in Teardown, td' = [td EXCEPT ![d] = x], UNCHANGED <<made, live, thr>>,
         owner' = owner, alive' \subseteq alive, NetOK'
  PROVE  IInv' /\ AllFollow
<1>1. RecordStep(d)
  <2>1. CASE e.state = "STOPPING"
    <3>1. row[d].state \notin Terminal
      BY <2>1, MadeIsDeployment DEF Follows, IsTerminal, Terminal, IInv, RecordsOK
    <3> QED
      BY <2>1, <3>1, SaveStep DEF RecordStopping
  <2>2. CASE e.state # "STOPPING"
    BY <2>2, WriteStep DEF RecordStopping
  <2> QED
    BY <2>1, <2>2
<1>2. RecordsOK' /\ AllFollow
  BY <1>1, RecordsPreserved
<1>3. dep'[d].stopping
  BY MadeIsDeployment DEF RecordStopping, Save, Write, IInv, RecordsOK
<1>4. TeardownsOK'
  BY <1>2, <1>3 DEF TeardownsOK, IInv, AllFollow, Follows
<1>5. ThreadsOK' /\ ProcessesOK'
  BY DEF ThreadsOK, ProcessesOK, IInv
<1> QED
  BY <1>2, <1>4, <1>5 DEF IInv

LEMMA TeardownProcessStep ==
  ASSUME IInv, NEW d \in 1..made, NEW e, Follows(d, e), e.stopping,
         NEW desired \in {"running", "stopped"}, NEW again \in BOOLEAN,
         owner' = owner, alive' \subseteq alive, TeardownProcess(d, e, desired, again)
  PROVE  IInv' /\ AllFollow
<1> DEFINE x == [pc |-> "stop", inst |-> e.instance, desired |-> desired, redeploy |-> again]
<1>1. CASE e.instance \notin alive' /\ TeardownFinish(d, e, desired, again)
  BY <1>1, TeardownFinishStep
<1>2. CASE /\ e.instance \in alive' /\ Signal(e.instance) /\ RecordStopping(d, e)
           /\ td' = [td EXCEPT ![d] = x] /\ UNCHANGED <<made, live, thr, net>>
  <2>1. x \in Teardown
    BY DEF Teardown, Follows, Sane, LiveRecord
  <2>2. NetOK'
    BY <1>2, SignalTyped DEF NetOK, IInv, net
  <2> HIDE DEF x
  <2> QED
    BY <1>2, <2>1, <2>2, TeardownWaits
<1> QED
  BY <1>1, <1>2 DEF TeardownProcess

LEMMA TeardownBeginStep ==
  ASSUME IInv, NEW d \in 1..made, NEW was, Follows(d, was),
         NEW desired \in {"running", "stopped"}, NEW again \in BOOLEAN,
         owner' = owner, alive' \subseteq alive, TeardownBegin(d, was, desired, again)
  PROVE  IInv' /\ AllFollow
<1> DEFINE s == IF IsTerminal(was.state) THEN was.state ELSE "STOPPING"
           e == [was EXCEPT !.stopping = TRUE, !.stable = FALSE,
                            !.state = IF IsTerminal(@) THEN @ ELSE "STOPPING"]
           x == [pc |-> "close", inst |-> None, desired |-> desired, redeploy |-> again]
<1>1. ~was.stopping /\ was \in LiveRecord
  BY DEF TeardownBegin, Follows, Sane
<1>2. e \in LiveRecord /\ e.stopping /\ e.state = s /\ e.forget = was.forget
      /\ s \in {"STOPPING", "STOPPED", "FAILED"}
  BY <1>1, StatesListed DEF LiveRecord, IsTerminal, Terminal
<1>3. Follows(d, e)
  <2> HIDE DEF e
  <2> QED
    BY <1>1, <1>2 DEF Follows, Sane, IsTerminal, Terminal
<1>4. CASE e.gateway = None /\ TeardownProcess(d, e, desired, again)
  <2> HIDE DEF e
  <2> QED
    BY <1>2, <1>3, <1>4, TeardownProcessStep
<1>5. CASE /\ listening' = listening \ {e.gateway} /\ RecordStopping(d, e)
           /\ td' = [td EXCEPT ![d] = x]
           /\ UNCHANGED <<made, live, thr, killing, reserved, route, robbed>>
  <2>1. x \in Teardown
    BY EngineBounds DEF Teardown, None
  <2>2. NetOK'
    BY <1>5 DEF NetOK, IInv
  <2> HIDE DEF x, e
  <2> QED
    BY <1>2, <1>3, <1>5, <2>1, <2>2, TeardownWaits
<1> QED
  BY <1>4, <1>5 DEF TeardownBegin

LEMMA OwnFollows ==
  ASSUME IInv, NEW d \in 1..made
  PROVE  Follows(d, dep[d]) /\ d \in Deployment /\ dep[d] \in LiveRecord
  BY MadeIsDeployment DEF IInv, RecordsOK, Follows, Sane

LEMMA TeardownStep ==
  ASSUME IInv, NEW d \in Deployment, TeardownClosed(d) \/ TeardownStopped(d)
  PROVE  IInv' /\ AllFollow
<1>1. d \in 1..made /\ dep[d].stopping /\ td[d] \in Teardown
  BY DEF TeardownClosed, TeardownStopped, IInv, TeardownsOK
<1>2. td[d].desired \in {"running", "stopped"} /\ td[d].redeploy \in BOOLEAN
  BY <1>1 DEF Teardown
<1>3. Follows(d, dep[d])
  BY <1>1, OwnFollows
<1>4. owner' = owner /\ alive' \subseteq alive
  BY DEF TeardownClosed, TeardownStopped
<1>5. TeardownProcess(d, dep[d], td[d].desired, td[d].redeploy)
      \/ TeardownFinish(d, dep[d], td[d].desired, td[d].redeploy)
  BY DEF TeardownClosed, TeardownStopped
<1> QED
  BY <1>1, <1>2, <1>3, <1>4, <1>5, TeardownProcessStep, TeardownFinishStep

LEMMA StopStep ==
  ASSUME IInv, RestartByRedeploy \/ \E w \in {"running", "stopped"} : Stop(w)
  PROVE  IInv' /\ AllFollow
<1>1. live \in 1..made
  <2>1. live # 0
    BY DEF RestartByRedeploy, Stop, None
  <2> QED
    BY <2>1, EngineBounds DEF IInv, RecordsOK
<1>2. owner' = owner /\ alive' \subseteq alive
  BY DEF RestartByRedeploy, Stop
<1>3. PICK w \in {"running", "stopped"}, again \in BOOLEAN :
        TeardownBegin(live, dep[live], w, again)
  BY DEF RestartByRedeploy, Stop
<1> QED
  BY <1>1, <1>2, <1>3, OwnFollows, TeardownBeginStep

LEMMA DeployStep ==
  ASSUME IInv, Deploy
  PROVE  IInv' /\ AllFollow
<1> DEFINE n == made + 1
           fresh == [NewLive EXCEPT !.state = "DISCOVERING"]
<1>1. /\ dep \in [Deployment -> LiveRecord] /\ row \in [Deployment -> RowRecord]
      /\ made \in 0..MaxDeployments /\ MaxDeployments \in Nat
  BY EngineBounds DEF IInv, RecordsOK
<1>2. n \in Deployment /\ made' = n /\ live' = n /\ CanCreate(live)
  BY <1>1 DEF Deploy, CanCreate, Deployment
<1>3. dep[n] = NewLive
  BY <1>1, <1>2 DEF IInv, RecordsOK
<1>4. /\ dep'[n] = fresh
      /\ \A c \in Deployment \ {n} : dep'[c] = dep[c]
      /\ row' = row
  BY <1>1, <1>2, <1>3 DEF Deploy
<1>5. fresh \in LiveRecord /\ ~fresh.stopping /\ ~fresh.forget
  <2>1. NewLive \in LiveRecord
    BY <1>1, <1>2, <1>3
  <2>2. ~NewLive.stopping /\ ~NewLive.forget
    BY DEF NewLive
  <2>3. "DISCOVERING" \in DeploymentState
    BY StatesListed
  <2> HIDE DEF fresh
  <2>4. fresh \in LiveRecord /\ fresh.stopping = NewLive.stopping /\ fresh.forget = NewLive.forget
    BY <2>1, <2>3, StateOfRecord DEF fresh
  <2> QED
    BY <2>2, <2>4
<1>6. Follows(n, dep'[n])
  <2> HIDE DEF fresh
  <2> QED
    BY <1>2, <1>3, <1>4, <1>5, FreeFollows DEF NewLive, IsTerminal, Terminal
<1>7. row[n].state \notin Terminal
  BY <1>2, <1>3 DEF IInv, RecordsOK, NewLive, IsTerminal, Terminal
<1>8. AllFollow
  BY <1>1, <1>2, <1>4, <1>6, <1>7, OthersFollow DEF AllFollow, RowFollows
<1>9. \A c \in 1..made' : ~IsTerminal(dep'[c].state) => live' = c
  <2> SUFFICES ASSUME NEW c \in 1..made, ~IsTerminal(dep'[c].state) PROVE FALSE
    BY <1>1, <1>2
  <2>1. dep'[c] = dep[c]
    BY <1>1, <1>4, MadeIsDeployment
  <2>2. live = c
    BY <2>1 DEF IInv, RecordsOK
  <2> QED
    BY <1>1, <1>2, <2>1, <2>2 DEF CanCreate, None
<1>10. ASSUME NEW c \in Deployment, c > made' PROVE dep'[c] = NewLive
  <2>1. c # n /\ c > made
    BY <1>1, <1>2, <1>10 DEF Deployment
  <2> QED
    BY <1>4, <2>1 DEF IInv, RecordsOK
<1>11. RecordsOK'
  <2>1. made' \in 0..MaxDeployments /\ live' \in 0..made'
    BY <1>1, <1>2 DEF Deployment
  <2>2. dep' \in [Deployment -> LiveRecord] /\ row' \in [Deployment -> RowRecord]
    BY <1>1, <1>2, <1>3, <1>4, <1>5 DEF Deploy
  <2>3. \A c \in Deployment :
          Sane(dep'[c]) /\ (row'[c].state \in Terminal => IsTerminal(dep'[c].state))
    BY <1>8 DEF AllFollow, Follows, RowFollows
  <2> QED
    BY <1>9, <1>10, <2>1, <2>2, <2>3 DEF RecordsOK
<1>12. TeardownsOK'
  BY <1>1, <1>2, <1>8 DEF Deploy, TeardownsOK, IInv, AllFollow, Follows
<1>13. ThreadsOK'
  <2>1. FreshThread \in Thread
    BY <1>2 DEF CanCreate, FreshThread, FreeThreads
  <2>2. n \in 0..MaxDeployments
    BY <1>1, <1>2 DEF Deployment
  <2>3. [Idle EXCEPT !.pc = "detect", !.dep = n] \in ThreadRecord
    BY <2>2, IdleIsAThread DEF ThreadRecord, PC
  <2> QED
    BY <1>1, <1>2, <2>1, <2>3 DEF Deploy, IInv, ThreadsOK, Begin, Idle, Spawned
<1>14. ProcessesOK' /\ NetOK'
  BY <1>1, <1>2 DEF Deploy, ProcessesOK, NetOK, net, IInv
<1> QED
  BY <1>8, <1>11, <1>12, <1>13, <1>14 DEF IInv

LEMMA HeldOffFollows ==
  ASSUME IInv, NEW d \in 1..made
  PROVE  LET h == HeldOff(dep[d]) IN
         /\ h \in LiveRecord /\ h.state = dep[d].state /\ h.stopping = dep[d].stopping
         /\ h.forget = dep[d].forget /\ ~h.available /\ h.instance = dep[d].instance
  BY OwnFollows DEF HeldOff, LiveRecord

LEMMA RestartStep ==
  ASSUME IInv, Restart
  PROVE  IInv' /\ AllFollow
<1> DEFINE d == live
           e == dep[d]
           h == HeldOff(e)
           quiet == [HeldOff(e) EXCEPT !.relaunching = TRUE]
           put == [quiet EXCEPT !.state = "RESTARTING"]
           moved == Hosted(put, "restarting")
           after == [moved EXCEPT !.relaunching = FALSE]
           loud == [quiet EXCEPT !.relaunching = FALSE]
           t == FreshThread
           u == [Idle EXCEPT !.pc = "relaunchStop", !.dep = d, !.inst = e.instance]
<1>1. d \in 1..made
  <2>1. live # 0
    BY DEF Restart, None
  <2> QED
    BY <2>1, EngineBounds DEF IInv, RecordsOK
<1>2. t \in Thread /\ UNCHANGED <<api, owner, alive>>
  BY DEF Restart, FreshThread, FreeThreads
<1>3. UNCHANGED api /\ made' = made /\ ProcessesOK' /\ alive' \subseteq Instance
  BY <1>2, ProcessesKept DEF api
<1>4. e \in LiveRecord /\ Follows(d, e) /\ d \in Deployment
  BY <1>1, OwnFollows
<1>5. /\ h \in LiveRecord /\ h.state = e.state /\ h.stopping = e.stopping
      /\ h.forget = e.forget /\ ~h.available
  BY <1>1, HeldOffFollows
<1>6. /\ quiet \in LiveRecord /\ quiet.state = e.state /\ quiet.stopping = e.stopping
      /\ quiet.forget = e.forget /\ ~quiet.available
  <2> HIDE DEF h
  <2>1. quiet = [h EXCEPT !.relaunching = TRUE]
    BY DEF h
  <2> QED
    BY <1>5, <2>1 DEF LiveRecord
<1>7. /\ loud \in LiveRecord /\ loud.state = e.state /\ loud.stopping = e.stopping
      /\ loud.forget = e.forget /\ ~loud.available
  <2> HIDE DEF quiet
  <2> QED
    BY <1>6 DEF LiveRecord
<1>8. put \in LiveRecord /\ put.stopping = e.stopping /\ put.forget = e.forget
  <2> HIDE DEF quiet
  <2> QED
    BY <1>6, StatesListed DEF LiveRecord
<1>9. moved \in LiveRecord /\ moved.stopping = e.stopping /\ moved.forget = e.forget
  <2> HIDE DEF put
  <2> QED
    BY <1>8 DEF Hosted, LiveRecord, Hosting
<1>10. after \in LiveRecord /\ after.stopping = e.stopping /\ after.forget = e.forget
  <2> HIDE DEF moved
  <2> QED
    BY <1>9 DEF LiveRecord
<1> HIDE DEF h, quiet, put, moved, after, loud
<1>11. ASSUME e.state = "LIVE"
       PROVE  ~e.stopping /\ ~e.forget /\ ~IsTerminal(e.state)
  BY <1>4, <1>11 DEF Follows, Sane, IsTerminal, Terminal
<1>12. PipelineStep(d)
  <2>1. CASE e.state = "RESTARTING" /\ FailBegin(t, d, loud)
    BY <1>1, <1>2, <1>3, <1>7, <2>1, SameFollows, FailBeginStep
  <2>2. CASE e.state = "LIVE" /\ Launch(t, d, after)
    BY <1>1, <1>2, <1>3, <1>10, <1>11, <2>2, FreeFollows, LaunchStep
  <2>3. CASE /\ e.state = "LIVE" /\ e.instance \in alive /\ Save(d, moved)
             /\ Signal(e.instance) /\ thr' = [thr EXCEPT ![t] = u] /\ UNCHANGED net
    <3>1. row[d].state \notin Terminal
      BY <1>4, <1>11, <2>3 DEF IInv, RecordsOK
    <3>2. RecordStep(d)
      BY <1>1, <1>9, <1>11, <2>3, <3>1, FreeFollows, SaveStep
    <3>3. d \in 0..MaxDeployments /\ e.instance \in 0..MaxInstances
      BY <1>4, EngineBounds DEF Deployment, LiveRecord
    <3>4. u \in ThreadRecord /\ u.dep = d /\ u.pc = "relaunchStop"
      BY <3>3, IdleIsAThread DEF ThreadRecord, PC, Idle
    <3>5. ThreadsOK'
      <4> HIDE DEF u
      <4> QED
        BY <1>1, <1>2, <1>3, <2>3, <3>4 DEF ThreadsOK, IInv, Spawned
    <3>6. NetOK'
      BY <2>3, SignalTyped DEF NetOK, net, IInv
    <3> QED
      BY <1>3, <3>2, <3>5, <3>6 DEF PipelineStep
  <2> QED
    BY <2>1, <2>2, <2>3 DEF Restart, h, quiet, put, moved, after, loud
<1> QED
  BY <1>1, <1>3, <1>12, PipelinePreserves

LEMMA ExitStep ==
  ASSUME IInv, NEW i \in Instance, Exit(i)
  PROVE  IInv' /\ AllFollow
<1> DEFINE d == owner[i]
           e == dep[d]
           h == HeldOff(e)
           f == Hosted(HeldOff(e), "restarting")
           again == [f EXCEPT !.attempts = @ + 1, !.state = "RESTARTING"]
           watched == e.instance = i /\ ~e.stopping /\ ~e.relaunching
           s == [e EXCEPT !.stable = @ /\ ~watched,
                        !.missed = @ \/ (watched /\ e.state = "EXPOSING")]
           t == FreshThread
<1>1. d \in 1..made /\ owner' = owner /\ alive' \subseteq alive /\ alive' \subseteq Instance
  BY DEF Exit, IInv, ProcessesOK
<1>2. d \in Deployment /\ e \in LiveRecord /\ Follows(d, e)
  BY <1>1, OwnFollows
<1>3. /\ h \in LiveRecord /\ h.state = e.state /\ h.stopping = e.stopping
      /\ h.forget = e.forget /\ ~h.available
  BY <1>1, HeldOffFollows
<1>4. /\ f \in LiveRecord /\ f.state = e.state /\ f.stopping = e.stopping
      /\ f.forget = e.forget /\ ~f.available /\ f.attempts = e.attempts
  <2>1. h.attempts = e.attempts
    BY <1>2 DEF HeldOff, LiveRecord
  <2> HIDE DEF h
  <2>2. f = Hosted(h, "restarting")
    BY DEF h
  <2> QED
    BY <1>3, <2>1, <2>2 DEF Hosted, LiveRecord, Hosting
<1>5. Follows(d, f)
  <2> HIDE DEF f, d
  <2> QED
    BY <1>1, <1>4, SameFollows
<1>6. CASE Unsent(i) /\ UNCHANGED <<api, thr, net>> /\ Write(d, s)
  <2>1. /\ s \in LiveRecord /\ s.state = e.state /\ s.stopping = e.stopping
        /\ s.forget = e.forget /\ s.available = e.available
    <3>1. /\ (e.stable /\ ~watched) \in BOOLEAN
          /\ (e.missed \/ (watched /\ e.state = "EXPOSING")) \in BOOLEAN
      BY <1>2 DEF LiveRecord
    <3> QED
      BY <1>2, <3>1 DEF LiveRecord
  <2>2. RecordStep(d)
    <3> HIDE DEF s, d
    <3> QED
      BY <1>1, <1>6, <2>1, SameFollows, WriteStep
  <2>3. ThreadsOK' /\ NetOK' /\ ProcessesOK'
    <3>1. killing' \in [Instance -> Sent]
      BY <1>6 DEF Unsent, Sent, NetOK, IInv
    <3> QED
      BY <1>1, <1>6, <3>1 DEF ThreadsOK, NetOK, ProcessesOK, IInv, api, net
  <2> QED
    BY <1>1, <1>6, <2>2, <2>3, PipelinePreserves DEF PipelineStep
<1>7. CASE watched /\ e.state = "LIVE" /\ \E clean \in BOOLEAN : Crashed(d, e, clean)
  <2>1. CASE TeardownBegin(d, f, "stopped", FALSE)
    <3> HIDE DEF d, f
    <3> QED
      BY <1>1, <1>5, <2>1, TeardownBeginStep
  <2>2. CASE FreeThreads # {} /\ FailBegin(t, d, f) /\ UNCHANGED api
    <3>1. t \in Thread
      BY <2>2 DEF FreshThread, FreeThreads
    <3>2. PipelineStep(d)
      <4> HIDE DEF d, f, t
      <4> QED
        BY <1>1, <1>5, <2>2, <3>1, FailBeginStep
    <3>3. ProcessesOK'
      BY <1>1, <2>2 DEF ProcessesOK, IInv, api
    <3> QED
      BY <1>1, <3>2, <3>3, PipelinePreserves
  <2>3. CASE /\ FreeThreads # {} /\ BudgetLeft(e) /\ Save(d, again) /\ Begin(t, d, "backoff")
             /\ UNCHANGED <<api, killing, net>>
    <3>1. t \in Thread
      BY <2>3 DEF FreshThread, FreeThreads
    <3>2. f.attempts + 1 \in 0..MaxRetries
      BY <1>2, <1>4, <2>3, EngineBounds DEF BudgetLeft, LiveRecord
    <3>3. again \in LiveRecord /\ again.stopping = e.stopping /\ again.forget = e.forget
      <4> HIDE DEF f
      <4> QED
        BY <1>4, <3>2, StatesListed DEF LiveRecord
    <3>4. ~e.stopping /\ ~e.forget /\ ~IsTerminal(e.state)
      BY <1>2, <1>7 DEF Follows, Sane, IsTerminal, Terminal
    <3>5. row[d].state \notin Terminal
      BY <1>2, <3>4 DEF IInv, RecordsOK
    <3>6. RecordStep(d)
      <4> HIDE DEF again, d
      <4> QED
        BY <1>1, <2>3, <3>3, <3>4, <3>5, FreeFollows, SaveStep
    <3>7. ThreadsOK'
      BY <1>1, <2>3, <3>1, BeginKeepsThreads DEF PC, Spawned, api
    <3>8. NetOK' /\ ProcessesOK'
      BY <1>1, <2>3 DEF NetOK, ProcessesOK, IInv, api, net
    <3> QED
      BY <1>1, <2>3, <3>6, <3>7, <3>8, PipelinePreserves DEF PipelineStep
  <2> QED
    BY <1>7, <2>1, <2>2, <2>3 DEF Crashed
<1> QED
  BY <1>6, <1>7 DEF Exit

LEMMA EscalateStep ==
  ASSUME IInv, NEW i \in Instance, Escalate(i)
  PROVE  IInv' /\ AllFollow
<1>1. NetOK'
  BY DEF Escalate, NetOK, IInv, net, Sent
<1>2. AllFollow
  BY OthersFollow DEF AllFollow, Escalate
<1> QED
  BY <1>1, <1>2 DEF Escalate, IInv, RecordsOK, TeardownsOK, ThreadsOK, ProcessesOK, Sane, api

LEMMA StableTimerStep ==
  ASSUME IInv, NEW d \in Deployment, StableTimer(d)
  PROVE  IInv' /\ AllFollow
<1> DEFINE f == [dep[d] EXCEPT !.attempts = 0, !.stable = FALSE]
<1>1. d \in 1..made
  BY EngineBounds DEF StableTimer, IInv, RecordsOK, NewLive, Deployment
<1>2. /\ f \in LiveRecord /\ f.state = dep[d].state /\ f.stopping = dep[d].stopping
      /\ f.forget = dep[d].forget /\ f.available = dep[d].available
  <2>1. 0 \in 0..MaxRetries
    BY EngineBounds
  <2> QED
    BY <1>1, <2>1, OwnFollows DEF LiveRecord
<1>3. RecordStep(d)
  <2>1. Write(d, f)
    BY DEF StableTimer
  <2> HIDE DEF f
  <2> QED
    BY <1>1, <1>2, <2>1, SameFollows, WriteStep
<1>4. ThreadsOK' /\ NetOK' /\ ProcessesOK' /\ UNCHANGED api
  BY DEF StableTimer, ThreadsOK, NetOK, ProcessesOK, IInv, api, net
<1> QED
  BY <1>1, <1>3, <1>4, PipelinePreserves DEF PipelineStep

LEMMA ForgetStep ==
  ASSUME IInv, NEW d \in Deployment, Forget(d)
  PROVE  IInv' /\ AllFollow
<1> DEFINE f == [dep[d] EXCEPT !.forget = FALSE]
<1>1. d \in 1..made /\ IsTerminal(dep[d].state)
  <2>1. dep[d].forget /\ Sane(dep[d]) /\ (d > made => dep[d] = NewLive)
    BY DEF Forget, IInv, RecordsOK
  <2>2. IsTerminal(dep[d].state) /\ ~(d > made)
    BY <2>1 DEF Sane, NewLive
  <2> QED
    BY <2>2, EngineBounds DEF IInv, RecordsOK, Deployment
<1>2. /\ f \in LiveRecord /\ f.state = dep[d].state /\ f.stopping = dep[d].stopping
      /\ ~f.forget /\ f.available = dep[d].available
  BY <1>1, OwnFollows DEF LiveRecord
<1>3. dep' = [dep EXCEPT ![d] = f]
  BY DEF Forget
<1>4. Follows(d, f)
  <2> HIDE DEF f
  <2> QED
    BY <1>1, <1>2, SameFollows
<1> HIDE DEF f
<1>5. /\ dep'[d] = f /\ dep' \in [Deployment -> LiveRecord]
      /\ \A c \in Deployment \ {d} : dep'[c] = dep[c]
      /\ row' = row /\ row \in [Deployment -> RowRecord]
  BY <1>2, <1>3 DEF Forget, IInv, RecordsOK
<1>6. AllFollow
  BY <1>1, <1>4, <1>5, RowLeftAlone, OthersFollow DEF AllFollow
<1>7. \A c \in 1..made : ~IsTerminal(dep'[c].state) => live' = c
  BY <1>1, <1>2, <1>5, MadeIsDeployment DEF Forget, IInv, RecordsOK
<1>8. ASSUME NEW c \in Deployment, c > made PROVE dep'[c] = NewLive
  <2>1. c # d
    BY <1>1, <1>8, EngineBounds DEF IInv, RecordsOK
  <2> QED
    BY <1>5, <1>8, <2>1 DEF IInv, RecordsOK
<1>9. RecordsOK'
  <2>1. made' = made /\ live' \in 0..made /\ made \in 0..MaxDeployments
    BY EngineBounds DEF Forget, IInv, RecordsOK, None
  <2>2. \A c \in Deployment :
          Sane(dep'[c]) /\ (row'[c].state \in Terminal => IsTerminal(dep'[c].state))
    BY <1>6 DEF AllFollow, Follows, RowFollows
  <2> QED
    BY <1>5, <1>7, <1>8, <2>1, <2>2 DEF RecordsOK
<1>10. TeardownsOK' /\ ThreadsOK' /\ ProcessesOK' /\ NetOK'
  BY <1>6 DEF Forget, TeardownsOK, ThreadsOK, ProcessesOK, NetOK, net, IInv, AllFollow, Follows
<1> QED
  BY <1>6, <1>9, <1>10 DEF IInv

(***************************************************************************)
(* The theorems                                                            *)
(***************************************************************************)
LEMMA InitIsGood == Init => IInv
<1> SUFFICES ASSUME Init PROVE IInv
  OBVIOUS
<1>1. NewLive \in LiveRecord /\ ~NewLive.stopping /\ ~NewLive.forget
  <2>1. None \in 0..MaxInstances /\ 0 \in 0..MaxRetries
    BY EngineBounds DEF None
  <2> QED
    BY <2>1, StatesListed DEF NewLive, LiveRecord, Hosting
<1>2. [state |-> "none", desired |-> "running"] \in RowRecord
  BY DEF RowRecord
<1>3. NoTeardown \in Teardown /\ NoTeardown.pc = "idle"
  BY EngineBounds DEF NoTeardown, Teardown, None
<1>4. RecordsOK
  BY <1>1, <1>2, EngineBounds DEF Init, RecordsOK, Sane, None, Terminal
<1>5. TeardownsOK
  BY <1>3 DEF Init, TeardownsOK
<1>6. ThreadsOK
  BY IdleIsAThread DEF Init, ThreadsOK, Idle, Spawned
<1>7. ProcessesOK /\ NetOK
  BY EngineBounds DEF Init, ProcessesOK, NetOK, None, Sent
<1> QED
  BY <1>4, <1>5, <1>6, <1>7 DEF IInv

LEMMA NextIsGood == IInv /\ [Next]_vars => IInv' /\ AllFollow
<1> SUFFICES ASSUME IInv, [Next]_vars PROVE IInv' /\ AllFollow
  OBVIOUS
<1>1. CASE Request
  BY <1>1, DeployStep, RestartStep, StopStep DEF Request
<1>2. ASSUME NEW t \in Thread, Step(t) \/ Fault(t)
      PROVE  IInv' /\ AllFollow
  BY <1>2, RunStep, PipelinePreserves DEF Moves
<1>3. ASSUME NEW d \in Deployment,
             TeardownClosed(d) \/ TeardownStopped(d) \/ Forget(d) \/ StableTimer(d)
      PROVE  IInv' /\ AllFollow
  BY <1>3, TeardownStep, ForgetStep, StableTimerStep
<1>4. ASSUME NEW i \in Instance, Escalate(i) \/ Exit(i)
      PROVE  IInv' /\ AllFollow
  BY <1>4, EscalateStep, ExitStep
<1>5. CASE UNCHANGED vars
  <2>1. AllFollow
    BY <1>5, OthersFollow DEF AllFollow, vars
  <2> QED
    BY <1>5, <2>1
    DEF vars, IInv, RecordsOK, TeardownsOK, ThreadsOK, ProcessesOK, NetOK, Sane
<1> QED
  BY <1>1, <1>2, <1>3, <1>4, <1>5 DEF Next

LEMMA AlwaysGood == Spec => []IInv
<1>1. IInv /\ [Next]_vars => IInv'
  BY NextIsGood
<1> QED
  BY <1>1, InitIsGood, PTL DEF Spec

\* Every variable keeps its type: no handler leaves engine.live, a Live record, a row
\* or a suspended run in a shape the code does not have.
THEOREM EngineTypes == Spec => []TypeOK
<1>1. IInv => TypeOK
  BY IInvIsConsistent
<1> QED
  BY <1>1, AlwaysGood, PTL

\* deploy() never starts a second pipeline beside an unfinished one, whatever stops,
\* restarts, crashes and failures happened before.
THEOREM EngineOneDeployment == Spec => []OneDeploymentAtATime
<1>1. IInv => OneDeploymentAtATime
  BY IInvIsConsistent DEF Consistent
<1> QED
  BY <1>1, AlwaysGood, PTL

\* The inductive invariant itself, in the form TLC checks.
THEOREM EngineConsistent == Spec => []Consistent
<1>1. IInv => Consistent
  BY IInvIsConsistent
<1> QED
  BY <1>1, AlwaysGood, PTL

\* A launch, a restart or a crash handler that was suspended when a stop came in
\* cannot revive the deployment when it resumes.
THEOREM EngineStopIsFinal == Spec => StopIsFinal
<1>1. IInv /\ [Next]_vars =>
        [\A d \in Deployment : dep[d].stopping =>
           /\ dep'[d].stopping
           /\ dep'[d].state \in {dep[d].state, "STOPPED", "FAILED"}
           /\ dep'[d].available => dep[d].available]_vars
  BY NextIsGood DEF AllFollow, Follows
<1> QED
  BY <1>1, AlwaysGood, PTL DEF Spec, StopIsFinal

\* A row that says STOPPED or FAILED keeps saying it, also when a late fail() or
\* teardown of the same deployment finishes afterwards.
THEOREM EngineRowsStay == Spec => FinishedRowsStay
<1>1. IInv /\ [Next]_vars =>
        [\A d \in Deployment : row[d].state \in Terminal => row'[d].state = row[d].state]_vars
  BY NextIsGood DEF AllFollow, RowFollows
<1> QED
  BY <1>1, AlwaysGood, PTL DEF Spec, FinishedRowsStay

(***************************************************************************)
(* Processes, launches and the gateway                                     *)
(*                                                                         *)
(* A run drives a deployment unless it is idle or cleaning up after a      *)
(* failure.  InStep says of one deployment what its driver, its teardown,  *)
(* its process and its gateway know of each other; a step changes one      *)
(* deployment, so the proof asks what the step does to that one.  A        *)
(* process is vital until it exits or is sent SIGKILL: that is what kill() *)
(* waits for, and KillsStay says that no SIGKILL is taken back before.     *)
(***************************************************************************)
Vital == alive \ Killed
KillsStay == alive' \cap Killed \subseteq Killed'
Signals == UNCHANGED killing \/ \E i \in 0..MaxInstances : Signal(i)

\* No process exits, or only processes of d do.
Exits(d) == alive' \subseteq alive /\ \A i \in alive \ alive' : owner[i] = d

Driving == PC \ {"idle", "failStop", "failClose"}
BeforeSpawn == {"detect", "prepare", "install", "build", "allocApp"}
Drives(t, d) == thr[t].dep = d /\ thr[t].pc \in Driving
Undriven(d) == \A t \in Thread : ~Drives(t, d)
Serving(e) == e.state = "LIVE" \/ e.available
Exposed == {"allocShare", "listen", "probe", "lan"}
Over == {"STOPPING", "STOPPED", "FAILED"}

\* What a run may rely on when it resumes: e is the record of its deployment.
Fit(r, e, running) ==
  /\ r.pc \in BeforeSpawn => e.instance = None
  /\ r.pc \in {"start", "backoff"} => e.instance \notin running
  /\ r.pc # "relaunchStop" => ~e.relaunching
  /\ r.pc \in Exposed => e.state \in Over \cup {"EXPOSING"}
  /\ r.pc \in Spawned \cup {"relaunchStop"} => r.inst = e.instance
  /\ r.pc \in {"probe", "lan"} => e.gateway = None \/ e.target = e.instance

\* What holds of a Live record on its own.
Sound(e) ==
  /\ e.state = "STOPPING" => e.stopping
  /\ e.available => e.state \in {"LIVE", "STOPPING"} /\ e.target = e.instance
  /\ e.relaunching => e.state \notin {"EXPOSING", "LIVE"}

\* The process an exposed deployment serves with runs, or exited behind expose()'s back.
Manned(e, running) ==
  e.state = "EXPOSING" \/ (e.state = "LIVE" /\ e.available) =>
    e.instance \in running \/ e.missed

InStep(d) ==
  /\ Sound(dep[d])
  /\ Manned(dep[d], alive)
  /\ \A i \in Instance : owner[i] = d => /\ dep[d].instance # None
                                         /\ i \in Vital => i = dep[d].instance
  /\ dep[d].instance # None => owner[dep[d].instance] = d
  /\ dep[d].gateway # None => owner[dep[d].gateway] = d
  /\ \A t, u \in Thread : Drives(t, d) /\ Drives(u, d) => t = u
  /\ \A t \in Thread : Drives(t, d) => Fit(thr[t], dep[d], Vital) /\ ~Serving(dep[d])
  /\ td[d].pc = "stop" => td[d].inst # None

PInv == \A d \in Deployment : InStep(d)

\* STOPPED is entered with the gateway let go and no vital process left but one that
\* was spawned behind the teardown's back.
StopsClean(d) ==
  dep[d].state # "STOPPED" /\ dep'[d].state = "STOPPED" =>
    /\ \A i \in alive' \ Killed' : owner'[i] = d => td[d].inst \notin {None, i}
    /\ dep'[d].gateway = None
Kept == PInv' /\ \A d \in Deployment : StopsClean(d)

\* A deployment the step leaves alone: its record, its teardown, its processes, its runs.
LEMMA UntouchedInStep ==
  ASSUME KillsStay, NEW c \in Deployment, InStep(c), dep'[c] = dep[c], td'[c] = td[c],
         \A i \in Instance : owner'[i] = c <=> owner[i] = c,
         \A i \in Instance : owner[i] = c => (i \in alive' <=> i \in alive),
         dep[c].instance \in 0..MaxInstances, dep[c].gateway \in 0..MaxInstances,
         alive \subseteq Instance, alive' \subseteq Instance,
         \A t \in Thread : Drives(t, c)' => thr'[t] = thr[t]
  PROVE  InStep(c)' /\ StopsClean(c)
<1>1. \A t \in Thread : Drives(t, c)' => Drives(t, c) /\ thr'[t] = thr[t]
  BY DEF Drives
<1>2. dep[c].instance \in alive' <=> dep[c].instance \in alive
  BY DEF InStep, None, Instance
<1>3. dep[c].instance \in Vital' => dep[c].instance \in Vital
  BY <1>2 DEF Vital, KillsStay
<1>4. \A t \in Thread : Drives(t, c)' => Fit(thr'[t], dep'[c], Vital')
  <2> SUFFICES ASSUME NEW t \in Thread, Drives(t, c)' PROVE Fit(thr'[t], dep'[c], Vital')
    OBVIOUS
  <2>1. Fit(thr[t], dep[c], Vital)
    BY <1>1 DEF InStep
  <2> QED
    BY <1>1, <1>3, <2>1 DEF Fit
<1>5. /\ dep[c].instance # None => owner'[dep[c].instance] = c
      /\ dep[c].gateway # None => owner'[dep[c].gateway] = c
  BY EngineBounds DEF InStep, None, Instance
<1>6. Sound(dep'[c]) /\ Manned(dep'[c], alive')
  BY <1>2 DEF InStep, Manned
<1>7. \A i \in Instance : owner'[i] = c => /\ dep'[c].instance # None
                                           /\ i \in Vital' => i = dep'[c].instance
  BY DEF InStep, Vital, KillsStay
<1> QED
  BY <1>1, <1>4, <1>5, <1>6, <1>7 DEF InStep, StopsClean, Sound, Serving, Manned

\* The deployment the step changes: f is its new record, t the run that moves.
LEMMA TouchedInStep ==
  ASSUME KillsStay, NEW d \in Deployment, InStep(d), NEW t \in Thread, NEW f, dep'[d] = f,
         owner' = owner, alive' \subseteq alive,
         \A s \in Thread \ {t} : thr'[s] = thr[s],
         f.instance = dep[d].instance, Sound(f), Manned(f, alive'),
         Drives(t, d)' => /\ Drives(t, d) \/ Undriven(d)
                          /\ Fit(thr'[t], dep'[d], Vital') /\ ~Serving(f),
         Serving(f) => Serving(dep[d]) \/ Drives(t, d),
         \/ Drives(t, d) \/ Undriven(d)
         \/ /\ f.state \in {dep[d].state} \cup Over
            /\ f.relaunching => dep[d].relaunching,
         f.gateway \in {None, dep[d].gateway, f.instance},
         \/ f.gateway = None \/ Drives(t, d)
         \/ f.gateway = dep[d].gateway /\ f.target = dep[d].target,
         td'[d].pc = "stop" => td'[d].inst # None
  PROVE  InStep(d)'
<1>1. \A s \in Thread \ {t} : Drives(s, d)' => Drives(s, d) /\ thr'[s] = thr[s]
  BY DEF Drives
<1>2. \A s, u \in Thread : Drives(s, d)' /\ Drives(u, d)' => s = u
  BY <1>1 DEF InStep, Undriven
<1>3. \A s \in Thread \ {t} : Drives(s, d)' =>
        ~Drives(t, d) /\ ~Undriven(d) /\ Fit(thr[s], dep[d], Vital)
  BY <1>1 DEF InStep, Undriven
<1>4. Vital' \subseteq Vital
  BY DEF Vital, KillsStay
<1>5. \A s \in Thread : Drives(s, d)' => Fit(thr'[s], dep'[d], Vital') /\ ~Serving(f)
  <2> SUFFICES ASSUME NEW s \in Thread \ {t}, Drives(s, d)'
               PROVE  Fit(thr'[s], dep'[d], Vital') /\ ~Serving(f)
    OBVIOUS
  <2>1. /\ Fit(thr[s], dep[d], Vital) /\ thr'[s] = thr[s] /\ ~Drives(t, d)
        /\ ~Undriven(d) /\ ~Serving(dep[d])
    BY <1>1, <1>3 DEF InStep
  <2> QED
    BY <1>4, <2>1 DEF Fit
<1>6. \A i \in Instance : owner'[i] = d => /\ dep'[d].instance # None
                                           /\ i \in Vital' => i = dep'[d].instance
  BY <1>4 DEF InStep
<1>7. /\ dep'[d].instance # None => owner'[dep'[d].instance] = d
      /\ dep'[d].gateway # None => owner'[dep'[d].gateway] = d
  BY DEF InStep
<1> QED
  BY <1>2, <1>5, <1>6, <1>7 DEF InStep, Sound, Serving, Manned

\* A step of one deployment that moves one run and leaves its teardown alone.
Moved(d, t, u, f) ==
  /\ dep' = [dep EXCEPT ![d] = f]
  /\ thr' = [thr EXCEPT ![t] = u]
  /\ td' = td /\ owner' = owner

\* What f may be, seen from the record before.
Changes(d, t, f) ==
  /\ f.instance = dep[d].instance
  /\ Sound(f)
  /\ Manned(f, alive')
  /\ Serving(f) => Serving(dep[d]) \/ Drives(t, d)
  /\ \/ Drives(t, d) \/ Undriven(d)
     \/ /\ f.state \in {dep[d].state} \cup Over
        /\ f.relaunching => dep[d].relaunching
  /\ f.gateway \in {None, dep[d].gateway, f.instance}
  /\ \/ f.gateway = None \/ Drives(t, d)
     \/ f.gateway = dep[d].gateway /\ f.target = dep[d].target
  /\ f.state = "STOPPED" => dep[d].state = "STOPPED"

\* What the run may go on as.
Resumes(d, t, u, f) ==
  u.pc \in Driving => /\ u.dep = d /\ ~Serving(f)
                      /\ Drives(t, d) \/ Undriven(d)
                      /\ Fit(u, f, Vital')

LEMMA MovedKeeps ==
  ASSUME IInv, PInv, KillsStay, NEW d \in Deployment, NEW t \in Thread, NEW u, NEW f,
         Moved(d, t, u, f), Changes(d, t, f), Resumes(d, t, u, f), Exits(d)
  PROVE  Kept
<1>1. /\ dep'[d] = f /\ thr'[t] = u
      /\ \A c \in Deployment \ {d} : dep'[c] = dep[c]
      /\ \A s \in Thread \ {t} : thr'[s] = thr[s]
  BY DEF Moved, IInv, RecordsOK, ThreadsOK
<1>2. ASSUME NEW c \in Deployment \ {d} PROVE InStep(c)' /\ StopsClean(c)
  <2>1. \A s \in Thread : Drives(s, c)' => thr'[s] = thr[s]
    <3>1. ~Drives(t, c)'
      BY <1>1, <1>2 DEF Drives, Resumes
    <3> QED
      BY <1>1, <3>1
  <2>2. /\ dep[c].instance \in 0..MaxInstances /\ dep[c].gateway \in 0..MaxInstances
        /\ alive \subseteq Instance /\ alive' \subseteq Instance
    BY DEF IInv, RecordsOK, LiveRecord, ProcessesOK, Exits
  <2>3. \A i \in Instance : owner[i] = c => (i \in alive' <=> i \in alive)
    BY <1>2 DEF Exits
  <2> QED
    BY <1>1, <1>2, <2>1, <2>2, <2>3, UntouchedInStep DEF Moved, PInv
<1>3. StopsClean(d)
  BY <1>1 DEF StopsClean, Changes
<1>4. Drives(t, d)' => Fit(thr'[t], dep'[d], Vital')
  BY <1>1 DEF Drives, Resumes
<1>5. td'[d].pc = "stop" => td'[d].inst # None
  BY DEF Moved, PInv, InStep
<1>6. Drives(t, d)' => Drives(t, d) \/ Undriven(d)
  BY <1>1 DEF Drives, Resumes
<1>7. Drives(t, d)' => ~Serving(f)
  BY <1>1 DEF Drives, Resumes
<1>8. InStep(d)'
  BY <1>1, <1>4, <1>5, <1>6, <1>7, TouchedInStep DEF Moved, Changes, PInv, Exits
<1> QED
  BY <1>2, <1>3, <1>8 DEF Kept, PInv

-----------------------------------------------------------------------------
(* fail()                                                                  *)

\* Runs that clean up drive nothing.
LEMMA CleaningUp ==
  ASSUME NEW d, NEW t, NEW u, NEW f, u.pc \in {"idle", "failStop", "failClose"}
  PROVE  Resumes(d, t, u, f)
  BY DEF Resumes, Driving

\* What fail() leaves: the record the caller had, or FAILED with the gateway let go.
FailMoves(d, t, e) ==
  \E u, f :
    /\ dep' = [dep EXCEPT ![d] = f]
    /\ thr' = [thr EXCEPT ![t] = u]
    /\ u.pc \in {"idle", "failStop", "failClose"} /\ (u.pc = "idle" \/ u.dep = d)
    /\ \/ f = e
       \/ /\ f.state = "FAILED" /\ f.instance = e.instance /\ ~f.available /\ f.gateway = None
        /\ f.relaunching = e.relaunching

LEMMA FailFinishMoves ==
  ASSUME NEW d, NEW t, NEW e \in LiveRecord, FailFinish(t, d, e)
  PROVE  FailMoves(d, t, e)
<1> DEFINE g == [Released(e) EXCEPT !.state = "FAILED", !.forget = TRUE]
           f == Hosted(g, "failed")
<1>1. g.state = "FAILED" /\ ~g.available /\ g.gateway = None /\ g.instance = e.instance
      /\ g.relaunching = e.relaunching
  BY DEF Released, LiveRecord
<1>2. f.state = "FAILED" /\ ~f.available /\ f.gateway = None /\ f.instance = e.instance
      /\ f.relaunching = e.relaunching
  <2>1. g \in [DOMAIN e -> {g[x] : x \in DOMAIN e}]
    BY DEF Released, LiveRecord
  <2> HIDE DEF g
  <2> QED
    BY <1>1, <2>1 DEF Hosted, LiveRecord
<1>3. dep' = [dep EXCEPT ![d] = f] /\ thr' = [thr EXCEPT ![t] = Idle] /\ Idle.pc = "idle"
  BY DEF FailFinish, Park, Idle
<1> HIDE DEF f
<1> QED
  BY <1>2, <1>3 DEF FailMoves

LEMMA CleanupMoves ==
  ASSUME NEW d, NEW t, NEW e, dep' = [dep EXCEPT ![d] = e],
         NEW u, thr' = [thr EXCEPT ![t] = u], u.pc \in {"idle", "failStop", "failClose"},
         u.pc = "idle" \/ u.dep = d
  PROVE  FailMoves(d, t, e)
  BY DEF FailMoves

LEMMA FailGatewayMoves ==
  ASSUME NEW d, NEW t, NEW e \in LiveRecord, FailGateway(t, d, e)
  PROVE  FailMoves(d, t, e)
<1>1. CASE e.gateway = None /\ FailFinish(t, d, e)
  BY <1>1, FailFinishMoves
<1>2. CASE Write(d, e) /\ Begin(t, d, "failClose")
  <2> DEFINE u == [Idle EXCEPT !.pc = "failClose", !.dep = d]
  <2>1. u.pc = "failClose" /\ u.dep = d /\ thr' = [thr EXCEPT ![t] = u]
    BY <1>2 DEF Idle, Begin
  <2> HIDE DEF u
  <2> QED
    BY <1>2, <2>1, CleanupMoves DEF Write
<1> QED
  BY <1>1, <1>2 DEF FailGateway

LEMMA FailBeginMoves ==
  ASSUME NEW d, NEW t, NEW e \in LiveRecord, FailBegin(t, d, e)
  PROVE  FailMoves(d, t, e)
<1>1. CASE FailGateway(t, d, e)
  BY <1>1, FailGatewayMoves
<1>2. CASE Write(d, e) /\ Park(t)
  <2>1. Idle.pc = "idle"
    BY DEF Idle
  <2> QED
    BY <1>2, <2>1, CleanupMoves DEF Write, Park
<1>3. CASE /\ Write(d, e)
           /\ thr' = [thr EXCEPT ![t] = [Idle EXCEPT !.pc = "failStop", !.dep = d,
                                                     !.inst = e.instance]]
  <2> DEFINE u == [Idle EXCEPT !.pc = "failStop", !.dep = d, !.inst = e.instance]
  <2>1. u.pc = "failStop" /\ u.dep = d /\ thr' = [thr EXCEPT ![t] = u]
    BY <1>3 DEF Idle
  <2> HIDE DEF u
  <2> QED
    BY <1>3, <2>1, CleanupMoves DEF Write
<1> QED
  BY <1>1, <1>2, <1>3 DEF FailBegin

LEMMA FailedKeeps ==
  ASSUME IInv, PInv, KillsStay, NEW d \in 1..made, NEW t \in Thread, NEW e, Changes(d, t, e),
         UNCHANGED <<td, owner>>, Exits(d), FailMoves(d, t, e)
  PROVE  Kept
<1>1. PICK u, f :
        /\ dep' = [dep EXCEPT ![d] = f]
        /\ thr' = [thr EXCEPT ![t] = u]
        /\ u.pc \in {"idle", "failStop", "failClose"}
        /\ \/ f = e
           \/ /\ f.state = "FAILED" /\ f.instance = e.instance /\ ~f.available
              /\ f.gateway = None /\ f.relaunching = e.relaunching
  BY DEF FailMoves
<1>2. Changes(d, t, f)
  BY <1>1 DEF Changes, Sound, Serving, Manned, Over
<1>3. Resumes(d, t, u, f)
  BY <1>1, CleaningUp
<1> QED
  BY <1>1, <1>2, <1>3, MadeIsDeployment, MovedKeeps DEF Moved

LEMMA FailKeeps ==
  ASSUME IInv, PInv, KillsStay, NEW d \in 1..made, NEW t \in Thread, NEW e \in LiveRecord,
         Changes(d, t, e), UNCHANGED <<td, owner>>, Exits(d), FailBegin(t, d, e)
  PROVE  Kept
  BY FailBeginMoves, FailedKeeps

\* A record that only drops its timers, flags or gateway is a change of nothing else.
LEMMA OwnChanges ==
  ASSUME PInv, NEW d \in Deployment, NEW t, NEW f, f.instance = dep[d].instance,
         f.state = dep[d].state, f.stopping = dep[d].stopping,
         f.available => dep[d].available, f.relaunching => dep[d].relaunching,
         f.gateway = dep[d].gateway, f.target = dep[d].target,
         \/ alive' = alive /\ f.missed = dep[d].missed
         \/ f.state # "EXPOSING" /\ ~f.available
  PROVE  Changes(d, t, f)
<1>1. Sound(dep[d]) /\ Manned(dep[d], alive)
  BY DEF PInv, InStep
<1>2. Manned(f, alive')
  BY <1>1 DEF Manned
<1> QED
  BY <1>1, <1>2 DEF Changes, Sound, Serving

LEMMA NobodyExits ==
  ASSUME alive' = alive, NEW d
  PROVE  Exits(d)
  BY DEF Exits

LEMMA ThrowsKeep ==
  ASSUME IInv, PInv, KillsStay, NEW t \in Thread, NEW pc, pc # "idle", Throws(t, pc)
  PROVE  Kept
<1> DEFINE d == thr[t].dep
<1>1. d \in 1..made /\ d \in Deployment /\ dep[d] \in LiveRecord
  BY Working DEF Throws, At
<1>2. Changes(d, t, dep[d])
  BY <1>1, OwnChanges DEF Throws
<1> QED
  BY <1>1, <1>2, FailKeeps, NobodyExits DEF Throws, api

-----------------------------------------------------------------------------
(* The runs                                                                *)

\* What the run that moves knows: it alone drives its deployment, which serves nobody.
LEMMA Driver ==
  ASSUME IInv, PInv, KillsStay, NEW t \in Thread, thr[t].pc \in Driving
  PROVE  /\ thr[t] \in ThreadRecord
         /\ thr[t].dep \in 1..made /\ thr[t].dep \in Deployment
         /\ dep[thr[t].dep] \in LiveRecord
         /\ Drives(t, thr[t].dep) /\ ~Serving(dep[thr[t].dep])
         /\ Fit(thr[t], dep[thr[t].dep], Vital)
         /\ Sound(dep[thr[t].dep])
<1>1. thr[t].pc # "idle"
  BY DEF Driving
<1>2. Drives(t, thr[t].dep)
  BY DEF Drives
<1> QED
  BY <1>1, <1>2, Working DEF PInv, InStep

\* It goes on with its deployment, still serving nobody.
LEMMA DriverKeeps ==
  ASSUME IInv, PInv, KillsStay, NEW t \in Thread, thr[t].pc \in Driving, NEW f,
         NEW u, u.dep = thr[t].dep, Moved(thr[t].dep, t, u, f),
         f.instance = dep[thr[t].dep].instance,
         f.state \in Running \cup {dep[thr[t].dep].state},
         f.stopping = dep[thr[t].dep].stopping, ~Serving(f),
         ~f.relaunching, f.gateway \in {dep[thr[t].dep].gateway, f.instance},
         Fit(u, f, Vital'), Manned(f, alive'), alive' = alive
  PROVE  Kept
<1> DEFINE d == thr[t].dep
<1>1. Changes(d, t, f)
  BY Driver DEF Changes, Sound, Serving, Running
<1>2. Resumes(d, t, u, f)
  BY Driver DEF Resumes
<1> QED
  BY <1>1, <1>2, Driver, MovedKeeps, NobodyExits

\* It leaves its deployment to itself.
LEMMA ParkKeeps ==
  ASSUME IInv, PInv, KillsStay, NEW t \in Thread, thr[t].pc \in Driving, Park(t),
         UNCHANGED <<dep, td, owner, alive>>
  PROVE  Kept
<1> DEFINE d == thr[t].dep
<1>1. Changes(d, t, dep[d])
  BY Driver, OwnChanges
<1>2. Resumes(d, t, Idle, dep[d])
  BY CleaningUp DEF Idle
<1>3. Moved(d, t, Idle, dep[d])
  BY Driver DEF Moved, Park, IInv, RecordsOK
<1> QED
  BY <1>1, <1>2, <1>3, Driver, MovedKeeps, NobodyExits

LEMMA SaveIsWrite ==
  ASSUME NEW d, NEW e, Save(d, e) \/ Write(d, e)
  PROVE  dep' = [dep EXCEPT ![d] = e]
  BY DEF Save, Write

\* The record keeps everything but the state it enters.
LEMMA EnteredRecord ==
  ASSUME NEW e \in LiveRecord, NEW to \in DeploymentState
  PROVE  LET f == [e EXCEPT !.state = to] IN
         /\ f.state = to /\ f.instance = e.instance /\ f.stopping = e.stopping
         /\ f.available = e.available /\ f.gateway = e.gateway /\ f.target = e.target
         /\ f.relaunching = e.relaunching /\ f.missed = e.missed
  BY DEF LiveRecord

LEMMA GotoRun ==
  ASSUME IInv, NEW t \in Thread, thr[t].pc # "idle", NEW pc
  PROVE  LET u == [thr[t] EXCEPT !.pc = pc] IN
         u.pc = pc /\ u.dep = thr[t].dep /\ u.inst = thr[t].inst
  BY Working DEF ThreadRecord

LEMMA AdvanceKeeps ==
  ASSUME IInv, PInv, KillsStay, NEW t \in Thread, thr[t].pc \in BeforeSpawn,
         NEW to \in Running \ {"EXPOSING", "LIVE"}, NEW pc \in BeforeSpawn, UNCHANGED <<td, owner, alive>>,
         Advance(t, thr[t].dep, dep[thr[t].dep], to, pc)
  PROVE  Kept
<1> DEFINE d == thr[t].dep
           f == [dep[d] EXCEPT !.state = to]
           u == [thr[t] EXCEPT !.pc = pc]
<1>1. thr[t].pc \in Driving /\ thr[t].pc # "idle"
  BY DEF Driving, BeforeSpawn, PC
<1>2. CASE FailBegin(t, d, dep[d])
  BY <1>1, <1>2, Driver, OwnChanges, FailKeeps, NobodyExits
<1>3. CASE Save(d, f) /\ Goto(t, pc)
  <2>1. /\ f.state = to /\ f.instance = dep[d].instance /\ f.stopping = dep[d].stopping
        /\ f.available = dep[d].available /\ f.relaunching = dep[d].relaunching
        /\ f.gateway = dep[d].gateway
    BY <1>1, Driver, EnteredRecord, RunningIsState
  <2>2. u.pc = pc /\ u.dep = d
    BY <1>1, GotoRun
  <2>3. Moved(d, t, u, f)
    BY <1>3, SaveIsWrite DEF Moved, Goto
  <2> HIDE DEF u, f
  <2>4. Fit(u, f, Vital') /\ ~f.relaunching
    BY <1>1, <2>1, <2>2, Driver DEF Fit, BeforeSpawn, Spawned, Exposed
  <2>5. ~Serving(f) /\ Manned(f, alive')
    BY <1>1, <2>1, Driver DEF Serving, Manned
  <2> QED
    BY <1>1, <2>1, <2>2, <2>3, <2>4, <2>5, DriverKeeps DEF BeforeSpawn
<1> QED
  BY <1>2, <1>3 DEF Advance

LEMMA DetectKeeps ==
  ASSUME IInv, PInv, KillsStay, NEW t \in Thread, Detect(t)
  PROVE  Kept
<1> DEFINE d == thr[t].dep
           f == [dep[d] EXCEPT !.state = "PREPARING"]
           u == [thr[t] EXCEPT !.pc = "prepare"]
<1>1. thr[t].pc = "detect" /\ thr[t].pc \in Driving /\ thr[t].pc # "idle"
      /\ UNCHANGED <<td, owner, alive>>
  BY DEF Detect, At, Driving, PC, api
<1>2. CASE FailBegin(t, d, dep[d])
  BY <1>1, <1>2, Driver, OwnChanges, FailKeeps, NobodyExits
<1>3. CASE dep' = [dep EXCEPT ![d].state = "PREPARING"] /\ Goto(t, "prepare")
  <2>1. /\ f.state = "PREPARING" /\ f.instance = dep[d].instance
        /\ f.stopping = dep[d].stopping /\ f.available = dep[d].available
        /\ f.relaunching = dep[d].relaunching /\ f.gateway = dep[d].gateway
    BY <1>1, Driver, EnteredRecord, StatesListed
  <2>2. u.pc = "prepare" /\ u.dep = d
    BY <1>1, GotoRun
  <2>3. Moved(d, t, u, f)
    BY <1>1, <1>3 DEF Moved, Goto
  <2> HIDE DEF u, f
  <2>4. Fit(u, f, Vital') /\ ~f.relaunching
    BY <1>1, <2>1, <2>2, Driver DEF Fit, BeforeSpawn, Spawned, Exposed
  <2>5. ~Serving(f) /\ Manned(f, alive')
    BY <1>1, <2>1, Driver DEF Serving, Manned
  <2> QED
    BY <1>1, <2>1, <2>2, <2>3, <2>4, <2>5, DriverKeeps DEF Running
<1> QED
  BY <1>2, <1>3 DEF Detect

LEMMA StagesKeep ==
  ASSUME IInv, PInv, KillsStay, NEW t \in Thread, Prepare(t) \/ Install(t) \/ Build(t)
  PROVE  Kept
<1>1. thr[t].pc \in BeforeSpawn /\ UNCHANGED <<td, owner, alive>>
  BY DEF Prepare, Install, Build, At, NextStage, api, BeforeSpawn
<1>2. PICK s \in {"INSTALLING", "BUILDING", "ALLOCATING"} :
        Advance(t, thr[t].dep, dep[thr[t].dep], s,
                CASE s = "INSTALLING" -> "install" [] s = "BUILDING" -> "build"
                  [] OTHER -> "allocApp")
  BY DEF Prepare, Install, Build, NextStage
<1>3. CASE s = "INSTALLING" /\ Advance(t, thr[t].dep, dep[thr[t].dep], s, "install")
  BY <1>1, <1>3, AdvanceKeeps DEF Running, BeforeSpawn
<1>4. CASE s = "BUILDING" /\ Advance(t, thr[t].dep, dep[thr[t].dep], s, "build")
  BY <1>1, <1>4, AdvanceKeeps DEF Running, BeforeSpawn
<1>5. CASE s = "ALLOCATING" /\ Advance(t, thr[t].dep, dep[thr[t].dep], s, "allocApp")
  BY <1>1, <1>5, AdvanceKeeps DEF Running, BeforeSpawn
<1> QED
  BY <1>2, <1>3, <1>4, <1>5

\* STARTING is refused to a deployment that is being stopped.
LEMMA EnterIsNotStopping ==
  ASSUME NEW e, NEW to \in Running, MayEnter(e, to)
  PROVE  ~e.stopping
  BY DEF MayEnter, Running

LEMMA AllocateAppPortKeeps ==
  ASSUME IInv, PInv, KillsStay, NEW t \in Thread, AllocateAppPort(t)
  PROVE  Kept
<1> DEFINE d == thr[t].dep
           f == [dep[d] EXCEPT !.state = "STARTING"]
           u == [thr[t] EXCEPT !.pc = "start"]
<1>1. thr[t].pc = "allocApp" /\ thr[t].pc \in Driving /\ thr[t].pc # "idle"
      /\ UNCHANGED <<td, owner, alive>>
  BY DEF AllocateAppPort, At, Driving, PC, api
<1>2. CASE Park(t) /\ UNCHANGED dep
  BY <1>1, <1>2, ParkKeeps
<1>3. CASE MayEnter(dep[d], "STARTING") /\ Save(d, f) /\ Goto(t, "start")
  <2>1. /\ f.state = "STARTING" /\ f.instance = dep[d].instance
        /\ f.stopping = dep[d].stopping /\ f.available = dep[d].available
        /\ f.relaunching = dep[d].relaunching /\ f.gateway = dep[d].gateway
    BY <1>1, Driver, EnteredRecord, StatesListed
  <2>2. u.pc = "start" /\ u.dep = d /\ ~dep[d].stopping
    BY <1>1, <1>3, GotoRun, EnterIsNotStopping DEF Running
  <2>3. Moved(d, t, u, f)
    BY <1>1, <1>3, SaveIsWrite DEF Moved, Goto
  <2> HIDE DEF u, f
  <2>4. dep[d].instance = None /\ None \notin Vital' /\ ~dep[d].relaunching
    BY <1>1, Driver DEF Fit, BeforeSpawn, IInv, ProcessesOK, Instance, None, Vital
  <2>5. Fit(u, f, Vital') /\ ~f.relaunching
    BY <2>1, <2>2, <2>4 DEF Fit, BeforeSpawn, Spawned, Exposed
  <2>6. ~Serving(f) /\ Manned(f, alive')
    BY <1>1, <2>1, Driver DEF Serving, Manned
  <2> QED
    BY <1>1, <2>1, <2>2, <2>3, <2>5, <2>6, DriverKeeps DEF Running
<1> QED
  BY <1>2, <1>3 DEF AllocateAppPort

LEMMA LaunchKeeps ==
  ASSUME IInv, PInv, KillsStay, NEW d \in 1..made, NEW t \in Thread, NEW e \in LiveRecord,
         Changes(d, t, e), ~e.available, e.instance \notin Vital', ~e.relaunching,
         Drives(t, d) \/ Undriven(d), UNCHANGED <<td, owner>>, Exits(d), Launch(t, d, e)
  PROVE  Kept
<1> DEFINE f == [e EXCEPT !.state = "STARTING"]
           u == [Idle EXCEPT !.pc = "start", !.dep = d]
<1>1. CASE FailBegin(t, d, e)
  BY <1>1, FailKeeps
<1>2. CASE MayEnter(e, "STARTING") /\ Save(d, f) /\ Begin(t, d, "start")
  <2>1. /\ f.state = "STARTING" /\ f.instance = e.instance /\ f.stopping = e.stopping
        /\ ~f.available /\ f.gateway = e.gateway /\ f.target = e.target /\ ~f.relaunching
    BY EnteredRecord, StatesListed
  <2>2. u.pc = "start" /\ u.dep = d
    BY DEF Idle
  <2>3. Moved(d, t, u, f)
    BY <1>2, SaveIsWrite DEF Moved, Begin
  <2> HIDE DEF u, f
  <2>4. Changes(d, t, f)
    BY <2>1 DEF Changes, Sound, Serving, Manned
  <2>5. Resumes(d, t, u, f)
    BY <2>1, <2>2 DEF Resumes, Fit, BeforeSpawn, Spawned, Serving, Exposed
  <2> QED
    BY <2>3, <2>4, <2>5, MadeIsDeployment, MovedKeeps
<1> QED
  BY <1>1, <1>2 DEF Launch

LEMMA RelaunchKeeps ==
  ASSUME IInv, PInv, KillsStay, NEW t \in Thread, RelaunchStopped(t) \/ Backoff(t)
  PROVE  Kept
<1> DEFINE d == thr[t].dep
           f == [dep[d] EXCEPT !.relaunching = FALSE]
<1>1. thr[t].pc \in {"relaunchStop", "backoff"} /\ thr[t].pc \in Driving
      /\ UNCHANGED <<td, owner, alive>>
  BY DEF RelaunchStopped, Backoff, At, Driving, PC, api
<1>2. dep[d].instance \notin Vital' /\ ~dep[d].available
  BY <1>1, Driver DEF RelaunchStopped, Backoff, At, Exited, Fit, Serving, Vital, KillsStay
<1>3. /\ f \in LiveRecord /\ f.instance = dep[d].instance /\ f.state = dep[d].state
      /\ f.stopping = dep[d].stopping /\ f.available = dep[d].available
      /\ f.gateway = dep[d].gateway /\ f.target = dep[d].target
      /\ ~f.relaunching /\ f.missed = dep[d].missed
  <2>1. PICK e \in LiveRecord : e = dep[d]
    BY <1>1, Driver
  <2>2. f = [e EXCEPT !.relaunching = FALSE]
    BY <2>1
  <2> HIDE DEF f, d
  <2>3. f \in LiveRecord
    BY <2>2 DEF LiveRecord
  <2>4. /\ f.instance = e.instance /\ f.state = e.state /\ f.stopping = e.stopping
        /\ f.available = e.available /\ f.gateway = e.gateway /\ f.target = e.target
        /\ ~f.relaunching /\ f.missed = e.missed
    BY <2>2 DEF LiveRecord
  <2> QED
    BY <2>1, <2>3, <2>4
<1>4. CASE Launch(t, d, f)
  <2> HIDE DEF f
  <2>1. Changes(d, t, f)
    BY <1>1, <1>3, Driver, OwnChanges
  <2> QED
    BY <1>1, <1>2, <1>3, <1>4, <2>1, Driver, LaunchKeeps, NobodyExits
<1>5. CASE thr[t].pc = "backoff" /\ Launch(t, d, dep[d])
  <2>1. Changes(d, t, dep[d]) /\ ~dep[d].relaunching
    BY <1>1, <1>5, Driver, OwnChanges DEF Fit
  <2> QED
    BY <1>1, <1>2, <1>5, <2>1, Driver, LaunchKeeps, NobodyExits
<1> QED
  BY <1>4, <1>5 DEF RelaunchStopped, Backoff, At

LEMMA HealthOkKeeps ==
  ASSUME IInv, PInv, KillsStay, NEW t \in Thread, HealthOk(t)
  PROVE  Kept
<1> DEFINE d == thr[t].dep
           e == dep[d]
           target == IF e.gateway = None THEN e.target ELSE thr[t].inst
           pc == IF e.gateway = None THEN "allocShare" ELSE "probe"
           f == [e EXCEPT !.state = "EXPOSING",
                          !.target = IF e.gateway = None THEN @ ELSE thr[t].inst]
           u == [thr[t] EXCEPT !.pc = pc]
<1>1. thr[t].pc = "health" /\ thr[t].pc \in Driving /\ thr[t].pc # "idle"
      /\ UNCHANGED <<td, owner, alive>>
  BY DEF HealthOk, At, Driving, PC, api
<1>2. CASE FailBegin(t, d, e)
  BY <1>1, <1>2, Driver, OwnChanges, FailKeeps, NobodyExits
<1>3. CASE Save(d, f) /\ Goto(t, pc)
  <2>1. /\ f.state = "EXPOSING" /\ f.instance = e.instance /\ f.stopping = e.stopping
        /\ f.available = e.available /\ f.gateway = e.gateway /\ f.target = target
        /\ f.relaunching = e.relaunching
    BY <1>1, Driver DEF LiveRecord
  <2>2. u.pc = pc /\ u.dep = d /\ u.inst = thr[t].inst
    BY <1>1, GotoRun
  <2>3. Moved(d, t, u, f)
    BY <1>1, <1>3, SaveIsWrite DEF Moved, Goto
  <2> HIDE DEF u, f
  <2>4. thr[t].inst = e.instance /\ thr[t].inst \in alive /\ ~e.relaunching
    BY <1>1, Driver DEF Fit, Spawned, HealthOk
  <2>5. Fit(u, f, Vital') /\ ~f.relaunching
    BY <2>1, <2>2, <2>4 DEF Fit, BeforeSpawn, Exposed
  <2>6. ~Serving(f) /\ Manned(f, alive')
    BY <1>1, <2>1, <2>4, Driver DEF Serving, Manned
  <2> QED
    BY <1>1, <2>1, <2>2, <2>3, <2>5, <2>6, DriverKeeps DEF Running
<1> QED
  BY <1>2, <1>3 DEF HealthOk

\* A run that only moves on: nothing it could rely on at its new place is new.
LEMMA GotoKeeps ==
  ASSUME IInv, PInv, KillsStay, NEW t \in Thread, thr[t].pc \in Spawned, NEW u, u.dep = thr[t].dep,
         u.inst = thr[t].inst,
         u.pc = "giveUp" \/ (thr[t].pc \in Exposed /\ u.pc \in {"listen", "allocShare"}),
         thr' = [thr EXCEPT ![t] = u], UNCHANGED <<dep, td, owner, alive>>
  PROVE  Kept
<1> DEFINE d == thr[t].dep
<1>1. thr[t].pc \in Driving
  BY DEF Spawned, Driving, PC
<1>2. Moved(d, t, u, dep[d])
  BY <1>1, Driver DEF Moved, IInv, RecordsOK
<1>3. Fit(u, dep[d], Vital') /\ ~dep[d].relaunching
  BY <1>1, Driver DEF Fit, BeforeSpawn, Exposed, Spawned
<1>4. Manned(dep[d], alive')
  BY <1>1, Driver DEF PInv, InStep
<1> QED
  BY <1>1, <1>2, <1>3, <1>4, Driver, DriverKeeps

LEMMA HealthOverKeeps ==
  ASSUME IInv, PInv, KillsStay, NEW t \in Thread,
         \/ HealthStopped(t) \/ HealthGone(t) \/ HealthTimeout(t) \/ GiveUp(t)
         \/ ListenFails(t) \/ Fault(t)
  PROVE  Kept
<1>1. CASE HealthStopped(t)
  <2>1. thr[t].pc \in Driving
    BY <1>1 DEF HealthStopped, At, Driving, PC
  <2> QED
    BY <1>1, <2>1, ParkKeeps DEF HealthStopped, api
<1>2. CASE HealthTimeout(t)
  <2> DEFINE u == [thr[t] EXCEPT !.pc = "giveUp"]
  <2>1. thr[t].pc \in Spawned /\ thr[t].pc # "idle"
    BY <1>2 DEF HealthTimeout, At, Spawned
  <2>2. u.pc = "giveUp" /\ u.dep = thr[t].dep /\ u.inst = thr[t].inst
    BY <2>1, GotoRun
  <2>3. thr' = [thr EXCEPT ![t] = u]
    BY <1>2 DEF HealthTimeout, Goto
  <2> HIDE DEF u
  <2> QED
    BY <1>2, <2>1, <2>2, <2>3, GotoKeeps DEF HealthTimeout, api
<1>3. CASE HealthGone(t) \/ GiveUp(t) \/ ListenFails(t) \/ Fault(t)
  BY <1>3, ThrowsKeep DEF HealthGone, GiveUp, ListenFails, Fault
<1> QED
  BY <1>1, <1>2, <1>3

LEMMA SharePortKeeps ==
  ASSUME IInv, PInv, KillsStay, NEW t \in Thread, AllocateSharePort(t) \/ ListenBusy(t)
  PROVE  Kept
<1>1. /\ thr[t].pc \in Spawned /\ thr[t].pc \in Exposed /\ thr[t].pc # "idle"
      /\ UNCHANGED <<dep, td, owner, alive>>
  BY DEF AllocateSharePort, ListenBusy, At, Spawned, Exposed, api
<1>2. CASE AllocateSharePort(t)
  <2> DEFINE u == [thr[t] EXCEPT !.pc = "listen"]
  <2>1. u.pc = "listen" /\ u.dep = thr[t].dep /\ u.inst = thr[t].inst
    BY <1>1, GotoRun
  <2>2. thr' = [thr EXCEPT ![t] = u]
    BY <1>2 DEF AllocateSharePort, Goto
  <2> HIDE DEF u
  <2> QED
    BY <1>1, <2>1, <2>2, GotoKeeps
<1>3. CASE ListenBusy(t)
  <2> DEFINE u == [thr[t] EXCEPT !.pc = "allocShare", !.tries = @ + 1]
  <2>1. u.pc = "allocShare" /\ u.dep = thr[t].dep /\ u.inst = thr[t].inst
    BY <1>1, Working DEF ThreadRecord
  <2>2. thr' = [thr EXCEPT ![t] = u]
    BY <1>3, <1>1 DEF ListenBusy, IInv, ThreadsOK
  <2> HIDE DEF u
  <2> QED
    BY <1>1, <2>1, <2>2, GotoKeeps
<1> QED
  BY <1>2, <1>3

\* ld.gateway is assigned, aimed at the process this launch started.
LEMMA ListenKeeps ==
  ASSUME IInv, PInv, KillsStay, NEW t \in Thread, Listen(t)
  PROVE  Kept
<1> DEFINE d == thr[t].dep
           f == Opened(dep[d], thr[t].inst)
           u == [thr[t] EXCEPT !.pc = "probe"]
<1>1. thr[t].pc = "listen" /\ thr[t].pc \in Driving /\ thr[t].pc # "idle"
      /\ UNCHANGED <<td, owner, alive>>
  BY DEF Listen, At, Driving, PC, api
<1>2. /\ f.state = dep[d].state /\ f.instance = dep[d].instance
      /\ f.stopping = dep[d].stopping /\ ~f.available /\ f.target = thr[t].inst
      /\ f.gateway = thr[t].inst
      /\ f.relaunching = dep[d].relaunching /\ f.missed = dep[d].missed
  BY <1>1, Driver DEF LiveRecord, Opened
<1>3. u.pc = "probe" /\ u.dep = d /\ u.inst = thr[t].inst
  BY <1>1, GotoRun
<1>4. Moved(d, t, u, f)
  BY <1>1, SaveIsWrite DEF Moved, Goto, Listen
<1> HIDE DEF u, f
<1>5. thr[t].inst = dep[d].instance
  BY <1>1, Driver DEF Fit, Spawned
<1>6. Fit(u, f, Vital') /\ ~f.relaunching
  BY <1>1, <1>2, <1>3, <1>5, Driver DEF Fit, BeforeSpawn, Exposed, Over
<1>7. ~Serving(f) /\ Manned(f, alive')
  BY <1>1, <1>2, Driver DEF Serving, Manned, PInv, InStep
<1>8. f.gateway \in {dep[d].gateway, f.instance}
  BY <1>2, <1>5
<1> QED
  BY <1>1, <1>2, <1>3, <1>4, <1>6, <1>7, <1>8, DriverKeeps

LEMMA RegisterKeeps ==
  ASSUME IInv, PInv, KillsStay, NEW t \in Thread, Register(t)
  PROVE  Kept
<1> DEFINE d == thr[t].dep
           f == [dep[d] EXCEPT !.route = TRUE,
                               !.hosting = IF dep[d].hosting = "none" THEN "starting" ELSE @]
           u == [thr[t] EXCEPT !.pc = "lan"]
<1>1. thr[t].pc = "probe" /\ thr[t].pc \in Driving /\ thr[t].pc # "idle"
      /\ UNCHANGED <<td, owner, alive>>
  BY DEF Register, At, Driving, PC, api
<1>2. /\ f.state = dep[d].state /\ f.instance = dep[d].instance
      /\ f.stopping = dep[d].stopping /\ f.available = dep[d].available
      /\ f.gateway = dep[d].gateway /\ f.target = dep[d].target
      /\ f.relaunching = dep[d].relaunching /\ f.missed = dep[d].missed
  BY <1>1, Driver DEF LiveRecord
<1>3. u.pc = "lan" /\ u.dep = d /\ u.inst = thr[t].inst
  BY <1>1, GotoRun
<1>4. Moved(d, t, u, f)
  BY <1>1, SaveIsWrite DEF Moved, Goto, Register
<1> HIDE DEF u, f
<1>5. Fit(u, f, Vital') /\ ~f.relaunching
  BY <1>1, <1>2, <1>3, Driver DEF Fit, BeforeSpawn, Spawned, Exposed
<1>6. ~Serving(f) /\ Manned(f, alive')
  BY <1>1, <1>2, Driver DEF Serving, Manned, PInv, InStep
<1> QED
  BY <1>1, <1>2, <1>3, <1>4, <1>5, <1>6, DriverKeeps

\* LIVE: the gateway, if there is one, is opened to visitors.
LEMMA ServedRecord ==
  ASSUME NEW e \in LiveRecord
  PROVE  LET g == Served(e) IN
         /\ g \in LiveRecord /\ g.state = "LIVE" /\ (g.available <=> e.gateway # None)
         /\ g.instance = e.instance /\ g.target = e.target /\ g.gateway = e.gateway
         /\ g.relaunching = e.relaunching /\ g.missed = e.missed
<1> DEFINE g == Served(e)
<1>1. PICK b \in BOOLEAN : b <=> e.gateway # None
  OBVIOUS
<1>2. g = [e EXCEPT !.state = "LIVE", !.available = b, !.stable = TRUE]
  BY <1>1 DEF Served
<1> HIDE DEF g
<1>3. g.state = "LIVE" /\ g.instance = e.instance /\ g.target = e.target
      /\ g.gateway = e.gateway /\ g.relaunching = e.relaunching /\ g.missed = e.missed
  BY <1>2 DEF LiveRecord
<1>4. g.available = b
  BY <1>2, Zenon DEF LiveRecord
<1>5. g \in LiveRecord
  BY <1>2, StatesListed DEF LiveRecord
<1>6. g.available <=> e.gateway # None
  BY <1>1, <1>4, Zenon
<1> QED
  BY <1>3, <1>5, <1>6 DEF g

\* LIVE is not entered again from a deployment that is over, or being stopped.
LEMMA LiveIsFromRunning ==
  ASSUME NEW e, MayEnter(e, "LIVE")
  PROVE  e.state \notin {"STOPPING", "STOPPED", "FAILED"}
<1>1. DOMAIN PIPELINE = 1..12
  BY DEF PIPELINE
<1>2. \A i \in 1..12 : Stage(i) # "STOPPING"
  BY DEF PIPELINE, Stage
<1>3. e.state # "STOPPING"
  BY <1>1, <1>2 DEF MayEnter, CanTransition, Transitions, Forward, Interrupted
<1> QED
  BY <1>3, TerminalIsFinal DEF MayEnter, Terminal

\* The run that reaches LIVE is the only one, and the gateway aims at its process.
LEMMA GoLiveKeeps ==
  ASSUME IInv, PInv, KillsStay, NEW t \in Thread, GoLive(t)
  PROVE  Kept
<1> DEFINE d == thr[t].dep
           e == dep[d]
           g == Served(e)
           f == Hosted(g, "live")
<1>1. thr[t].pc = "lan" /\ thr[t].pc \in Driving /\ thr[t].pc # "idle"
      /\ UNCHANGED <<td, owner, alive>>
  BY DEF GoLive, At, Driving, PC, api
<1>2. CASE FailBegin(t, d, e)
  BY <1>1, <1>2, Driver, OwnChanges, FailKeeps, NobodyExits
<1>3. CASE MayEnter(e, "LIVE") /\ Save(d, f) /\ Park(t)
  <2>1. /\ g \in LiveRecord /\ g.state = "LIVE" /\ (g.available <=> e.gateway # None)
        /\ g.instance = e.instance /\ g.target = e.target
        /\ g.relaunching = e.relaunching /\ g.missed = e.missed /\ g.gateway = e.gateway
    BY <1>1, Driver, ServedRecord
  <2>2. /\ f.state = "LIVE" /\ (f.available => e.gateway # None)
        /\ f.instance = e.instance /\ f.target = e.target
        /\ f.relaunching = e.relaunching /\ f.missed = e.missed /\ f.gateway = e.gateway
    <3> HIDE DEF g
    <3> QED
      BY <2>1 DEF Hosted, LiveRecord
  <2>3. Moved(d, t, Idle, f)
    BY <1>1, <1>3, SaveIsWrite DEF Moved, Park
  <2> HIDE DEF f
  <2>4. f.available => f.target = f.instance
    BY <1>1, <2>2, Driver DEF Fit
  <2>5. ~f.relaunching /\ Manned(f, alive')
    <3>1. e.state = "EXPOSING" \/ e.state \in Over
      BY <1>1, Driver DEF Fit, Exposed
    <3>2. e.state \notin Over
      BY <1>3, LiveIsFromRunning DEF Over
    <3> QED
      BY <1>1, <2>2, <3>1, <3>2, Driver DEF Fit, Manned, PInv, InStep
  <2>6. Changes(d, t, f)
    BY <1>1, <2>2, <2>4, <2>5, Driver DEF Changes, Sound
  <2>7. Resumes(d, t, Idle, f)
    BY CleaningUp DEF Idle
  <2> QED
    BY <1>1, <2>3, <2>6, <2>7, Driver, MovedKeeps, NobodyExits
<1> QED
  BY <1>2, <1>3 DEF GoLive

LEMMA CleanupKeeps ==
  ASSUME IInv, PInv, KillsStay, NEW t \in Thread, FailStopped(t) \/ FailClosed(t)
  PROVE  Kept
<1> DEFINE d == thr[t].dep
<1>1. d \in 1..made /\ d \in Deployment /\ dep[d] \in LiveRecord
  BY Working DEF FailStopped, FailClosed, At
<1>2. Changes(d, t, dep[d])
  BY <1>1, OwnChanges DEF FailStopped, FailClosed
<1> QED
  BY <1>1, <1>2, FailGatewayMoves, FailFinishMoves, FailedKeeps, NobodyExits
  DEF FailStopped, FailClosed, api

-----------------------------------------------------------------------------
(* A process is spawned                                                    *)

\* The run at "start" knows of no vital process, so the new one is the only one.
LEMMA SpawnedKeeps ==
  ASSUME IInv, PInv, KillsStay, NEW t \in Thread, thr[t].pc = "start", NEW d, d = thr[t].dep,
         NEW i \in Instance, owner[i] = None, NEW u, NEW f,
         owner' = [owner EXCEPT ![i] = d], alive' = alive \cup {i}, td' = td,
         dep' = [dep EXCEPT ![d] = f], thr' = [thr EXCEPT ![t] = u],
         f.instance = i, Sound(f), ~Serving(f), ~f.relaunching,
         f.state = "STOPPED" => dep[d].state = "STOPPED",
         f.gateway \in {None, dep[d].gateway},
         u.pc \in Driving => u.dep = d /\ u.inst = i /\ u.pc = "health"
  PROVE  Kept
<1>1. d \in Deployment /\ Drives(t, d) /\ InStep(d) /\ dep[d].instance \notin Vital /\ d # None
      /\ thr[t].pc \in Driving
  BY Driver DEF Driving, PC, PInv, Fit, None
<1>2. /\ dep'[d] = f /\ thr'[t] = u
      /\ \A c \in Deployment \ {d} : dep'[c] = dep[c]
      /\ \A s \in Thread \ {t} : thr'[s] = thr[s]
  BY <1>1 DEF IInv, RecordsOK, ThreadsOK
<1>3. /\ owner'[i] = d /\ \A j \in Instance \ {i} : owner'[j] = owner[j]
      /\ i # None /\ alive \subseteq Instance /\ alive' \subseteq Instance
  BY EngineBounds DEF IInv, ProcessesOK, Instance, None
<1>4. ASSUME NEW c \in Deployment \ {d} PROVE InStep(c)' /\ StopsClean(c)
  <2>1. \A s \in Thread : Drives(s, c)' => thr'[s] = thr[s]
    <3>1. ~Drives(t, c)'
      BY <1>2, <1>4 DEF Drives
    <3> QED
      BY <1>2, <3>1
  <2>2. dep[c].instance \in 0..MaxInstances /\ dep[c].gateway \in 0..MaxInstances
    BY DEF IInv, RecordsOK, LiveRecord
  <2>3. c # None
    BY <1>4 DEF Deployment, None
  <2>4. \A j \in Instance : owner[j] = c => (j \in alive' <=> j \in alive)
    BY <2>3
  <2> QED
    BY <1>2, <1>3, <1>4, <2>1, <2>2, <2>3, <2>4, UntouchedInStep DEF PInv
<1>5. \A s \in Thread : Drives(s, d)' => s = t
  <2> SUFFICES ASSUME NEW s \in Thread \ {t}, Drives(s, d)' PROVE FALSE
    OBVIOUS
  <2>1. Drives(s, d)
    BY <1>2 DEF Drives
  <2> QED
    BY <1>1, <2>1 DEF InStep
<1>6. Drives(t, d)' => Fit(thr'[t], dep'[d], Vital')
  BY <1>2 DEF Drives, Fit, BeforeSpawn, Spawned, Exposed
<1>7. td'[d].pc = "stop" => td'[d].inst # None
  BY <1>1 DEF InStep
<1>8. \A j \in Instance : owner'[j] = d /\ j \in Vital' => j = i
  BY <1>1, <1>3 DEF InStep, Vital, KillsStay
<1>9. InStep(d)'
  <2>1. Sound(dep[d])' /\ ~Serving(dep'[d]) /\ Manned(dep[d], alive)'
    BY <1>2 DEF Sound, Serving, Manned
  <2>2. \A s \in Thread : Drives(s, d)' => Fit(thr[s], dep[d], Vital)' /\ ~Serving(dep[d])'
    BY <1>5, <1>6, <2>1 DEF Serving
  <2>3. \A j \in Instance : owner'[j] = d =>
          dep'[d].instance # None /\ (j \in Vital' => j = dep'[d].instance)
    BY <1>2, <1>3, <1>8
  <2>4. dep'[d].gateway # None => owner'[dep'[d].gateway] = d
    <3>1. dep[d].gateway \in 0..MaxInstances /\ (dep[d].gateway # None => owner[dep[d].gateway] = d)
      BY <1>1 DEF IInv, RecordsOK, LiveRecord, InStep
    <3> QED
      BY <1>1, <1>2, <1>3, <3>1, EngineBounds DEF Instance, None
  <2> QED
    BY <1>2, <1>3, <1>5, <1>7, <2>1, <2>2, <2>3, <2>4 DEF InStep
<1>10. StopsClean(d)
  BY <1>2 DEF StopsClean
<1> QED
  BY <1>1, <1>4, <1>9, <1>10 DEF Kept, PInv

LEMMA SpawnKeeps ==
  ASSUME IInv, PInv, KillsStay, NEW t \in Thread, Spawn(t)
  PROVE  Kept
<1> DEFINE d == thr[t].dep
           i == FreshInstance
           e == [dep[d] EXCEPT !.instance = i, !.missed = FALSE]
           next == [e EXCEPT !.state = "HEALTH_CHECKING"]
           u == [thr[t] EXCEPT !.pc = "health", !.inst = i]
<1>1. thr[t].pc = "start" /\ thr[t].pc \in Driving /\ thr[t].pc # "idle" /\ td' = td
      /\ owner' = [owner EXCEPT ![i] = d] /\ alive' = alive \cup {i}
  BY DEF Spawn, At, Driving, PC, api
<1>2. i \in Instance /\ owner[i] = None
  BY DEF Spawn, FreshInstance, Unspawned
<1>3. dep[d] \in LiveRecord /\ ~Serving(dep[d]) /\ Sound(dep[d]) /\ ~dep[d].relaunching
  BY <1>1, Driver DEF Fit
<1>4. /\ e \in LiveRecord /\ e.instance = i /\ e.state = dep[d].state
      /\ e.stopping = dep[d].stopping /\ e.available = dep[d].available
      /\ e.relaunching = dep[d].relaunching /\ e.gateway = dep[d].gateway
  <2>1. i \in 0..MaxInstances
    BY <1>2 DEF Instance
  <2> HIDE DEF i
  <2> QED
    BY <1>3, <2>1 DEF LiveRecord
<1> HIDE DEF i, e
<1>5. CASE Save(d, next) /\ thr' = [thr EXCEPT ![t].pc = "health", ![t].inst = i]
  <2>1. next.state = "HEALTH_CHECKING" /\ next.instance = i /\ next.available = e.available
        /\ next.relaunching = e.relaunching /\ next.gateway = e.gateway
    BY <1>4, EnteredRecord, StatesListed
  <2>2. u.pc = "health" /\ u.dep = d /\ u.inst = i
    BY <1>1, Working DEF ThreadRecord
  <2>3. dep' = [dep EXCEPT ![d] = next]
    BY <1>5, SaveIsWrite
  <2>4. thr' = [thr EXCEPT ![t] = u]
    BY <1>5 DEF IInv, ThreadsOK
  <2> HIDE DEF next, u
  <2>5. Sound(next) /\ ~Serving(next) /\ ~next.relaunching
    BY <1>3, <1>4, <2>1 DEF Sound, Serving
  <2>6. next.gateway \in {None, dep[d].gateway}
    BY <1>4, <2>1
  <2> QED
    BY <1>1, <1>2, <2>1, <2>2, <2>3, <2>4, <2>5, <2>6, SpawnedKeeps
<1>6. CASE FailMoves(d, t, e)
  <2>1. PICK v, f :
          /\ dep' = [dep EXCEPT ![d] = f]
          /\ thr' = [thr EXCEPT ![t] = v]
          /\ v.pc \in {"idle", "failStop", "failClose"}
          /\ \/ f = e
             \/ /\ f.state = "FAILED" /\ f.instance = e.instance /\ ~f.available
                /\ f.gateway = None /\ f.relaunching = e.relaunching
    BY <1>6 DEF FailMoves
  <2>2. Sound(f) /\ ~Serving(f) /\ f.instance = i /\ ~f.relaunching
        /\ f.gateway \in {None, dep[d].gateway}
        /\ (f.state = "STOPPED" => dep[d].state = "STOPPED")
    BY <1>3, <1>4, <2>1 DEF Sound, Serving
  <2>3. v.pc \notin Driving
    BY <2>1 DEF Driving
  <2> QED
    BY <1>1, <1>2, <2>1, <2>2, <2>3, SpawnedKeeps
<1> QED
  BY <1>4, <1>5, <1>6, FailBeginMoves DEF Spawn, i, e

LEMMA RunKeeps ==
  ASSUME IInv, PInv, KillsStay, NEW t \in Thread, Step(t) \/ Fault(t)
  PROVE  Kept
  BY DetectKeeps, StagesKeep, AllocateAppPortKeeps, SpawnKeeps, HealthOkKeeps,
     HealthOverKeeps, SharePortKeeps, ListenKeeps, RegisterKeeps, GoLiveKeeps,
     RelaunchKeeps, CleanupKeeps
  DEF Step

-----------------------------------------------------------------------------
(* Teardowns, requests, exits and timers                                   *)

\* A step that changes the record or the teardown of d but moves none of its runs.
LEMMA QuietInStep ==
  ASSUME KillsStay, NEW d \in Deployment, InStep(d), dep[d].instance \in 0..MaxInstances,
         NEW f, dep'[d] = f, owner' = owner, alive' \subseteq alive,
         \A s \in Thread : Drives(s, d)' => thr'[s] = thr[s],
         f.instance = dep[d].instance, Sound(f), Manned(f, alive'),
         Serving(f) => Serving(dep[d]),
         f.state \in {dep[d].state} \cup Over, f.relaunching => dep[d].relaunching,
         f.gateway = None \/ (f.gateway = dep[d].gateway /\ f.target = dep[d].target),
         td'[d].pc = "stop" => td'[d] = td[d] \/ td'[d].inst # None
  PROVE  InStep(d)'
<1>1. \A s \in Thread : Drives(s, d)' =>
        /\ Drives(s, d) /\ thr'[s] = thr[s]
        /\ Fit(thr[s], dep[d], Vital) /\ ~Serving(dep[d])
  BY DEF Drives, InStep
<1>2. Vital' \subseteq Vital
  BY DEF Vital, KillsStay
<1>3. \A s \in Thread : Drives(s, d)' => Fit(thr'[s], dep'[d], Vital')
  BY <1>1, <1>2 DEF Fit
<1>4. \A s \in Thread : Drives(s, d)' => ~Serving(f)
  BY <1>1
<1>5. td'[d].pc = "stop" => td'[d].inst # None
  BY DEF InStep
<1>6. \A i \in Instance : owner'[i] = d => /\ dep'[d].instance # None
                                           /\ i \in Vital' => i = dep'[d].instance
  BY <1>2 DEF InStep
<1> QED
  BY <1>1, <1>3, <1>4, <1>5, <1>6 DEF InStep, Sound, Serving, Manned

\* No vital process of d is left, or only one its teardown was not waiting for.
NoneLeft(d) == \A i \in Vital' : owner[i] = d => td[d].inst \notin {None, i}

\* Everything else stands still.
LEMMA QuietKeeps ==
  ASSUME IInv, PInv, KillsStay, NEW d \in Deployment, NEW f, dep' = [dep EXCEPT ![d] = f],
         owner' = owner, Exits(d), thr' = thr,
         \A c \in Deployment \ {d} : td'[c] = td[c],
         f.instance = dep[d].instance, Sound(f), Manned(f, alive'),
         Serving(f) => Serving(dep[d]),
         f.state \in {dep[d].state} \cup Over, f.relaunching => dep[d].relaunching,
         f.gateway = None \/ (f.gateway = dep[d].gateway /\ f.target = dep[d].target),
         td'[d].pc = "stop" => td'[d] = td[d] \/ td'[d].inst # None,
         f.state = "STOPPED" /\ dep[d].state # "STOPPED" => f.gateway = None /\ NoneLeft(d)
  PROVE  Kept
<1>1. /\ dep'[d] = f /\ \A c \in Deployment \ {d} : dep'[c] = dep[c]
      /\ \A c \in Deployment : /\ dep[c].instance \in 0..MaxInstances
                                /\ dep[c].gateway \in 0..MaxInstances /\ InStep(c)
      /\ alive \subseteq Instance /\ alive' \subseteq Instance /\ alive' \subseteq alive
  BY DEF IInv, RecordsOK, ProcessesOK, LiveRecord, PInv, Exits
<1>2. InStep(d)'
  BY <1>1, QuietInStep
<1>3. ASSUME NEW c \in Deployment \ {d} PROVE InStep(c)' /\ StopsClean(c)
  <2>1. \A i \in Instance : owner[i] = c => (i \in alive' <=> i \in alive)
    BY <1>3 DEF Exits
  <2> QED
    BY <1>1, <1>3, <2>1, UntouchedInStep
<1>4. StopsClean(d)
  BY <1>1 DEF StopsClean, NoneLeft, Vital
<1> QED
  BY <1>2, <1>3, <1>4 DEF Kept, PInv

\* A deployment that has just been created has no process and one run, at "detect".
LEMMA NewbornInStep ==
  ASSUME IInv, PInv, KillsStay, NEW n \in Deployment, n = made + 1, NEW t \in Thread,
         thr' = [thr EXCEPT ![t] = [Idle EXCEPT !.pc = "detect", !.dep = n]],
         dep'[n] = [NewLive EXCEPT !.state = "DISCOVERING"],
         td'[n] = td[n], owner' = owner
  PROVE  InStep(n)' /\ StopsClean(n)
<1> DEFINE u == [Idle EXCEPT !.pc = "detect", !.dep = n]
<1>1. n \notin 1..made /\ n > made /\ dep[n] = NewLive
  BY EngineBounds DEF IInv, RecordsOK
<1>2. td[n].pc = "idle" /\ \A s \in Thread : ~Drives(s, n)
  BY <1>1 DEF IInv, TeardownsOK, ThreadsOK, Drives, Driving
<1>3. \A i \in Instance : owner[i] # n
  BY <1>1 DEF PInv, InStep, NewLive
<1>4. thr'[t] = u /\ u.pc = "detect" /\ u.dep = n /\ \A s \in Thread \ {t} : thr'[s] = thr[s]
  BY DEF IInv, ThreadsOK, Idle
<1>5. /\ dep'[n].instance = None /\ ~dep'[n].available /\ dep'[n].state = "DISCOVERING"
      /\ dep'[n].gateway = None
      /\ ~dep'[n].relaunching
  BY DEF NewLive
<1> HIDE DEF u
<1>6. \A s \in Thread : Drives(s, n)' => s = t
  BY <1>2, <1>4 DEF Drives
<1>7. Fit(thr[t], dep[n], Vital)'
  BY <1>4, <1>5 DEF Fit, BeforeSpawn, Spawned, Exposed
<1> QED
  BY <1>2, <1>3, <1>5, <1>6, <1>7 DEF InStep, Sound, Serving, StopsClean, Manned

LEMMA DeployKeeps ==
  ASSUME IInv, PInv, KillsStay, Deploy
  PROVE  Kept
<1> DEFINE t == FreshThread
<1>1. PICK n : n = made + 1
  OBVIOUS
<1>2. n \in Deployment /\ dep[n] = NewLive /\ t \in Thread /\ thr[t].pc = "idle"
      /\ UNCHANGED <<td, owner, alive>>
  BY <1>1, EngineBounds
  DEF Deploy, CanCreate, Deployment, IInv, RecordsOK, FreshThread, FreeThreads
<1>3. /\ dep'[n] = [NewLive EXCEPT !.state = "DISCOVERING"]
      /\ \A c \in Deployment \ {n} : dep'[c] = dep[c]
  BY <1>1, <1>2 DEF Deploy, IInv, RecordsOK
<1>4. thr' = [thr EXCEPT ![t] = [Idle EXCEPT !.pc = "detect", !.dep = n]]
  BY <1>1 DEF Deploy, Begin
<1>5. InStep(n)' /\ StopsClean(n)
  <2> HIDE DEF t
  <2> QED
    BY <1>1, <1>2, <1>3, <1>4, NewbornInStep
<1>6. ASSUME NEW c \in Deployment \ {n} PROVE InStep(c)' /\ StopsClean(c)
  <2>1. PICK s \in Thread : s = t
    BY <1>2
  <2>2. \A r \in Thread : Drives(r, c)' => thr'[r] = thr[r]
    BY <1>4, <1>6, <2>1 DEF Drives, Idle, IInv, ThreadsOK
  <2>3. /\ dep[c].instance \in 0..MaxInstances /\ dep[c].gateway \in 0..MaxInstances
        /\ alive \subseteq Instance /\ alive' \subseteq Instance
    BY <1>2 DEF IInv, RecordsOK, ProcessesOK, LiveRecord
  <2> QED
    BY <1>2, <1>3, <1>6, <2>2, <2>3, UntouchedInStep DEF PInv
<1> QED
  BY <1>2, <1>5, <1>6 DEF Kept, PInv

\* The record a teardown leaves.
LEMMA ReleasedRecord ==
  ASSUME NEW e \in LiveRecord
  PROVE  LET f == Hosted([Released(e) EXCEPT !.state = IF @ = "STOPPING" THEN "STOPPED" ELSE @],
                         "stopped")
         IN  /\ f.instance = e.instance /\ f.stopping = e.stopping
             /\ ~f.available /\ f.gateway = None /\ f.relaunching = e.relaunching
             /\ f.state = IF e.state = "STOPPING" THEN "STOPPED" ELSE e.state
<1> DEFINE r == Released(e)
           g == [r EXCEPT !.state = IF @ = "STOPPING" THEN "STOPPED" ELSE @]
<1>1. /\ r \in LiveRecord /\ r.state = e.state /\ r.instance = e.instance
      /\ r.stopping = e.stopping /\ ~r.available /\ r.gateway = None
      /\ r.relaunching = e.relaunching
  <2>1. None \in 0..MaxInstances
    BY EngineBounds DEF None
  <2> QED
    BY <2>1 DEF Released, LiveRecord
<1>2. /\ g \in LiveRecord /\ g.instance = e.instance
      /\ g.stopping = e.stopping /\ ~g.available /\ g.gateway = None
      /\ g.relaunching = e.relaunching
      /\ g.state = IF e.state = "STOPPING" THEN "STOPPED" ELSE e.state
  <2> HIDE DEF r
  <2> QED
    BY <1>1, StatesListed DEF LiveRecord
<1> HIDE DEF g
<1>3. /\ Hosted(g, "stopped").instance = e.instance /\ Hosted(g, "stopped").stopping = e.stopping
      /\ ~Hosted(g, "stopped").available /\ Hosted(g, "stopped").gateway = None
      /\ Hosted(g, "stopped").state = g.state
      /\ Hosted(g, "stopped").relaunching = g.relaunching
  BY <1>2 DEF Hosted, LiveRecord
<1> QED
  BY <1>2, <1>3 DEF g

LEMMA TeardownFinishKeeps ==
  ASSUME IInv, PInv, KillsStay, NEW d \in 1..made, NEW e \in LiveRecord, e.instance = dep[d].instance,
         e.stopping, e.state = "STOPPED" => dep[d].state = "STOPPED",
         e.state \in {dep[d].state} \cup Over, e.state \notin {"EXPOSING", "LIVE"},
         e.relaunching => dep[d].relaunching, NEW w, NEW again, owner' = owner, Exits(d),
         NoneLeft(d), TeardownFinish(d, e, w, again)
  PROVE  Kept
<1> DEFINE left == Hosted([Released(e) EXCEPT !.state = IF @ = "STOPPING" THEN "STOPPED" ELSE @],
                          "stopped")
           t == FreshThread
           gone == IF live = d THEN None ELSE live
<1>1. PICK f : f = left
  OBVIOUS
<1>2. /\ f.instance = dep[d].instance /\ f.stopping /\ ~f.available /\ f.gateway = None
      /\ f.state = IF e.state = "STOPPING" THEN "STOPPED" ELSE e.state
      /\ f.relaunching => dep[d].relaunching
  BY <1>1, ReleasedRecord
<1>3. /\ Sound(f) /\ Manned(f, alive') /\ (Serving(f) => Serving(dep[d])) /\ d \in Deployment
      /\ f.state \in {dep[d].state} \cup Over /\ (f.relaunching => dep[d].relaunching)
  BY <1>2, MadeIsDeployment DEF Sound, Serving, Manned, Over
<1>4. td' = [td EXCEPT ![d] = NoTeardown] /\ NoTeardown.pc = "idle"
  BY DEF TeardownFinish, NoTeardown
<1>5. td'[d].pc # "stop" /\ \A c \in Deployment \ {d} : td'[c] = td[c]
  BY <1>3, <1>4 DEF IInv, TeardownsOK
<1>6. CASE thr' = thr /\ dep' = [dep EXCEPT ![d] = f]
  <2>1. f.state = "STOPPED" /\ dep[d].state # "STOPPED" => f.gateway = None /\ NoneLeft(d)
    BY <1>2
  <2>2. f.gateway = None /\ f.instance = dep[d].instance
    BY <1>2
  <2> QED
    BY <1>3, <1>5, <1>6, <2>1, <2>2, QuietKeeps
<1>7. CASE /\ CanCreate(gone)
           /\ dep' = [dep EXCEPT ![d] = f, ![made + 1].state = "DISCOVERING"]
           /\ Begin(t, made + 1, "detect")
  <2>1. PICK n : n = made + 1
    OBVIOUS
  <2>2. n \in Deployment /\ n # d /\ dep[n] = NewLive /\ t \in Thread /\ thr[t].pc = "idle"
    BY <1>7, <2>1, EngineBounds
    DEF CanCreate, Deployment, IInv, RecordsOK, FreshThread, FreeThreads
  <2>3. /\ dep'[n] = [NewLive EXCEPT !.state = "DISCOVERING"] /\ dep'[d] = f
        /\ \A c \in Deployment \ {n, d} : dep'[c] = dep[c]
    BY <1>3, <1>7, <2>1, <2>2 DEF IInv, RecordsOK
  <2>4. thr' = [thr EXCEPT ![t] = [Idle EXCEPT !.pc = "detect", !.dep = n]]
    BY <1>7, <2>1 DEF Begin
  <2>5. InStep(n)' /\ StopsClean(n)
    <3> HIDE DEF t
    <3> QED
      BY <1>5, <2>1, <2>2, <2>3, <2>4, NewbornInStep
  <2>6. ASSUME NEW c \in Deployment \ {n} PROVE \A r \in Thread : Drives(r, c)' => thr'[r] = thr[r]
    <3>1. PICK s \in Thread : s = t
      BY <2>2
    <3> QED
      BY <2>4, <2>6, <3>1 DEF Drives, Idle, IInv, ThreadsOK
  <2>7. /\ \A c \in Deployment : /\ dep[c].instance \in 0..MaxInstances
                                  /\ dep[c].gateway \in 0..MaxInstances /\ InStep(c)
        /\ alive \subseteq Instance /\ alive' \subseteq Instance /\ alive' \subseteq alive
    BY DEF IInv, RecordsOK, ProcessesOK, LiveRecord, PInv, Exits
  <2>8. ASSUME NEW c \in Deployment \ {n, d} PROVE InStep(c)' /\ StopsClean(c)
    <3>1. \A i \in Instance : owner[i] = c => (i \in alive' <=> i \in alive)
      BY <2>8 DEF Exits
    <3> QED
      BY <1>5, <2>3, <2>6, <2>7, <2>8, <3>1, UntouchedInStep
  <2>9. InStep(d)'
    <3>1. \A r \in Thread : Drives(r, d)' => thr'[r] = thr[r]
      BY <1>3, <2>2, <2>6
    <3>2. f.gateway = None /\ f.instance = dep[d].instance /\ td'[d].pc # "stop"
      BY <1>2, <1>5
    <3> HIDE DEF gone, t
    <3> QED
      BY <1>3, <2>3, <2>7, <3>1, <3>2, QuietInStep
  <2>10. StopsClean(d)
    BY <1>2, <1>3, <2>3, <2>7 DEF StopsClean, NoneLeft, Vital
  <2> QED
    BY <2>5, <2>8, <2>9, <2>10 DEF Kept, PInv
<1> QED
  BY <1>1, <1>6, <1>7 DEF TeardownFinish

LEMMA RecordIsWritten ==
  ASSUME NEW d, NEW e, RecordStopping(d, e)
  PROVE  dep' = [dep EXCEPT ![d] = e]
  BY DEF RecordStopping, Save, Write

LEMMA TeardownProcessKeeps ==
  ASSUME IInv, PInv, KillsStay, NEW d \in 1..made, NEW e \in LiveRecord, e.instance = dep[d].instance,
         e.stopping, Sound(e), e.state = "STOPPED" => dep[d].state = "STOPPED",
         Serving(e) => Serving(dep[d]), e.state \notin {"EXPOSING", "LIVE"},
         e.state \in {dep[d].state} \cup Over, e.relaunching => dep[d].relaunching,
         e.gateway = None \/ (e.gateway = dep[d].gateway /\ e.target = dep[d].target),
         NEW w, NEW again, owner' = owner, Exits(d), TeardownProcess(d, e, w, again)
  PROVE  Kept
<1>1. CASE e.instance \notin alive' /\ TeardownFinish(d, e, w, again)
  <2>1. \A i \in Vital' : owner[i] # d
    BY <1>1, MadeIsDeployment DEF PInv, InStep, Vital, KillsStay, Exits, IInv, ProcessesOK
  <2> QED
    BY <1>1, <2>1, TeardownFinishKeeps DEF NoneLeft
<1>2. CASE /\ e.instance \in alive' /\ RecordStopping(d, e) /\ thr' = thr
           /\ td' = [td EXCEPT ![d] = [pc |-> "stop", inst |-> e.instance,
                                       desired |-> w, redeploy |-> again]]
  <2>1. d \in Deployment /\ dep' = [dep EXCEPT ![d] = e]
    BY <1>2, MadeIsDeployment, RecordIsWritten
  <2>2. td'[d].inst # None /\ \A c \in Deployment \ {d} : td'[c] = td[c]
    BY <1>2, <2>1 DEF IInv, TeardownsOK, ProcessesOK, Exits, Instance, None
  <2>3. Manned(e, alive')
    BY DEF Manned
  <2> QED
    BY <1>2, <2>1, <2>2, <2>3, QuietKeeps
<1> QED
  BY <1>1, <1>2 DEF TeardownProcess

\* What teardown() leaves of a record before it awaits anything.
LEMMA StoppingRecord ==
  ASSUME NEW was \in LiveRecord
  PROVE  LET e == [was EXCEPT !.stopping = TRUE, !.stable = FALSE,
                              !.state = IF IsTerminal(@) THEN @ ELSE "STOPPING"]
         IN  /\ e \in LiveRecord /\ e.stopping /\ e.instance = was.instance
             /\ e.available = was.available /\ e.gateway = was.gateway
             /\ e.target = was.target /\ e.relaunching = was.relaunching
             /\ e.state = IF IsTerminal(was.state) THEN was.state ELSE "STOPPING"
<1> DEFINE e == [was EXCEPT !.stopping = TRUE, !.stable = FALSE,
                            !.state = IF IsTerminal(@) THEN @ ELSE "STOPPING"]
<1>1. PICK s : s = IF IsTerminal(was.state) THEN was.state ELSE "STOPPING"
  OBVIOUS
<1>2. s \in DeploymentState
  BY <1>1, StatesListed DEF LiveRecord
<1>3. e = [was EXCEPT !.stopping = TRUE, !.stable = FALSE, !.state = s]
  BY <1>1
<1> HIDE DEF e
<1>4. e \in LiveRecord /\ e.stopping /\ e.state = s
  BY <1>2, <1>3 DEF LiveRecord
<1>5. e.instance = was.instance /\ e.available = was.available /\ e.gateway = was.gateway
      /\ e.target = was.target /\ e.relaunching = was.relaunching
  BY <1>3 DEF LiveRecord
<1> QED
  BY <1>1, <1>4, <1>5 DEF e

LEMMA TeardownBeginKeeps ==
  ASSUME IInv, PInv, KillsStay, NEW d \in 1..made, NEW was \in LiveRecord,
         was.instance = dep[d].instance, was.state = dep[d].state,
         was.available => dep[d].available, was.relaunching => dep[d].relaunching,
         was.gateway = dep[d].gateway, was.target = dep[d].target,
         NEW w, NEW again, owner' = owner, Exits(d), TeardownBegin(d, was, w, again)
  PROVE  Kept
<1> DEFINE e == [was EXCEPT !.stopping = TRUE, !.stable = FALSE,
                            !.state = IF IsTerminal(@) THEN @ ELSE "STOPPING"]
<1>1. /\ e \in LiveRecord /\ e.instance = dep[d].instance /\ e.stopping
      /\ (e.available => dep[d].available) /\ e.gateway = dep[d].gateway
      /\ e.target = dep[d].target /\ (e.relaunching => dep[d].relaunching)
      /\ e.state = IF IsTerminal(dep[d].state) THEN dep[d].state ELSE "STOPPING"
  BY StoppingRecord
<1>2. Sound(dep[d]) /\ d \in Deployment
  BY MadeIsDeployment DEF PInv, InStep
<1> HIDE DEF e
<1>3. Sound(e) /\ (Serving(e) => Serving(dep[d])) /\ e.state \notin {"EXPOSING", "LIVE"}
      /\ (e.state = "STOPPED" => dep[d].state = "STOPPED")
      /\ e.state \in {dep[d].state} \cup Over /\ Manned(e, alive')
  BY <1>1, <1>2 DEF Sound, Serving, IsTerminal, Terminal, Over, Manned
<1>4. CASE TeardownProcess(d, e, w, again)
  BY <1>1, <1>3, <1>4, TeardownProcessKeeps
<1>5. CASE /\ RecordStopping(d, e) /\ thr' = thr
           /\ td' = [td EXCEPT ![d] = [pc |-> "close", inst |-> None,
                                       desired |-> w, redeploy |-> again]]
  <2>1. dep' = [dep EXCEPT ![d] = e]
    BY <1>5, RecordIsWritten
  <2>2. td'[d].pc = "close" /\ \A c \in Deployment \ {d} : td'[c] = td[c]
    BY <1>2, <1>5 DEF IInv, TeardownsOK
  <2> QED
    BY <1>1, <1>2, <1>3, <1>5, <2>1, <2>2, QuietKeeps
<1> QED
  BY <1>4, <1>5 DEF TeardownBegin, e

LEMMA TeardownKeeps ==
  ASSUME IInv, PInv, KillsStay, NEW d \in Deployment, TeardownClosed(d) \/ TeardownStopped(d)
  PROVE  Kept
<1>1. d \in 1..made /\ dep[d].stopping /\ dep[d] \in LiveRecord /\ Sane(dep[d])
      /\ owner' = owner /\ alive' = alive /\ Sound(dep[d]) /\ Exits(d)
  BY DEF TeardownClosed, TeardownStopped, IInv, TeardownsOK, RecordsOK, PInv, InStep, Exits
<1>2. dep[d].state \notin {"EXPOSING", "LIVE"}
  BY <1>1 DEF Sane
<1>3. CASE TeardownClosed(d)
  BY <1>1, <1>2, <1>3, TeardownProcessKeeps DEF TeardownClosed
<1>4. CASE TeardownStopped(d)
  <2>1. NoneLeft(d)
    BY <1>1, <1>4 DEF TeardownStopped, Exited, NoneLeft, Vital, KillsStay, PInv, InStep
  <2> QED
    BY <1>1, <1>2, <1>4, <2>1, TeardownFinishKeeps DEF TeardownStopped
<1> QED
  BY <1>3, <1>4

LEMMA StopKeeps ==
  ASSUME IInv, PInv, KillsStay, RestartByRedeploy \/ \E w \in {"running", "stopped"} : Stop(w)
  PROVE  Kept
<1>1. live \in 1..made
  <2>1. live # 0
    BY DEF RestartByRedeploy, Stop, None
  <2> QED
    BY <2>1, EngineBounds DEF IInv, RecordsOK
<1>2. owner' = owner /\ Exits(live)
  BY DEF RestartByRedeploy, Stop, Exits
<1>3. PICK w \in {"running", "stopped"}, again \in BOOLEAN :
        TeardownBegin(live, dep[live], w, again)
  BY DEF RestartByRedeploy, Stop
<1> QED
  BY <1>1, <1>2, <1>3, OwnFollows, TeardownBeginKeeps

\* What relaunch() and onExit() leave of a record before they decide.
LEMMA HeldOffRecord ==
  ASSUME IInv, NEW d \in Deployment, NEW h, h = HeldOff(dep[d])
  PROVE  /\ h \in LiveRecord /\ h.state = dep[d].state /\ h.stopping = dep[d].stopping
         /\ ~h.available /\ h.instance = dep[d].instance
         /\ h.gateway = dep[d].gateway /\ h.target = dep[d].target
         /\ h.relaunching = dep[d].relaunching
<1>1. PICK e \in LiveRecord : e = dep[d]
  BY DEF IInv, RecordsOK
<1>2. h = [e EXCEPT !.stable = FALSE, !.available = FALSE]
  BY <1>1 DEF HeldOff
<1>3. h \in LiveRecord /\ ~h.available
  BY <1>2 DEF LiveRecord
<1>4. /\ h.state = e.state /\ h.stopping = e.stopping /\ h.instance = e.instance
      /\ h.gateway = e.gateway /\ h.target = e.target /\ h.relaunching = e.relaunching
  BY <1>2 DEF LiveRecord
<1> QED
  BY <1>1, <1>3, <1>4

\* A deployment that serves is driven by nobody, and nobody is stopping it while LIVE.
LEMMA ServingIsUndriven ==
  ASSUME PInv, NEW d \in Deployment, Serving(dep[d])
  PROVE  Undriven(d)
  BY DEF PInv, InStep, Undriven

LEMMA RestartKeeps ==
  ASSUME IInv, PInv, KillsStay, Restart
  PROVE  Kept
<1> DEFINE d == live
           e == dep[d]
           quiet == [HeldOff(e) EXCEPT !.relaunching = TRUE]
           put == [quiet EXCEPT !.state = "RESTARTING"]
           moved == Hosted(put, "restarting")
           after == [moved EXCEPT !.relaunching = FALSE]
           loud == [quiet EXCEPT !.relaunching = FALSE]
           t == FreshThread
           u == [Idle EXCEPT !.pc = "relaunchStop", !.dep = d, !.inst = e.instance]
<1>1. d \in 1..made /\ d \in Deployment
  <2>1. live # 0
    BY DEF Restart, None
  <2> QED
    BY <2>1, EngineBounds, MadeIsDeployment DEF IInv, RecordsOK
<1>2. t \in Thread /\ thr[t].pc = "idle" /\ UNCHANGED <<td, owner, alive>>
  BY DEF Restart, FreshThread, FreeThreads, api
<1>3. /\ quiet \in LiveRecord /\ quiet.state = e.state /\ quiet.stopping = e.stopping
      /\ ~quiet.available /\ quiet.instance = e.instance
      /\ quiet.gateway = e.gateway /\ quiet.target = e.target
  <2>1. PICK h : h = HeldOff(e)
    OBVIOUS
  <2>2. /\ h \in LiveRecord /\ h.state = e.state /\ h.stopping = e.stopping
        /\ ~h.available /\ h.instance = e.instance
        /\ h.gateway = e.gateway /\ h.target = e.target
    BY <1>1, <2>1, HeldOffRecord
  <2>3. quiet = [h EXCEPT !.relaunching = TRUE]
    BY <2>1
  <2> HIDE DEF quiet
  <2> QED
    BY <2>2, <2>3 DEF LiveRecord
<1>4. /\ loud \in LiveRecord /\ loud.state = e.state /\ loud.stopping = e.stopping
      /\ ~loud.available /\ loud.instance = e.instance
      /\ loud.gateway = e.gateway /\ loud.target = e.target /\ ~loud.relaunching
  <2> HIDE DEF quiet
  <2> QED
    BY <1>3 DEF LiveRecord
<1>5. /\ moved \in LiveRecord /\ moved.state = "RESTARTING" /\ moved.stopping = e.stopping
      /\ ~moved.available /\ moved.instance = e.instance
      /\ moved.gateway = e.gateway /\ moved.target = e.target
  <2>1. /\ put \in LiveRecord /\ put.state = "RESTARTING" /\ put.stopping = e.stopping
        /\ ~put.available /\ put.instance = e.instance
        /\ put.gateway = e.gateway /\ put.target = e.target
    <3> HIDE DEF quiet
    <3> QED
      BY <1>3, StatesListed DEF LiveRecord
  <2> HIDE DEF put
  <2> QED
    BY <2>1 DEF Hosted, LiveRecord, Hosting
<1>6. /\ after \in LiveRecord /\ after.state = "RESTARTING" /\ after.stopping = e.stopping
      /\ ~after.available /\ after.instance = e.instance
      /\ after.gateway = e.gateway /\ after.target = e.target /\ ~after.relaunching
  <2> HIDE DEF moved
  <2> QED
    BY <1>5 DEF LiveRecord
<1> HIDE DEF quiet, put, moved, after, loud
<1>7. CASE e.state = "RESTARTING" /\ FailBegin(t, d, loud)
  <2>1. Changes(d, t, loud)
    BY <1>1, <1>4, <1>7, OwnChanges
  <2> QED
    BY <1>1, <1>2, <1>4, <1>7, <2>1, FailKeeps, NobodyExits
<1>8. CASE e.state = "LIVE" /\ e.instance \notin alive /\ Launch(t, d, after)
  <2>1. Undriven(d)
    BY <1>1, <1>8, ServingIsUndriven DEF Serving
  <2>2. Changes(d, t, after) /\ after.instance \notin Vital'
    BY <1>2, <1>6, <1>8, <2>1 DEF Changes, Sound, Serving, Manned, Vital
  <2> QED
    BY <1>1, <1>2, <1>6, <1>8, <2>1, <2>2, LaunchKeeps, NobodyExits
<1>9. CASE e.state = "LIVE" /\ Save(d, moved) /\ thr' = [thr EXCEPT ![t] = u]
  <2>1. Undriven(d)
    BY <1>1, <1>9, ServingIsUndriven DEF Serving
  <2>2. Changes(d, t, moved)
    BY <1>5, <2>1 DEF Changes, Sound, Serving, Manned
  <2>3. u.pc = "relaunchStop" /\ u.dep = d /\ u.inst = e.instance
    BY DEF Idle
  <2>4. Moved(d, t, u, moved)
    BY <1>2, <1>9, SaveIsWrite DEF Moved
  <2> HIDE DEF u
  <2>5. Resumes(d, t, u, moved)
    BY <1>5, <2>1, <2>3 DEF Resumes, Fit, BeforeSpawn, Spawned, Serving, Exposed
  <2> QED
    BY <1>1, <1>2, <2>2, <2>4, <2>5, MovedKeeps, NobodyExits
<1> QED
  BY <1>7, <1>8, <1>9 DEF Restart, quiet, put, moved, after, loud

LEMMA ExitKeeps ==
  ASSUME IInv, PInv, KillsStay, NEW i \in Instance, Exit(i)
  PROVE  Kept
<1> DEFINE d == owner[i]
           e == dep[d]
           h == HeldOff(e)
           f == Hosted(HeldOff(e), "restarting")
           again == [f EXCEPT !.attempts = @ + 1, !.state = "RESTARTING"]
           watched == e.instance = i /\ ~e.stopping /\ ~e.relaunching
           s == [e EXCEPT !.stable = @ /\ ~watched,
                        !.missed = @ \/ (watched /\ e.state = "EXPOSING")]
           t == FreshThread
           u == [Idle EXCEPT !.pc = "backoff", !.dep = d]
<1>1. d \in 1..made /\ d \in Deployment /\ e \in LiveRecord /\ Sound(e)
      /\ owner' = owner /\ alive' = alive \ {i} /\ Exits(d) /\ Manned(e, alive) /\ Sane(e)
  BY MadeIsDeployment DEF Exit, IInv, ProcessesOK, RecordsOK, PInv, InStep, Exits
<1>2. /\ f \in LiveRecord /\ f.state = e.state /\ f.stopping = e.stopping
      /\ ~f.available /\ f.instance = e.instance /\ f.attempts = e.attempts
      /\ f.gateway = e.gateway /\ f.target = e.target /\ f.relaunching = e.relaunching
  <2>1. PICK g : g = HeldOff(e)
    OBVIOUS
  <2>2. /\ g \in LiveRecord /\ g.state = e.state /\ g.stopping = e.stopping
        /\ ~g.available /\ g.instance = e.instance
        /\ g.gateway = e.gateway /\ g.target = e.target /\ g.relaunching = e.relaunching
    BY <1>1, <2>1, HeldOffRecord
  <2>3. g.attempts = e.attempts
    BY <1>1, <2>1 DEF HeldOff, LiveRecord
  <2>4. f = Hosted(g, "restarting")
    BY <2>1
  <2> HIDE DEF f
  <2> QED
    BY <2>2, <2>3, <2>4 DEF Hosted, LiveRecord, Hosting
<1>3. CASE ~(watched /\ e.state = "LIVE") /\ UNCHANGED <<api, thr, net>> /\ Write(d, s)
  <2>1. /\ s.state = e.state /\ s.instance = e.instance /\ s.stopping = e.stopping
        /\ s.available = e.available /\ s.gateway = e.gateway /\ s.target = e.target
        /\ s.relaunching = e.relaunching
        /\ s.missed = (e.missed \/ (watched /\ e.state = "EXPOSING"))
    BY <1>1 DEF LiveRecord
  <2>2. dep' = [dep EXCEPT ![d] = s] /\ thr' = thr /\ td' = td
    BY <1>3 DEF Write, api
  <2> HIDE DEF s
  <2>3. Sound(s) /\ (Serving(s) => Serving(e))
    BY <1>1, <2>1 DEF Sound, Serving
  <2>4. Manned(s, alive')
    BY <1>1, <1>3, <2>1 DEF Sound, Sane, Manned
  <2> HIDE DEF d
  <2> QED
    BY <1>1, <2>1, <2>2, <2>3, <2>4, QuietKeeps
<1>4. CASE watched /\ e.state = "LIVE" /\ \E clean \in BOOLEAN : Crashed(d, e, clean)
  <2> HIDE DEF f
  <2>1. CASE TeardownBegin(d, f, "stopped", FALSE)
    <3> HIDE DEF d
    <3> QED
      BY <1>1, <1>2, <2>1, TeardownBeginKeeps
  <2>2. CASE FreeThreads # {} /\ FailBegin(t, d, f) /\ UNCHANGED api
    <3>1. t \in Thread /\ td' = td
      BY <2>2 DEF FreshThread, FreeThreads, api
    <3>2. Changes(d, t, f)
      BY <1>1, <1>2, <1>4, OwnChanges
    <3> HIDE DEF d, t
    <3> QED
      BY <1>1, <1>2, <2>2, <3>1, <3>2, FailKeeps
  <2>3. CASE /\ FreeThreads # {} /\ BudgetLeft(e) /\ Save(d, again) /\ Begin(t, d, "backoff")
             /\ UNCHANGED <<api, killing, net>>
    <3>1. t \in Thread /\ td' = td
      BY <2>3 DEF FreshThread, FreeThreads, api
    <3>2. f.attempts + 1 \in 0..MaxRetries
      BY <1>1, <1>2, <2>3, EngineBounds DEF BudgetLeft, LiveRecord
    <3>3. /\ again.state = "RESTARTING" /\ again.stopping = e.stopping
          /\ ~again.available /\ again.instance = e.instance
          /\ again.gateway = e.gateway /\ again.target = e.target
          /\ again.relaunching = e.relaunching
      BY <1>2, <3>2, StatesListed DEF LiveRecord
    <3>4. Undriven(d)
      BY <1>1, <1>4, ServingIsUndriven DEF Serving
    <3>5. u.pc = "backoff" /\ u.dep = d
      BY DEF Idle
    <3>6. Moved(d, t, u, again)
      BY <1>1, <2>3, <3>1, SaveIsWrite DEF Moved, Begin
    <3> HIDE DEF again, u
    <3>7. Changes(d, t, again)
      BY <3>3, <3>4 DEF Changes, Sound, Serving, Manned
    <3>8. Resumes(d, t, u, again)
      BY <1>1, <1>4, <3>3, <3>4, <3>5
      DEF Resumes, Fit, BeforeSpawn, Spawned, Serving, Exposed, Vital
    <3> HIDE DEF d, t
    <3> QED
      BY <1>1, <3>1, <3>6, <3>7, <3>8, MovedKeeps
  <2> QED
    BY <1>4, <2>1, <2>2, <2>3 DEF Crashed, f
<1> QED
  BY <1>3, <1>4 DEF Exit

LEMMA TimersKeep ==
  ASSUME IInv, PInv, KillsStay, NEW d \in Deployment, Forget(d) \/ StableTimer(d)
  PROVE  Kept
<1>1. PICK f : dep' = [dep EXCEPT ![d] = f] /\
               (f = [dep[d] EXCEPT !.forget = FALSE] \/
                f = [dep[d] EXCEPT !.attempts = 0, !.stable = FALSE])
  <2> DEFINE g == [dep[d] EXCEPT !.forget = FALSE]
             h == [dep[d] EXCEPT !.attempts = 0, !.stable = FALSE]
  <2>1. dep' = [dep EXCEPT ![d] = g] \/ dep' = [dep EXCEPT ![d] = h]
    BY DEF Forget, StableTimer, Write
  <2> QED
    BY <2>1
<1>2. /\ f.state = dep[d].state /\ f.instance = dep[d].instance
      /\ f.stopping = dep[d].stopping /\ f.available = dep[d].available
      /\ f.gateway = dep[d].gateway /\ f.target = dep[d].target
      /\ f.relaunching = dep[d].relaunching /\ f.missed = dep[d].missed
  BY <1>1 DEF IInv, RecordsOK, LiveRecord
<1>3. UNCHANGED <<td, thr, owner, alive>> /\ Sound(dep[d]) /\ Manned(dep[d], alive)
  BY DEF Forget, StableTimer, api, PInv, InStep
<1>4. Sound(f) /\ Manned(f, alive') /\ (Serving(f) => Serving(dep[d]))
  BY <1>2, <1>3 DEF Sound, Serving, Manned
<1> QED
  BY <1>1, <1>2, <1>3, <1>4, QuietKeeps, NobodyExits

\* The grace period of kill() ends: one process fewer is vital, and nothing else changes.
LEMMA EscalateKeeps ==
  ASSUME IInv, PInv, KillsStay, NEW i \in Instance, Escalate(i)
  PROVE  Kept
<1>1. UNCHANGED <<dep, td, thr, owner, alive>>
  BY DEF Escalate, api
<1>2. ASSUME NEW c \in Deployment PROVE InStep(c)' /\ StopsClean(c)
  <2>1. /\ InStep(c) /\ dep[c].instance \in 0..MaxInstances
        /\ dep[c].gateway \in 0..MaxInstances
        /\ alive \subseteq Instance /\ alive' \subseteq Instance
    BY <1>1 DEF PInv, IInv, RecordsOK, LiveRecord, ProcessesOK
  <2> QED
    BY <1>1, <2>1, UntouchedInStep
<1> QED
  BY <1>2 DEF Kept, PInv

LEMMA InitIsInStep == Init => PInv
<1> SUFFICES ASSUME Init, NEW d \in Deployment PROVE InStep(d)
  BY DEF PInv
<1>1. \A i \in Instance : owner[i] # d
  BY DEF Init, None, Deployment
<1>2. \A t \in Thread : ~Drives(t, d)
  BY DEF Init, Drives, Driving, Idle
<1>3. /\ dep[d].instance = None /\ ~dep[d].available /\ dep[d].state = "CREATED"
      /\ dep[d].gateway = None
  BY DEF Init, NewLive
<1>4. td[d].pc = "idle" /\ ~dep[d].relaunching
  BY DEF Init, NoTeardown, NewLive
<1> QED
  BY <1>1, <1>2, <1>3, <1>4 DEF InStep, Sound, Manned

-----------------------------------------------------------------------------
(* No process that is there is spared a SIGKILL it was sent                *)

LEMMA SignalsStay ==
  ASSUME IInv, Signals \/ \E i \in Instance : Escalate(i)
  PROVE  KillsStay
<1>1. killing \in [Instance -> Sent]
  BY DEF IInv, NetOK
<1>2. CASE UNCHANGED killing
  BY <1>2 DEF KillsStay, Killed
<1>3. CASE \E i \in 0..MaxInstances : Signal(i)
  BY <1>1, <1>3 DEF KillsStay, Killed, Signal
<1>4. CASE \E i \in Instance : Escalate(i)
  BY <1>1, <1>4 DEF KillsStay, Killed, Escalate
<1> QED
  BY <1>2, <1>3, <1>4 DEF Signals

LEMMA FailSignals ==
  ASSUME NEW t, NEW d, NEW e, e.instance \in 0..MaxInstances,
         FailBegin(t, d, e) \/ FailGateway(t, d, e) \/ FailFinish(t, d, e)
  PROVE  Signals
  BY DEF Signals, FailBegin, FailGateway, FailFinish

LEMMA TeardownSignals ==
  ASSUME NEW d, NEW e, e.instance \in 0..MaxInstances, NEW w, NEW again,
         TeardownProcess(d, e, w, again) \/ TeardownFinish(d, e, w, again)
  PROVE  Signals
  BY DEF Signals, TeardownProcess, TeardownFinish

LEMMA TeardownBeginSignals ==
  ASSUME NEW d, NEW was \in LiveRecord, NEW w, NEW again, TeardownBegin(d, was, w, again)
  PROVE  Signals
<1> DEFINE e == [was EXCEPT !.stopping = TRUE, !.stable = FALSE,
                            !.state = IF IsTerminal(@) THEN @ ELSE "STOPPING"]
<1>1. e.instance \in 0..MaxInstances
  BY DEF LiveRecord
<1>2. TeardownProcess(d, e, w, again) \/ UNCHANGED killing
  BY DEF TeardownBegin
<1> HIDE DEF e
<1> QED
  BY <1>1, <1>2, TeardownSignals DEF Signals

LEMMA LaunchSignals ==
  ASSUME NEW t, NEW d, NEW e, e.instance \in 0..MaxInstances, Launch(t, d, e)
  PROVE  Signals
  BY FailSignals DEF Launch, Signals

LEMMA ThrowSignals ==
  ASSUME IInv, NEW t \in Thread, NEW pc, pc # "idle", Throws(t, pc)
  PROVE  Signals
<1>1. dep[thr[t].dep].instance \in 0..MaxInstances
  BY Working DEF Throws, At, LiveRecord
<1> QED
  BY <1>1, FailSignals DEF Throws

LEMMA RunSignals ==
  ASSUME IInv, NEW t \in Thread, Step(t) \/ Fault(t)
  PROVE  Signals
<1> DEFINE d == thr[t].dep
<1>1. CASE thr[t].pc = "idle"
  BY <1>1
  DEF Step, Fault, Throws, At, Detect, Prepare, Install, Build, AllocateAppPort, Spawn, HealthOk,
      HealthStopped, HealthGone, HealthTimeout, GiveUp, AllocateSharePort, Listen, ListenBusy,
      ListenFails, Register, GoLive, RelaunchStopped, Backoff, FailStopped, FailClosed
<1>2. CASE thr[t].pc # "idle"
  <2>1. thr[t] \in ThreadRecord /\ dep[d] \in LiveRecord /\ dep[d].instance \in 0..MaxInstances
        /\ thr[t].inst \in 0..MaxInstances
    BY <1>2, Working DEF LiveRecord, ThreadRecord
  <2> HIDE DEF d
  <2>2. CASE Detect(t) \/ AllocateAppPort(t) \/ HealthOk(t) \/ HealthStopped(t)
    BY <2>1, <2>2, FailSignals
    DEF Detect, AllocateAppPort, HealthOk, HealthStopped, Signals, d
  <2>3. CASE Prepare(t) \/ Install(t) \/ Build(t)
    BY <2>1, <2>3, FailSignals DEF Prepare, Install, Build, NextStage, Advance, Signals, d
  <2>4. CASE Spawn(t)
    <3> DEFINE e == [dep[d] EXCEPT !.instance = FreshInstance, !.missed = FALSE]
    <3>1. e.instance \in 0..MaxInstances
      BY <2>1, <2>4 DEF Spawn, FreshInstance, Unspawned, Instance, LiveRecord
    <3>2. FailBegin(t, d, e) \/ UNCHANGED killing
      BY <2>4 DEF Spawn, d
    <3> HIDE DEF e
    <3> QED
      BY <3>1, <3>2, FailSignals DEF Signals
  <2>5. CASE HealthTimeout(t)
    BY <2>1, <2>5 DEF HealthTimeout, Signals
  <2>6. CASE HealthGone(t) \/ GiveUp(t) \/ ListenFails(t) \/ Fault(t)
    BY <2>6, ThrowSignals DEF HealthGone, GiveUp, ListenFails, Fault
  <2>7. CASE AllocateSharePort(t) \/ Listen(t) \/ ListenBusy(t) \/ Register(t)
    BY <2>7 DEF AllocateSharePort, Listen, ListenBusy, Register, Signals
  <2>8. CASE GoLive(t)
    BY <2>1, <2>8, FailSignals DEF GoLive, Signals, d
  <2>9. CASE RelaunchStopped(t)
    <3> DEFINE e == [dep[d] EXCEPT !.relaunching = FALSE]
    <3>1. e.instance \in 0..MaxInstances
      BY <2>1 DEF LiveRecord
    <3>2. Launch(t, d, e)
      BY <2>9 DEF RelaunchStopped, d
    <3> HIDE DEF e
    <3> QED
      BY <3>1, <3>2, LaunchSignals
  <2>10. CASE Backoff(t)
    BY <2>1, <2>10, LaunchSignals DEF Backoff, d
  <2>11. CASE FailStopped(t) \/ FailClosed(t)
    BY <2>1, <2>11, FailSignals DEF FailStopped, FailClosed, d
  <2> QED
    BY <2>2, <2>3, <2>4, <2>5, <2>6, <2>7, <2>8, <2>9, <2>10, <2>11 DEF Step
<1> QED
  BY <1>1, <1>2

LEMMA RestartSignals ==
  ASSUME IInv, Restart
  PROVE  Signals
<1> DEFINE e == dep[live]
           quiet == [HeldOff(e) EXCEPT !.relaunching = TRUE]
           moved == Hosted([quiet EXCEPT !.state = "RESTARTING"], "restarting")
           after == [moved EXCEPT !.relaunching = FALSE]
           loud == [quiet EXCEPT !.relaunching = FALSE]
<1>1. live \in Deployment /\ e \in LiveRecord
  BY EngineBounds DEF Restart, IInv, RecordsOK, Deployment, None
<1>2. e.instance \in 0..MaxInstances /\ loud.instance \in 0..MaxInstances
  BY <1>1 DEF LiveRecord, HeldOff
<1>3. after.instance \in 0..MaxInstances
  <2>1. quiet \in LiveRecord
    BY <1>1 DEF LiveRecord, HeldOff
  <2> HIDE DEF quiet
  <2> DEFINE put == [quiet EXCEPT !.state = "RESTARTING"]
  <2>2. put \in LiveRecord
    BY <2>1, StatesListed DEF LiveRecord
  <2> HIDE DEF put
  <2>3. Hosted(put, "restarting") \in LiveRecord
    BY <2>2 DEF Hosted, LiveRecord, Hosting
  <2> QED
    BY <2>3 DEF LiveRecord, put
<1>4. \/ Signal(e.instance) \/ Launch(FreshThread, live, after)
      \/ FailBegin(FreshThread, live, loud)
  BY DEF Restart
<1> HIDE DEF e, after, loud
<1> QED
  BY <1>2, <1>3, <1>4, LaunchSignals, FailSignals DEF Signals

LEMMA ExitStays ==
  ASSUME IInv, NEW i \in Instance, Exit(i)
  PROVE  KillsStay
<1> DEFINE e == dep[owner[i]]
           f == Hosted(HeldOff(e), "restarting")
<1>1. e \in LiveRecord
  BY MadeIsDeployment DEF Exit, IInv, ProcessesOK, RecordsOK
<1>2. f \in LiveRecord /\ f.instance \in 0..MaxInstances
  <2>1. HeldOff(e) \in LiveRecord
    BY <1>1 DEF HeldOff, LiveRecord
  <2> QED
    BY <2>1 DEF Hosted, LiveRecord, Hosting
<1>3. \/ Unsent(i) \/ UNCHANGED killing
      \/ TeardownBegin(owner[i], f, "stopped", FALSE)
      \/ FailBegin(FreshThread, owner[i], f)
  BY DEF Exit, Crashed
<1>4. CASE Unsent(i)
  <2>1. killing \in [Instance -> Sent] /\ i \notin alive'
    BY DEF IInv, NetOK, Exit
  <2> QED
    BY <1>4, <2>1 DEF Unsent, KillsStay, Killed
<1> HIDE DEF f
<1>5. Signals \/ Unsent(i)
  BY <1>2, <1>3, TeardownBeginSignals, FailSignals DEF Signals
<1> QED
  BY <1>4, <1>5, SignalsStay

LEMMA NextKillsStay == IInv /\ [Next]_vars => KillsStay
<1> SUFFICES ASSUME IInv, [Next]_vars
             PROVE  Signals \/ \E i \in Instance : Escalate(i) \/ Exit(i)
  BY SignalsStay, ExitStays
<1>1. CASE Request
  <2>1. CASE Deploy
    BY <2>1 DEF Deploy, Signals
  <2>2. CASE RestartByRedeploy \/ \E w \in {"running", "stopped"} : Stop(w)
    <3>1. live \in Deployment
      <4>1. live # 0
        BY <2>2 DEF RestartByRedeploy, Stop, None
      <4> QED
        BY <4>1, EngineBounds DEF IInv, RecordsOK, Deployment
    <3>2. dep[live] \in LiveRecord
      BY <3>1 DEF IInv, RecordsOK
    <3> QED
      BY <2>2, <3>2, TeardownBeginSignals DEF RestartByRedeploy, Stop
  <2> QED
    BY <1>1, <2>1, <2>2, RestartSignals DEF Request
<1>2. ASSUME NEW t \in Thread, Step(t) \/ Fault(t)
      PROVE  Signals
  BY <1>2, RunSignals
<1>3. ASSUME NEW d \in Deployment,
             TeardownClosed(d) \/ TeardownStopped(d) \/ Forget(d) \/ StableTimer(d)
      PROVE  Signals
  <2>1. dep[d].instance \in 0..MaxInstances
    BY DEF IInv, RecordsOK, LiveRecord
  <2> QED
    BY <1>3, <2>1, TeardownSignals
    DEF TeardownClosed, TeardownStopped, Forget, StableTimer, Signals
<1>4. CASE UNCHANGED vars
  BY <1>4 DEF vars, Signals
<1> QED
  BY <1>1, <1>2, <1>3, <1>4 DEF Next

-----------------------------------------------------------------------------
(* Every step                                                              *)

LEMMA NextKeeps == IInv /\ PInv /\ [Next]_vars => Kept
<1> SUFFICES ASSUME IInv, PInv, [Next]_vars PROVE Kept
  OBVIOUS
<1> USE NextKillsStay
<1>1. CASE Request
  BY <1>1, DeployKeeps, RestartKeeps, StopKeeps DEF Request
<1>2. ASSUME NEW t \in Thread, Step(t) \/ Fault(t)
      PROVE  Kept
  BY <1>2, RunKeeps
<1>3. ASSUME NEW d \in Deployment,
             TeardownClosed(d) \/ TeardownStopped(d) \/ Forget(d) \/ StableTimer(d)
      PROVE  Kept
  BY <1>3, TeardownKeeps, TimersKeep
<1>4. ASSUME NEW i \in Instance, Exit(i)
      PROVE  Kept
  BY <1>4, ExitKeeps
<1>5. CASE UNCHANGED vars
  BY <1>5
  DEF vars, Kept, PInv, InStep, StopsClean, Sound, Serving, Drives, Fit, Manned, Vital, Killed
<1>6. ASSUME NEW i \in Instance, Escalate(i)
      PROVE  Kept
  BY <1>6, EscalateKeeps
<1> QED
  BY <1>1, <1>2, <1>3, <1>4, <1>5, <1>6 DEF Next

LEMMA AlwaysInStep == Spec => [](IInv /\ PInv)
<1>1. IInv /\ PInv /\ [Next]_vars => IInv' /\ PInv'
  BY NextIsGood, NextKeeps DEF Kept
<1>2. Init => IInv /\ PInv
  BY InitIsGood, InitIsInStep
<1> QED
  BY <1>1, <1>2, PTL DEF Spec

\* However launches, relaunches, crash restarts, failures and stops interleave, the only
\* process of a deployment that may be running is the one ld.instance names: no restart
\* leaves an older process running beside the new one.  Excepted is one that has been sent
\* SIGKILL, for which kill() waits no longer than two seconds.
THEOREM EngineOneProcess == Spec => []OneProcessPerDeployment
<1>1. IInv /\ PInv => OneProcessPerDeployment
  BY MadeIsDeployment DEF PInv, InStep, OneProcessPerDeployment, IInv, ProcessesOK, Vital
<1> QED
  BY <1>1, AlwaysInStep, PTL

\* Visitors are forwarded only while the deployment is live, or still closing, and then
\* to its current process: a launch holds the gateway back until it reaches LIVE.  That
\* process is running while it is live, or it exited while the gateway was opened, which
\* onExit() and expose() both leave unnoticed.
THEOREM EngineForwardsWhenServing == Spec => []ForwardsOnlyWhenServing
<1>1. IInv /\ PInv => ForwardsOnlyWhenServing
  BY DEF PInv, InStep, Sound, Manned, ForwardsOnlyWhenServing
<1> QED
  BY <1>1, AlwaysInStep, PTL

\* A teardown records STOPPED only once its gateway is let go and each process of the
\* deployment has exited or been sent SIGKILL, but for one that a launch spawned while
\* the teardown waited for an older one.
THEOREM EngineStopsAfterProcess == Spec => StopsAfterTheProcess
<1>1. IInv /\ PInv /\ [Next]_vars =>
        [\A d \in Deployment : dep[d].state # "STOPPED" /\ dep'[d].state = "STOPPED" =>
           /\ \A i \in alive' \ Killed' : owner'[i] = d => td[d].inst \notin {None, i}
           /\ dep'[d].gateway = None]_vars
  BY NextKeeps DEF Kept, StopsClean
<1> QED
  BY <1>1, AlwaysInStep, PTL DEF Spec, StopsAfterTheProcess

-----------------------------------------------------------------------------
(***************************************************************************)
(* While a deployment is live it can be reached                            *)
(*                                                                         *)
(* Ports and the route belong to the project, so that an older deployment  *)
(* which is released late, or a launch of it that goes on, takes them from *)
(* a newer one: robbed remembers from whom.  Of the others, until a stop   *)
(* or a failure begins, Reach says what the launch under way has secured.  *)
(* A step concerns one deployment; Apart says that the others keep all of  *)
(* theirs unless they are robbed, and Reaches what is left to show of it.  *)
(***************************************************************************)
Normal(d) ==
  ~IsTerminal(dep[d].state) /\ ~dep[d].stopping /\ ~Failing(d) /\ d \notin robbed

\* What a run that launches has reserved, opened and registered by now.
OnItsWay(r, e, d, ports, behind) ==
  /\ r.pc \in BeforeSpawn => e.gateway = None
  /\ r.pc \notin BeforeSpawn => "app" \in ports /\ e.state \in Holding
  /\ r.pc \in {"allocShare", "listen"} => e.gateway = None
  /\ r.pc = "listen" => "share" \in ports
  /\ r.pc \in {"probe", "lan"} => e.gateway # None
  /\ r.pc = "lan" => behind = d

\* The gateway listens on the reserved port; a live deployment has all there is.
Secured(e, d, open, ports, behind) ==
  /\ e.gateway # None => e.gateway \in open /\ "share" \in ports /\ e.state \in Holding
  /\ e.state = "LIVE" => "app" \in ports /\ e.gateway # None /\ e.available /\ behind = d

Reached(d) == Normal(d) =>
  /\ \A t \in Thread : Drives(t, d) => OnItsWay(thr[t], dep[d], d, reserved, route)
  /\ Secured(dep[d], d, listening, reserved, route)
Reach == \A d \in Deployment : Reached(d)

\* The same of one deployment after the step.
StaysNormal(d) ==
  /\ ~IsTerminal(dep'[d].state) /\ ~dep'[d].stopping /\ d \notin robbed'
  /\ \A t \in Thread : thr'[t].dep = d => thr'[t].pc \notin {"failStop", "failClose"}
Reaches(d) == StaysNormal(d) =>
  /\ \A t \in Thread : thr'[t].dep = d /\ thr'[t].pc \in Driving =>
       OnItsWay(thr'[t], dep'[d], d, reserved', route')
  /\ Secured(dep'[d], d, listening', reserved', route')

LEMMA AllReach ==
  ASSUME \A d \in Deployment : Reaches(d)
  PROVE  Reach'
  BY DEF Reach, Reached, Reaches, Normal, StaysNormal, Failing, Drives

-----------------------------------------------------------------------------
(* The others                                                              *)

\* One record and one run are written, whatever happens to processes and teardowns.
Rewritten(d, t, u, f) ==
  /\ dep' = [dep EXCEPT ![d] = f]
  /\ thr' = [thr EXCEPT ![t] = u]

\* The record and the runs of a deployment stay as they are.
Aside(c) ==
  /\ dep'[c] = dep[c]
  /\ \A t \in Thread : (thr[t].dep = c /\ thr[t].pc # "idle")
                         \/ (thr'[t].dep = c /\ thr'[t].pc # "idle") => thr'[t] = thr[t]

\* It has just been created.
Newborn(c) ==
  /\ dep'[c].state = "DISCOVERING" /\ dep'[c].gateway = None
  /\ \A t \in Thread : thr'[t].dep = c => thr'[t].pc \in {"idle", "detect"}

\* What a step of d does to what is the project's.
NetStep(d) ==
  /\ robbed \subseteq robbed'
  /\ \/ TakesFromOthers(d)
     \/ /\ reserved \subseteq reserved' /\ route' = route
        /\ listening \ {dep[d].gateway} \subseteq listening'

Apart(d) == NetStep(d) /\ \A c \in Deployment \ {d} : Aside(c) \/ Newborn(c)

\* A deployment that is not robbed and has secured something keeps it.
LEMMA AsideReaches ==
  ASSUME IInv, PInv, Reach, NEW d \in Deployment, NEW c \in Deployment \ {d}, NetStep(d), Aside(c)
  PROVE  Reaches(c)
<1> SUFFICES ASSUME StaysNormal(c)
             PROVE  /\ \A t \in Thread : thr'[t].dep = c /\ thr'[t].pc \in Driving =>
                         OnItsWay(thr'[t], dep[c], c, reserved', route')
                    /\ Secured(dep[c], c, listening', reserved', route')
  BY DEF Reaches, Aside
<1>1. \A t \in Thread : thr'[t].dep = c /\ thr'[t].pc # "idle" => thr'[t] = thr[t]
  BY DEF Aside
<1>2. Normal(c)
  BY DEF Aside, StaysNormal, Normal, Failing, NetStep
<1>3. \A t \in Thread : thr'[t].dep = c /\ thr'[t].pc \in Driving =>
        /\ thr'[t] = thr[t] /\ OnItsWay(thr[t], dep[c], c, reserved, route)
  BY <1>1, <1>2 DEF Reach, Reached, Drives, Driving
<1>4. Secured(dep[c], c, listening, reserved, route)
  BY <1>2 DEF Reach, Reached
<1>5. CASE TakesFromOthers(d)
  <2>1. c \notin robbed'
    BY DEF StaysNormal
  <2>2. c # live \/ dep[c].state \notin Holding
    BY <1>5, <2>1 DEF TakesFromOthers
  <2>3. dep[c].state \notin Holding
    <3>1. CASE c \in 1..made
      BY <1>2, <2>2, <3>1 DEF Normal, IInv, RecordsOK
    <3>2. CASE c > made
      BY <3>2 DEF IInv, RecordsOK, NewLive, Holding
    <3> QED
      BY <3>1, <3>2 DEF Deployment, IInv, RecordsOK
  <2>4. "LIVE" \in Holding
    BY DEF Holding
  <2>5. Secured(dep[c], c, listening', reserved', route')
    BY <1>4, <2>3, <2>4 DEF Secured
  <2>6. \A t \in Thread : thr'[t].dep = c /\ thr'[t].pc \in Driving => thr'[t].pc \in BeforeSpawn
    BY <1>3, <2>3 DEF OnItsWay
  <2>7. \A t \in Thread : thr'[t].dep = c /\ thr'[t].pc \in Driving =>
          OnItsWay(thr'[t], dep[c], c, reserved', route')
    BY <1>3, <2>6 DEF OnItsWay, BeforeSpawn
  <2> QED
    BY <2>5, <2>7
<1>6. CASE /\ reserved \subseteq reserved' /\ route' = route
           /\ listening \ {dep[d].gateway} \subseteq listening'
  <2>1. dep[c].gateway # None => dep[c].gateway # dep[d].gateway
    BY DEF PInv, InStep
  <2>2. Secured(dep[c], c, listening', reserved', route')
    BY <1>4, <1>6, <2>1 DEF Secured
  <2> QED
    BY <1>3, <1>6, <2>2 DEF OnItsWay
<1> QED
  BY <1>5, <1>6 DEF NetStep

LEMMA NewbornReaches ==
  ASSUME NEW c \in Deployment, Newborn(c)
  PROVE  Reaches(c)
<1>1. \A t \in Thread : thr'[t].dep = c /\ thr'[t].pc \in Driving => thr'[t].pc = "detect"
  BY DEF Newborn, Driving
<1> QED
  BY <1>1 DEF Reaches, Newborn, OnItsWay, Secured, BeforeSpawn

\* So it is enough to look at the deployment the step concerns.
LEMMA ApartReaches ==
  ASSUME IInv, PInv, Reach, NEW d \in Deployment, Apart(d), Reaches(d)
  PROVE  Reach'
  BY AsideReaches, NewbornReaches, AllReach DEF Apart

LEMMA NetKept ==
  ASSUME UNCHANGED net
  PROVE  \A d : NetStep(d)
  BY DEF NetStep, net

LEMMA OneRunApart ==
  ASSUME IInv, NEW d \in Deployment, NEW t \in Thread, NEW u, NEW f, Rewritten(d, t, u, f),
         thr[t].pc = "idle" \/ thr[t].dep = d, u.pc = "idle" \/ u.dep = d, NetStep(d)
  PROVE  Apart(d)
<1> SUFFICES ASSUME NEW c \in Deployment \ {d} PROVE Aside(c)
  BY DEF Apart
<1>1. dep'[c] = dep[c] /\ thr'[t] = u /\ \A s \in Thread \ {t} : thr'[s] = thr[s]
  BY DEF Rewritten, IInv, RecordsOK, ThreadsOK
<1> QED
  BY <1>1 DEF Aside

\* fail() closes the gateway of its deployment, or releases what is the project's.
LEMMA FailApart ==
  ASSUME IInv, NEW d \in Deployment, NEW t \in Thread, thr[t].pc = "idle" \/ thr[t].dep = d,
         NEW e \in LiveRecord, e.gateway = dep[d].gateway,
         FailBegin(t, d, e) \/ FailGateway(t, d, e) \/ FailFinish(t, d, e)
  PROVE  Apart(d)
<1>1. ASSUME FailFinish(t, d, e) PROVE NetStep(d)
  BY <1>1 DEF FailFinish, ReleaseFor, TakesFromOthers, NetStep
<1>2. ASSUME FailGateway(t, d, e) PROVE NetStep(d)
  BY <1>1, <1>2 DEF FailGateway, NetStep
<1>3. NetStep(d)
  BY <1>1, <1>2, NetKept DEF FailBegin, net
<1>4. FailMoves(d, t, e)
  BY FailBeginMoves, FailGatewayMoves, FailFinishMoves
<1>5. PICK u, f : Rewritten(d, t, u, f) /\ (u.pc = "idle" \/ u.dep = d)
  BY <1>4 DEF FailMoves, Rewritten
<1> QED
  BY <1>3, <1>5, OneRunApart

\* A run that goes on, or ends, having written its own record only.
LEMMA GoesOnApart ==
  ASSUME IInv, NEW t \in Thread, thr[t].pc # "idle", NEW f,
         Save(thr[t].dep, f) \/ Write(thr[t].dep, f) \/ dep' = [dep EXCEPT ![thr[t].dep] = f],
         Park(t) \/ \E pc : Goto(t, pc), NetStep(thr[t].dep)
  PROVE  Apart(thr[t].dep)
<1>1. dep' = [dep EXCEPT ![thr[t].dep] = f]
  BY DEF Save, Write
<1>2. PICK u : thr' = [thr EXCEPT ![t] = u] /\ (u.pc = "idle" \/ u.dep = thr[t].dep)
  <2>1. CASE Park(t)
    <3>1. Idle.pc = "idle"
      BY DEF Idle
    <3> QED
      BY <2>1, <3>1 DEF Park
  <2>2. ASSUME NEW pc, Goto(t, pc)
        PROVE  \E u : thr' = [thr EXCEPT ![t] = u] /\ (u.pc = "idle" \/ u.dep = thr[t].dep)
    <3>1. PICK u : u = [thr[t] EXCEPT !.pc = pc]
      OBVIOUS
    <3>2. u.dep = thr[t].dep
      BY <3>1, GotoRun
    <3>3. thr' = [thr EXCEPT ![t] = u]
      BY <2>2, <3>1 DEF Goto
    <3> QED
      BY <3>2, <3>3
  <2> QED
    BY <2>1, <2>2
<1> QED
  BY <1>1, <1>2, Working, OneRunApart DEF Rewritten

\* A run that goes on without writing its record.
LEMMA MovesOnApart ==
  ASSUME IInv, NEW t \in Thread, thr[t].pc # "idle", dep' = dep,
         Park(t) \/ \E pc : Goto(t, pc), NetStep(thr[t].dep)
  PROVE  Apart(thr[t].dep)
<1>1. dep' = [dep EXCEPT ![thr[t].dep] = dep[thr[t].dep]]
  BY DEF IInv, RecordsOK
<1> QED
  BY <1>1, GoesOnApart

LEMMA LaunchApart ==
  ASSUME IInv, NEW d \in Deployment, NEW t \in Thread, thr[t].pc = "idle" \/ thr[t].dep = d,
         NEW e \in LiveRecord, e.gateway = dep[d].gateway, Launch(t, d, e)
  PROVE  Apart(d)
<1>1. CASE FailBegin(t, d, e)
  BY <1>1, FailApart
<1>2. CASE /\ Save(d, [e EXCEPT !.state = "STARTING"]) /\ Begin(t, d, "start")
           /\ UNCHANGED net
  <2> DEFINE f == [e EXCEPT !.state = "STARTING"]
             u == [Idle EXCEPT !.pc = "start", !.dep = d]
  <2>1. Rewritten(d, t, u, f) /\ u.dep = d
    BY <1>2, SaveIsWrite DEF Rewritten, Begin, Idle
  <2> HIDE DEF u, f
  <2> QED
    BY <1>2, <2>1, NetKept, OneRunApart
<1> QED
  BY <1>1, <1>2 DEF Launch

LEMMA RunIsMade ==
  ASSUME IInv, NEW t \in Thread, Step(t) \/ Fault(t)
  PROVE  thr[t].pc # "idle" /\ thr[t].dep \in Deployment
<1>1. thr[t].pc # "idle"
  BY DEF Step, Fault, Throws, Detect, Prepare, Install, Build, AllocateAppPort, Spawn,
         HealthOk, HealthStopped, HealthGone, HealthTimeout, GiveUp, AllocateSharePort,
         Listen, ListenBusy, ListenFails, Register, GoLive, RelaunchStopped, Backoff,
         FailStopped, FailClosed, At
<1> QED
  BY <1>1, Working

LEMMA RunApart ==
  ASSUME IInv, NEW t \in Thread, Step(t) \/ Fault(t)
  PROVE  Apart(thr[t].dep)
<1> DEFINE d == thr[t].dep
           e == dep[d]
<1>1. thr[t].pc # "idle" /\ d \in Deployment /\ e \in LiveRecord
  BY RunIsMade, Working
<1>2. CASE FailBegin(t, d, e) \/ FailGateway(t, d, e) \/ FailFinish(t, d, e)
  BY <1>1, <1>2, FailApart
<1>3. ASSUME NEW to, NEW pc, Advance(t, d, e, to, pc) PROVE Apart(d)
  BY <1>1, <1>2, <1>3, NetKept, GoesOnApart DEF Advance
<1>4. CASE Detect(t)
  <2>1. ASSUME dep' = [dep EXCEPT ![d].state = "PREPARING"], Goto(t, "prepare"), UNCHANGED net
        PROVE  Apart(d)
    <3>1. dep' = [dep EXCEPT ![d] = [e EXCEPT !.state = "PREPARING"]]
      BY <1>1, <2>1
    <3> QED
      BY <1>1, <2>1, <3>1, NetKept, GoesOnApart
  <2> QED
    BY <1>2, <1>4, <2>1 DEF Detect
<1>5. CASE Prepare(t) \/ Install(t) \/ Build(t)
  BY <1>3, <1>5 DEF Prepare, Install, Build, NextStage
<1>6. CASE AllocateAppPort(t)
  <2>1. NetStep(d)
    BY <1>6 DEF AllocateAppPort, NetStep
  <2> QED
    BY <1>1, <1>6, <2>1, GoesOnApart, MovesOnApart DEF AllocateAppPort
<1>7. CASE Spawn(t)
  <2> DEFINE i == FreshInstance
             n == [e EXCEPT !.instance = i, !.missed = FALSE]
             f == [n EXCEPT !.state = "HEALTH_CHECKING"]
             u == [thr[t] EXCEPT !.pc = "health", !.inst = i]
  <2>1. n \in LiveRecord /\ n.gateway = e.gateway
    <3>1. i \in 0..MaxInstances
      BY <1>7 DEF Spawn, FreshInstance, Unspawned, Instance
    <3> HIDE DEF i
    <3> QED
      BY <1>1, <3>1 DEF LiveRecord
  <2>2. ASSUME Save(d, f), thr' = [thr EXCEPT ![t].pc = "health", ![t].inst = i], UNCHANGED net
        PROVE  Apart(d)
    <3>1. u.dep = d /\ thr' = [thr EXCEPT ![t] = u]
      BY <1>1, <2>2, Working DEF ThreadRecord, IInv, ThreadsOK
    <3>2. dep' = [dep EXCEPT ![d] = f]
      BY <2>2, SaveIsWrite
    <3> HIDE DEF u, f
    <3> QED
      BY <1>1, <2>2, <3>1, <3>2, NetKept, OneRunApart DEF Rewritten
  <2> HIDE DEF n
  <2>3. ASSUME FailBegin(t, d, n) PROVE Apart(d)
    BY <1>1, <2>1, <2>3, FailApart
  <2> QED
    BY <1>7, <2>2, <2>3 DEF Spawn, n
<1>8. CASE HealthOk(t)
  BY <1>1, <1>2, <1>8, NetKept, GoesOnApart DEF HealthOk
<1>9. CASE HealthStopped(t) \/ HealthTimeout(t) \/ AllocateSharePort(t)
  <2>1. NetStep(d)
    BY <1>9, NetKept DEF HealthStopped, HealthTimeout, AllocateSharePort, NetStep
  <2> QED
    BY <1>1, <1>9, <2>1, MovesOnApart DEF HealthStopped, HealthTimeout, AllocateSharePort
<1>10. CASE HealthGone(t) \/ GiveUp(t) \/ ListenFails(t) \/ Fault(t)
  BY <1>2, <1>10 DEF HealthGone, GiveUp, ListenFails, Fault, Throws
<1>11. CASE Listen(t)
  <2>1. NetStep(d)
    BY <1>11 DEF Listen, NetStep
  <2> QED
    BY <1>1, <1>11, <2>1, GoesOnApart DEF Listen
<1>12. CASE ListenBusy(t)
  <2> DEFINE u == [thr[t] EXCEPT !.pc = "allocShare", !.tries = @ + 1]
  <2>1. u.dep = d /\ thr' = [thr EXCEPT ![t] = u]
    BY <1>1, <1>12, Working DEF ListenBusy, ThreadRecord, IInv, ThreadsOK
  <2>2. Rewritten(d, t, u, e) /\ NetStep(d)
    BY <1>1, <1>12, <2>1 DEF ListenBusy, Rewritten, IInv, RecordsOK, NetStep, TakesFromOthers
  <2> HIDE DEF u
  <2> QED
    BY <1>1, <2>1, <2>2, OneRunApart
<1>13. CASE Register(t)
  <2>1. NetStep(d)
    BY <1>13 DEF Register, NetStep, TakesFromOthers
  <2> QED
    BY <1>1, <1>13, <2>1, GoesOnApart DEF Register
<1>14. CASE GoLive(t)
  BY <1>1, <1>2, <1>14, NetKept, GoesOnApart DEF GoLive
<1>15. CASE RelaunchStopped(t) \/ Backoff(t)
  <2>1. PICK f \in LiveRecord : f.gateway = e.gateway /\ Launch(t, d, f)
    <3>1. CASE RelaunchStopped(t)
      <4> DEFINE f == [e EXCEPT !.relaunching = FALSE]
      <4>1. f \in LiveRecord /\ f.gateway = e.gateway
        BY <1>1 DEF LiveRecord
      <4>2. Launch(t, d, f)
        BY <3>1 DEF RelaunchStopped
      <4> HIDE DEF f
      <4> QED
        BY <4>1, <4>2
    <3>2. CASE Backoff(t)
      BY <1>1, <3>2 DEF Backoff
    <3> QED
      BY <1>15, <3>1, <3>2
  <2> QED
    BY <1>1, <2>1, LaunchApart
<1>16. CASE FailStopped(t) \/ FailClosed(t)
  BY <1>2, <1>16 DEF FailStopped, FailClosed
<1> QED
  BY <1>4, <1>5, <1>6, <1>7, <1>8, <1>9, <1>10, <1>11, <1>12, <1>13, <1>14, <1>15, <1>16 DEF Step

\* deploy(), and a redeploy once its teardown is over: the newborn, and the others.
LEMMA CreatedApart ==
  ASSUME IInv, FreeThreads # {}, made < MaxDeployments, NEW d \in 0..made, NEW f,
         \/ dep' = [dep EXCEPT ![d] = f, ![made + 1].state = "DISCOVERING"]
         \/ d = 0 /\ dep' = [dep EXCEPT ![made + 1].state = "DISCOVERING"],
         Begin(FreshThread, made + 1, "detect")
  PROVE  /\ made + 1 \in Deployment /\ Newborn(made + 1)
         /\ \A c \in Deployment \ {d, made + 1} : Aside(c)
<1> DEFINE t == FreshThread
<1>1. PICK n : n = made + 1
  OBVIOUS
<1>2. n \in Deployment /\ n # d /\ dep[n] = NewLive /\ made \in Nat
      /\ \A c \in 1..made : c # n
  BY <1>1, EngineBounds DEF Deployment, IInv, RecordsOK
<1>3. t \in Thread /\ thr[t].pc = "idle"
  BY DEF FreshThread, FreeThreads
<1> HIDE DEF t
<1>4. dep'[n] = [NewLive EXCEPT !.state = "DISCOVERING"]
  BY <1>1, <1>2 DEF IInv, RecordsOK
<1>5. \A c \in Deployment \ {d, n} : dep'[c] = dep[c]
  BY <1>1, <1>2 DEF IInv, RecordsOK
<1>6. /\ thr'[t].pc = "detect" /\ thr'[t].dep = n
      /\ \A s \in Thread \ {t} : thr'[s] = thr[s]
  BY <1>1, <1>3 DEF Begin, t, Idle, IInv, ThreadsOK
<1>7. Newborn(n)
  <2>1. \A s \in Thread \ {t} : thr[s].dep = n => thr[s].pc = "idle"
    BY <1>2 DEF IInv, ThreadsOK
  <2> QED
    BY <1>4, <1>6, <2>1 DEF Newborn, NewLive
<1>8. \A c \in Deployment \ {d, n} : Aside(c)
  BY <1>3, <1>5, <1>6 DEF Aside
<1> QED
  BY <1>1, <1>2, <1>7, <1>8

LEMMA DeployApart ==
  ASSUME IInv, Deploy
  PROVE  \E d \in Deployment : Apart(d) /\ Newborn(d)
<1>1. FreeThreads # {} /\ made < MaxDeployments /\ 0 \in 0..made
  BY DEF Deploy, CanCreate, IInv, RecordsOK
<1>2. /\ made + 1 \in Deployment /\ Newborn(made + 1)
      /\ \A c \in Deployment \ {0, made + 1} : Aside(c)
  BY <1>1, CreatedApart DEF Deploy
<1>3. NetStep(made + 1)
  BY NetKept DEF Deploy
<1> QED
  BY <1>2, <1>3 DEF Apart, Deployment

LEMMA TeardownFinishApart ==
  ASSUME IInv, NEW d \in 1..made, NEW e, NEW w, NEW again, TeardownFinish(d, e, w, again)
  PROVE  Apart(d)
<1>1. NetStep(d)
  BY DEF TeardownFinish, ReleaseFor, TakesFromOthers, NetStep
<1>2. PICK f : \/ dep' = [dep EXCEPT ![d] = f] /\ thr' = thr
               \/ /\ FreeThreads # {} /\ made < MaxDeployments
                  /\ dep' = [dep EXCEPT ![d] = f, ![made + 1].state = "DISCOVERING"]
                  /\ Begin(FreshThread, made + 1, "detect")
  BY DEF TeardownFinish, CanCreate
<1>3. CASE dep' = [dep EXCEPT ![d] = f] /\ thr' = thr
  BY <1>1, <1>3 DEF Apart, Aside, IInv, RecordsOK
<1>4. CASE /\ FreeThreads # {} /\ made < MaxDeployments
           /\ dep' = [dep EXCEPT ![d] = f, ![made + 1].state = "DISCOVERING"]
           /\ Begin(FreshThread, made + 1, "detect")
  <2>1. d \in 0..made
    OBVIOUS
  <2>2. Newborn(made + 1) /\ \A c \in Deployment \ {d, made + 1} : Aside(c)
    BY <1>4, <2>1, CreatedApart
  <2> QED
    BY <1>1, <2>2 DEF Apart
<1> QED
  BY <1>2, <1>3, <1>4

LEMMA QuietApart ==
  ASSUME IInv, NEW d \in Deployment, NEW f, dep' = [dep EXCEPT ![d] = f], thr' = thr, NetStep(d)
  PROVE  Apart(d)
  BY DEF Apart, Aside, IInv, RecordsOK

LEMMA TeardownProcessApart ==
  ASSUME IInv, NEW d \in 1..made, NEW e, NEW w, NEW again, TeardownProcess(d, e, w, again)
  PROVE  Apart(d)
<1>1. CASE RecordStopping(d, e) /\ thr' = thr /\ UNCHANGED net
  BY <1>1, RecordIsWritten, NetKept, QuietApart, MadeIsDeployment
<1> QED
  BY <1>1, TeardownFinishApart DEF TeardownProcess

LEMMA TeardownBeginApart ==
  ASSUME IInv, NEW d \in 1..made, NEW was \in LiveRecord, was.gateway = dep[d].gateway,
         NEW w, NEW again, TeardownBegin(d, was, w, again)
  PROVE  Apart(d)
<1> DEFINE e == [was EXCEPT !.stopping = TRUE, !.stable = FALSE,
                            !.state = IF IsTerminal(@) THEN @ ELSE "STOPPING"]
<1>1. e.gateway = dep[d].gateway
  BY StoppingRecord
<1> HIDE DEF e
<1>2. CASE /\ listening' = listening \ {e.gateway} /\ RecordStopping(d, e) /\ thr' = thr
           /\ UNCHANGED <<reserved, route, robbed>>
  <2>1. NetStep(d)
    BY <1>1, <1>2 DEF NetStep
  <2> QED
    BY <1>2, <2>1, RecordIsWritten, QuietApart, MadeIsDeployment
<1> QED
  BY <1>2, TeardownProcessApart DEF TeardownBegin, e

LEMMA TeardownApart ==
  ASSUME IInv, NEW d \in Deployment, TeardownClosed(d) \/ TeardownStopped(d)
  PROVE  Apart(d)
<1>1. d \in 1..made
  BY DEF TeardownClosed, TeardownStopped, IInv, TeardownsOK
<1> QED
  BY <1>1, TeardownProcessApart, TeardownFinishApart DEF TeardownClosed, TeardownStopped

LEMMA StopApart ==
  ASSUME IInv, RestartByRedeploy \/ \E w \in {"running", "stopped"} : Stop(w)
  PROVE  live \in Deployment /\ Apart(live)
<1>1. live \in 1..made
  <2>1. live # 0
    BY DEF RestartByRedeploy, Stop, None
  <2> QED
    BY <2>1, EngineBounds DEF IInv, RecordsOK
<1>2. PICK w \in {"running", "stopped"}, again \in BOOLEAN :
        TeardownBegin(live, dep[live], w, again)
  BY DEF RestartByRedeploy, Stop
<1> QED
  BY <1>1, <1>2, OwnFollows, MadeIsDeployment, TeardownBeginApart

-----------------------------------------------------------------------------
(* The one the step concerns                                               *)

\* What the proof of a step starts from: the invariants, and where records may go.
Before == IInv /\ PInv /\ Reach /\ AllFollow /\ KillsStay /\ robbed \subseteq robbed'

\* A stop, a failure, a robbery and the end are for good.
LEMMA WasNormal ==
  ASSUME Before, NEW t \in Thread, thr[t].pc \notin {"failStop", "failClose"},
         \A s \in Thread \ {t} : thr'[s] = thr[s],
         NEW d \in Deployment, StaysNormal(d)
  PROVE  Normal(d)
<1>1. ~dep[d].stopping /\ ~IsTerminal(dep[d].state) /\ d \notin robbed
  BY DEF Before, AllFollow, Follows, StaysNormal
<1>2. ~Failing(d)
  BY DEF StaysNormal, Failing
<1> QED
  BY <1>1, <1>2 DEF Normal

\* After a step of the run that drives it, or begins to, a deployment is as before.
LEMMA LaunchReaches ==
  ASSUME Before, NEW d \in Deployment, NEW t \in Thread, NEW u, NEW f, Rewritten(d, t, u, f),
         thr[t].pc \notin {"failStop", "failClose"},
         Drives(t, d) \/ Undriven(d),
         Normal(d) => /\ u.pc \in Driving => OnItsWay(u, f, d, reserved', route')
                      /\ Secured(f, d, listening', reserved', route')
  PROVE  Reaches(d)
<1> SUFFICES ASSUME StaysNormal(d)
             PROVE  /\ \A s \in Thread : thr'[s].dep = d /\ thr'[s].pc \in Driving =>
                         OnItsWay(thr'[s], dep'[d], d, reserved', route')
                    /\ Secured(dep'[d], d, listening', reserved', route')
  BY DEF Reaches
<1>1. /\ dep'[d] = f /\ thr'[t] = u /\ \A s \in Thread \ {t} : thr'[s] = thr[s]
  BY DEF Before, Rewritten, IInv, RecordsOK, ThreadsOK
<1>2. Normal(d)
  BY <1>1, WasNormal
<1>3. \A s \in Thread : thr'[s].dep = d /\ thr'[s].pc \in Driving => s = t
  BY <1>1 DEF Drives, Undriven, Before, PInv, InStep
<1> QED
  BY <1>1, <1>2, <1>3

\* The run that drives it leaves what it has secured as it is.
LEMMA DriverSecured ==
  ASSUME Before, NEW t \in Thread, thr[t].pc \in Driving, Normal(thr[t].dep)
  PROVE  /\ OnItsWay(thr[t], dep[thr[t].dep], thr[t].dep, reserved, route)
         /\ Secured(dep[thr[t].dep], thr[t].dep, listening, reserved, route)
         /\ dep[thr[t].dep].state # "LIVE"
  BY Driver DEF Before, Reach, Reached, Serving

LEMMA DriverReaches ==
  ASSUME Before, NEW t \in Thread, thr[t].pc \in Driving, NEW u, NEW f,
         Rewritten(thr[t].dep, t, u, f), f.gateway = dep[thr[t].dep].gateway, f.state # "LIVE",
         thr[t].pc \in BeforeSpawn \/ f.state \in Holding,
         listening' = listening, reserved \subseteq reserved', route' = route,
         Normal(thr[t].dep) =>
           (u.pc \in Driving => OnItsWay(u, f, thr[t].dep, reserved', route'))
  PROVE  Reaches(thr[t].dep)
<1> DEFINE d == thr[t].dep
<1>1. d \in Deployment /\ Drives(t, d) /\ thr[t].pc \notin {"failStop", "failClose"}
  BY Driver DEF Before, Driving
<1>2. Normal(d) => Secured(f, d, listening', reserved', route')
  BY DriverSecured DEF Secured, OnItsWay
<1> QED
  BY <1>1, <1>2, LaunchReaches

-----------------------------------------------------------------------------
(* fail() and teardown()                                                   *)

LEMMA OverReaches ==
  ASSUME NEW d \in Deployment, ~StaysNormal(d)
  PROVE  Reaches(d)
  BY DEF Reaches

LEMMA FailFinishEnds ==
  ASSUME Before, NEW d \in Deployment, NEW t, NEW e \in LiveRecord, FailFinish(t, d, e)
  PROVE  ~StaysNormal(d)
<1> DEFINE g == [Released(e) EXCEPT !.state = "FAILED", !.forget = TRUE]
<1>1. g.state = "FAILED" /\ DOMAIN g = DOMAIN e
  BY DEF Released, LiveRecord
<1>2. Hosted(g, "failed").state = "FAILED"
  <2> HIDE DEF g
  <2> QED
    BY <1>1 DEF Hosted, LiveRecord
<1>3. dep'[d] = Hosted(g, "failed")
  BY DEF FailFinish, Before, IInv, RecordsOK
<1> HIDE DEF g
<1> QED
  BY <1>2, <1>3 DEF StaysNormal, IsTerminal, Terminal

LEMMA FailGatewayEnds ==
  ASSUME Before, NEW d \in Deployment, NEW t \in Thread, NEW e \in LiveRecord,
         FailGateway(t, d, e)
  PROVE  ~StaysNormal(d)
<1>1. CASE FailFinish(t, d, e)
  BY <1>1, FailFinishEnds
<1>2. CASE Begin(t, d, "failClose")
  BY <1>2 DEF Begin, Idle, Before, IInv, ThreadsOK, StaysNormal
<1> QED
  BY <1>1, <1>2 DEF FailGateway

LEMMA FailBeginEnds ==
  ASSUME Before, NEW d \in Deployment, NEW t \in Thread, NEW e \in LiveRecord,
         FailBegin(t, d, e)
  PROVE  ~StaysNormal(d)
<1>1. CASE FailGateway(t, d, e)
  BY <1>1, FailGatewayEnds
<1>2. CASE e.stopping /\ Write(d, e)
  BY <1>2 DEF Write, Before, IInv, RecordsOK, StaysNormal
<1>3. CASE thr' = [thr EXCEPT ![t] = [Idle EXCEPT !.pc = "failStop", !.dep = d,
                                                  !.inst = e.instance]]
  BY <1>3 DEF Idle, Before, IInv, ThreadsOK, StaysNormal
<1> QED
  BY <1>1, <1>2, <1>3 DEF FailBegin

LEMMA ThrowsReaches ==
  ASSUME Before, NEW t \in Thread, NEW pc, pc # "idle", Throws(t, pc)
  PROVE  Reaches(thr[t].dep)
<1>1. thr[t].dep \in Deployment /\ dep[thr[t].dep] \in LiveRecord
  BY Working DEF Throws, At, Before
<1> QED
  BY <1>1, FailBeginEnds, OverReaches DEF Throws

LEMMA CleanupReaches ==
  ASSUME Before, NEW t \in Thread, FailStopped(t) \/ FailClosed(t)
  PROVE  Reaches(thr[t].dep)
<1>1. thr[t].dep \in Deployment /\ dep[thr[t].dep] \in LiveRecord
  BY Working DEF FailStopped, FailClosed, At, Before
<1> QED
  BY <1>1, FailGatewayEnds, FailFinishEnds, OverReaches DEF FailStopped, FailClosed

LEMMA StoppingReaches ==
  ASSUME Before, NEW d \in Deployment, dep[d].stopping \/ dep'[d].stopping
  PROVE  Reaches(d)
<1>1. dep'[d].stopping
  BY DEF Before, AllFollow, Follows
<1> QED
  BY <1>1, OverReaches DEF StaysNormal

LEMMA TeardownBeginReaches ==
  ASSUME Before, NEW d \in 1..made, NEW was \in LiveRecord, NEW w, NEW again,
         TeardownBegin(d, was, w, again)
  PROVE  Reaches(d)
<1> DEFINE e == [was EXCEPT !.stopping = TRUE, !.stable = FALSE,
                            !.state = IF IsTerminal(@) THEN @ ELSE "STOPPING"]
<1>1. e \in LiveRecord /\ e.stopping
  BY StoppingRecord
<1>2. d \in Deployment
  BY MadeIsDeployment DEF Before
<1> HIDE DEF e
<1>3. CASE RecordStopping(d, e)
  <2>1. dep'[d].stopping
    BY <1>1, <1>2, <1>3, RecordIsWritten DEF Before, IInv, RecordsOK
  <2> QED
    BY <1>2, <2>1, StoppingReaches
<1>4. CASE TeardownFinish(d, e, w, again)
  <2>1. PICK f : f = Hosted([Released(e) EXCEPT !.state = IF @ = "STOPPING" THEN "STOPPED" ELSE @],
                            "stopped")
    OBVIOUS
  <2>2. f.stopping
    BY <1>1, <2>1, ReleasedRecord
  <2>3. \/ dep' = [dep EXCEPT ![d] = f]
        \/ dep' = [dep EXCEPT ![d] = f, ![made + 1].state = "DISCOVERING"]
    BY <1>4, <2>1 DEF TeardownFinish
  <2>4. dep'[d] = f
    BY <1>2, <2>3, EngineBounds DEF Before, IInv, RecordsOK
  <2> QED
    BY <1>2, <2>2, <2>4, StoppingReaches
<1> QED
  BY <1>3, <1>4 DEF TeardownBegin, TeardownProcess, e

LEMMA TeardownReaches ==
  ASSUME Before, NEW d \in Deployment, TeardownClosed(d) \/ TeardownStopped(d)
  PROVE  Reaches(d)
<1>1. dep[d].stopping
  BY DEF TeardownClosed, TeardownStopped, Before, IInv, TeardownsOK
<1> QED
  BY <1>1, StoppingReaches

LEMMA StopReaches ==
  ASSUME Before, RestartByRedeploy \/ \E w \in {"running", "stopped"} : Stop(w)
  PROVE  Reaches(live)
<1>1. live \in 1..made
  <2>1. live # 0
    BY DEF RestartByRedeploy, Stop, None
  <2> QED
    BY <2>1, EngineBounds DEF Before, IInv, RecordsOK
<1>2. PICK w \in {"running", "stopped"}, again \in BOOLEAN :
        TeardownBegin(live, dep[live], w, again)
  BY DEF RestartByRedeploy, Stop
<1> QED
  BY <1>1, <1>2, OwnFollows, TeardownBeginReaches DEF Before

-----------------------------------------------------------------------------
(* The runs                                                                *)

LEMMA AdvanceReaches ==
  ASSUME Before, NEW t \in Thread, thr[t].pc \in BeforeSpawn, NEW to \in Running \ {"LIVE"},
         NEW pc \in BeforeSpawn,
         Advance(t, thr[t].dep, dep[thr[t].dep], to, pc)
  PROVE  Reaches(thr[t].dep)
<1> DEFINE d == thr[t].dep
           f == [dep[d] EXCEPT !.state = to]
           u == [thr[t] EXCEPT !.pc = pc]
<1>1. thr[t].pc \in Driving /\ thr[t].pc # "idle" /\ d \in Deployment /\ dep[d] \in LiveRecord
  BY Driver DEF Driving, BeforeSpawn, PC, Before
<1>2. CASE FailBegin(t, d, dep[d])
  BY <1>1, <1>2, FailBeginEnds, OverReaches
<1>3. CASE Save(d, f) /\ Goto(t, pc) /\ UNCHANGED net
  <2>1. f.state = to /\ f.gateway = dep[d].gateway
    BY <1>1, EnteredRecord, RunningIsState
  <2>2. u.pc = pc
    BY <1>1, GotoRun DEF Before
  <2>3. Rewritten(d, t, u, f) /\ UNCHANGED <<listening, reserved, route>>
    BY <1>3, SaveIsWrite DEF Rewritten, Goto, net
  <2> HIDE DEF u, f
  <2>4. Normal(d) => OnItsWay(u, f, d, reserved', route')
    BY <1>1, <2>1, <2>2, DriverSecured DEF OnItsWay, BeforeSpawn
  <2> QED
    BY <1>1, <2>1, <2>3, <2>4, DriverReaches
<1> QED
  BY <1>2, <1>3 DEF Advance

LEMMA StagesReach ==
  ASSUME Before, NEW t \in Thread, Prepare(t) \/ Install(t) \/ Build(t)
  PROVE  Reaches(thr[t].dep)
<1>1. thr[t].pc \in BeforeSpawn
  BY DEF Prepare, Install, Build, At, BeforeSpawn
<1>2. PICK s \in {"INSTALLING", "BUILDING", "ALLOCATING"} :
        Advance(t, thr[t].dep, dep[thr[t].dep], s,
                CASE s = "INSTALLING" -> "install" [] s = "BUILDING" -> "build"
                  [] OTHER -> "allocApp")
  BY DEF Prepare, Install, Build, NextStage
<1>3. CASE s = "INSTALLING" /\ Advance(t, thr[t].dep, dep[thr[t].dep], s, "install")
  BY <1>1, <1>3, AdvanceReaches DEF Running, BeforeSpawn
<1>4. CASE s = "BUILDING" /\ Advance(t, thr[t].dep, dep[thr[t].dep], s, "build")
  BY <1>1, <1>4, AdvanceReaches DEF Running, BeforeSpawn
<1>5. CASE s = "ALLOCATING" /\ Advance(t, thr[t].dep, dep[thr[t].dep], s, "allocApp")
  BY <1>1, <1>5, AdvanceReaches DEF Running, BeforeSpawn
<1> QED
  BY <1>2, <1>3, <1>4, <1>5

LEMMA DetectReaches ==
  ASSUME Before, NEW t \in Thread, Detect(t)
  PROVE  Reaches(thr[t].dep)
<1> DEFINE d == thr[t].dep
           f == [dep[d] EXCEPT !.state = "PREPARING"]
           u == [thr[t] EXCEPT !.pc = "prepare"]
<1>1. /\ thr[t].pc = "detect" /\ thr[t].pc \in Driving /\ d \in Deployment
      /\ dep[d] \in LiveRecord
  BY Driver DEF Detect, At, Driving, PC, Before, api
<1>2. CASE FailBegin(t, d, dep[d])
  BY <1>1, <1>2, FailBeginEnds, OverReaches
<1>3. CASE dep' = [dep EXCEPT ![d] = f] /\ Goto(t, "prepare") /\ UNCHANGED net
  <2>1. f.state = "PREPARING" /\ f.gateway = dep[d].gateway
    BY <1>1, EnteredRecord, StatesListed
  <2>2. u.pc = "prepare"
    BY <1>1, GotoRun DEF Before
  <2>3. Rewritten(d, t, u, f) /\ UNCHANGED <<listening, reserved, route>>
    BY <1>1, <1>3 DEF Rewritten, Goto, net
  <2> HIDE DEF u, f
  <2>4. Normal(d) => OnItsWay(u, f, d, reserved', route')
    BY <1>1, <2>1, <2>2, DriverSecured DEF OnItsWay, BeforeSpawn
  <2> QED
    BY <1>1, <2>1, <2>3, <2>4, DriverReaches DEF BeforeSpawn
<1>4. dep' = [dep EXCEPT ![d].state = "PREPARING"] => dep' = [dep EXCEPT ![d] = f]
  BY <1>1
<1> HIDE DEF f
<1> QED
  BY <1>2, <1>3, <1>4 DEF Detect

LEMMA AllocateAppPortReaches ==
  ASSUME Before, NEW t \in Thread, AllocateAppPort(t)
  PROVE  Reaches(thr[t].dep)
<1> DEFINE d == thr[t].dep
           f == [dep[d] EXCEPT !.state = "STARTING"]
           u == [thr[t] EXCEPT !.pc = "start"]
<1>1. /\ thr[t].pc = "allocApp" /\ thr[t].pc \in Driving /\ d \in Deployment
      /\ dep[d] \in LiveRecord /\ reserved' = reserved \cup {"app"}
      /\ UNCHANGED <<listening, route>>
  BY Driver DEF AllocateAppPort, At, Driving, PC, Before, api
<1>2. CASE dep[d].stopping
  BY <1>1, <1>2, StoppingReaches
<1>3. CASE Save(d, f) /\ Goto(t, "start")
  <2>1. f.state = "STARTING" /\ f.gateway = dep[d].gateway
    BY <1>1, EnteredRecord, StatesListed
  <2>2. u.pc = "start"
    BY <1>1, GotoRun DEF Before
  <2>3. Rewritten(d, t, u, f)
    BY <1>1, <1>3, SaveIsWrite DEF Rewritten, Goto
  <2> HIDE DEF u, f
  <2>4. OnItsWay(u, f, d, reserved', route') /\ f.state \in Holding
    BY <1>1, <2>1, <2>2 DEF OnItsWay, BeforeSpawn, Holding
  <2> QED
    BY <1>1, <2>1, <2>3, <2>4, DriverReaches
<1> QED
  BY <1>2, <1>3 DEF AllocateAppPort

\* A launch that begins keeps what its caller had secured.
LEMMA LaunchBegins ==
  ASSUME Before, NEW d \in Deployment, NEW t \in Thread, NEW e \in LiveRecord,
         e.gateway = dep[d].gateway,
         thr[t].pc \notin {"failStop", "failClose"}, Drives(t, d) \/ Undriven(d),
         Normal(d) => /\ "app" \in reserved
                      /\ Secured(dep[d], d, listening, reserved, route),
         Launch(t, d, e)
  PROVE  Reaches(d)
<1> DEFINE f == [e EXCEPT !.state = "STARTING"]
           u == [Idle EXCEPT !.pc = "start", !.dep = d]
<1>1. CASE FailBegin(t, d, e)
  BY <1>1, FailBeginEnds, OverReaches
<1>2. CASE Save(d, f) /\ Begin(t, d, "start") /\ UNCHANGED net
  <2>1. f.state = "STARTING" /\ f.gateway = e.gateway
    BY EnteredRecord, StatesListed
  <2>2. u.pc = "start"
    BY DEF Idle
  <2>3. Rewritten(d, t, u, f) /\ UNCHANGED <<listening, reserved, route>>
    BY <1>2, SaveIsWrite DEF Rewritten, Begin, net
  <2> HIDE DEF u, f
  <2>4. Normal(d) => OnItsWay(u, f, d, reserved', route')
    BY <2>1, <2>2, <2>3 DEF OnItsWay, BeforeSpawn, Holding
  <2>5. Normal(d) => Secured(f, d, listening', reserved', route')
    BY <2>1, <2>3 DEF Secured, Holding
  <2> QED
    BY <2>3, <2>4, <2>5, LaunchReaches
<1> QED
  BY <1>1, <1>2 DEF Launch

LEMMA RelaunchReaches ==
  ASSUME Before, NEW t \in Thread, RelaunchStopped(t) \/ Backoff(t)
  PROVE  Reaches(thr[t].dep)
<1> DEFINE d == thr[t].dep
           f == [dep[d] EXCEPT !.relaunching = FALSE]
<1>1. thr[t].pc \in {"relaunchStop", "backoff"} /\ thr[t].pc \in Driving
  BY DEF RelaunchStopped, Backoff, At, Driving, PC
<1>2. d \in Deployment /\ dep[d] \in LiveRecord /\ Drives(t, d)
  BY <1>1, Driver DEF Before
<1>3. f \in LiveRecord /\ f.gateway = dep[d].gateway
  BY <1>2 DEF LiveRecord
<1>4. Normal(d) => "app" \in reserved /\ Secured(dep[d], d, listening, reserved, route)
  BY <1>1, DriverSecured DEF OnItsWay, BeforeSpawn
<1>5. Launch(t, d, f) \/ Launch(t, d, dep[d])
  BY DEF RelaunchStopped, Backoff
<1> HIDE DEF f
<1> QED
  BY <1>1, <1>2, <1>3, <1>4, <1>5, LaunchBegins

\* A run that only moves on.
LEMMA GotoReaches ==
  ASSUME Before, NEW t \in Thread, thr[t].pc \in Driving \ BeforeSpawn, NEW u,
         thr' = [thr EXCEPT ![t] = u], UNCHANGED <<dep, listening, route>>,
         \/ u.pc = "giveUp" /\ reserved' = reserved
         \/ /\ u.pc = "listen" /\ thr[t].pc = "allocShare"
            /\ reserved' = reserved \cup {"share"}
  PROVE  Reaches(thr[t].dep)
<1> DEFINE d == thr[t].dep
<1>1. Rewritten(d, t, u, dep[d])
  BY Driver DEF Rewritten, Before, IInv, RecordsOK
<1>2. dep[d].state # "LIVE"
  BY Driver DEF Before, Serving
<1>3. Normal(d) => OnItsWay(u, dep[d], d, reserved', route') /\ dep[d].state \in Holding
  BY DriverSecured DEF OnItsWay, BeforeSpawn
<1>4. Normal(d) => Secured(dep[d], d, listening', reserved', route')
  BY DriverSecured DEF Secured
<1> QED
  BY <1>1, <1>3, <1>4, Driver, LaunchReaches DEF Before, Driving

LEMMA SpawnReaches ==
  ASSUME Before, NEW t \in Thread, Spawn(t)
  PROVE  Reaches(thr[t].dep)
<1> DEFINE d == thr[t].dep
           e == [dep[d] EXCEPT !.instance = FreshInstance, !.missed = FALSE]
           f == [e EXCEPT !.state = "HEALTH_CHECKING"]
           u == [thr[t] EXCEPT !.pc = "health", !.inst = FreshInstance]
<1>1. /\ thr[t].pc = "start" /\ thr[t].pc \in Driving /\ d \in Deployment
      /\ dep[d] \in LiveRecord /\ Drives(t, d)
  BY Driver DEF Spawn, At, Driving, PC, Before
<1>2. e \in LiveRecord /\ e.gateway = dep[d].gateway
  <2>1. FreshInstance \in 0..MaxInstances
    BY DEF Spawn, FreshInstance, Unspawned, Instance
  <2> QED
    BY <1>1, <2>1 DEF LiveRecord
<1> HIDE DEF e
<1>3. CASE FailBegin(t, d, e)
  BY <1>1, <1>2, <1>3, FailBeginEnds, OverReaches
<1>4. CASE Save(d, f) /\ thr' = [thr EXCEPT ![t].pc = "health", ![t].inst = FreshInstance]
           /\ UNCHANGED net
  <2>1. f.state = "HEALTH_CHECKING" /\ f.gateway = dep[d].gateway
    BY <1>2, EnteredRecord, StatesListed
  <2>2. u.pc = "health" /\ thr' = [thr EXCEPT ![t] = u]
    BY <1>1, <1>4, Working DEF ThreadRecord, Before, IInv, ThreadsOK
  <2>3. dep' = [dep EXCEPT ![d] = f] /\ UNCHANGED <<listening, reserved, route>>
    BY <1>4, SaveIsWrite DEF net
  <2> HIDE DEF u, f
  <2>4. Normal(d) => OnItsWay(u, f, d, reserved', route')
    BY <1>1, <2>1, <2>2, <2>3, DriverSecured DEF OnItsWay, BeforeSpawn, Holding
  <2>5. Normal(d) => Secured(f, d, listening', reserved', route')
    BY <1>1, <2>1, <2>3, DriverSecured DEF Secured, Holding
  <2> QED
    BY <1>1, <2>2, <2>3, <2>4, <2>5, LaunchReaches DEF Rewritten
<1> QED
  BY <1>3, <1>4 DEF Spawn, e

LEMMA HealthOkReaches ==
  ASSUME Before, NEW t \in Thread, HealthOk(t)
  PROVE  Reaches(thr[t].dep)
<1> DEFINE d == thr[t].dep
           e == dep[d]
           pc == IF e.gateway = None THEN "allocShare" ELSE "probe"
           f == [e EXCEPT !.state = "EXPOSING",
                          !.target = IF e.gateway = None THEN @ ELSE thr[t].inst]
           u == [thr[t] EXCEPT !.pc = pc]
<1>1. /\ thr[t].pc = "health" /\ thr[t].pc \in Driving /\ d \in Deployment
      /\ dep[d] \in LiveRecord
  BY Driver DEF HealthOk, At, Driving, PC, Before
<1>2. CASE FailBegin(t, d, e)
  BY <1>1, <1>2, FailBeginEnds, OverReaches
<1>3. CASE Save(d, f) /\ Goto(t, pc) /\ UNCHANGED net
  <2>1. f.state = "EXPOSING" /\ f.gateway = e.gateway
    BY <1>1 DEF LiveRecord
  <2>2. u.pc = pc
    BY <1>1, GotoRun DEF Before
  <2>3. Rewritten(d, t, u, f) /\ UNCHANGED <<listening, reserved, route>>
    BY <1>3, SaveIsWrite DEF Rewritten, Goto, net
  <2> HIDE DEF u, f
  <2>4. Normal(d) => OnItsWay(u, f, d, reserved', route')
    BY <1>1, <2>1, <2>2, <2>3, DriverSecured DEF OnItsWay, BeforeSpawn, Holding
  <2>5. f.state \in Holding
    BY <2>1 DEF Holding
  <2> QED
    BY <1>1, <2>1, <2>3, <2>4, <2>5, DriverReaches
<1> QED
  BY <1>2, <1>3 DEF HealthOk

LEMMA HealthOverReaches ==
  ASSUME Before, NEW t \in Thread,
         \/ HealthStopped(t) \/ HealthGone(t) \/ HealthTimeout(t) \/ GiveUp(t)
         \/ ListenFails(t) \/ Fault(t)
  PROVE  Reaches(thr[t].dep)
<1>1. CASE HealthStopped(t)
  <2>1. thr[t].pc # "idle" /\ dep[thr[t].dep].stopping
    BY <1>1 DEF HealthStopped, At
  <2> QED
    BY <2>1, Working, StoppingReaches DEF Before
<1>2. CASE HealthTimeout(t)
  <2> DEFINE u == [thr[t] EXCEPT !.pc = "giveUp"]
  <2>1. thr[t].pc \in Driving \ BeforeSpawn /\ thr[t].pc # "idle"
    BY <1>2 DEF HealthTimeout, At, Driving, PC, BeforeSpawn
  <2>2. u.pc = "giveUp"
    BY <2>1, GotoRun DEF Before
  <2>3. thr' = [thr EXCEPT ![t] = u] /\ UNCHANGED <<dep, listening, reserved, route>>
    BY <1>2 DEF HealthTimeout, Goto, net
  <2> HIDE DEF u
  <2> QED
    BY <2>1, <2>2, <2>3, GotoReaches
<1>3. CASE HealthGone(t) \/ GiveUp(t) \/ ListenFails(t) \/ Fault(t)
  BY <1>3, ThrowsReaches DEF HealthGone, GiveUp, ListenFails, Fault
<1> QED
  BY <1>1, <1>2, <1>3

\* The share port is given back only while no gateway listens on it.
LEMMA SharePortReaches ==
  ASSUME Before, NEW t \in Thread, AllocateSharePort(t) \/ ListenBusy(t)
  PROVE  Reaches(thr[t].dep)
<1>1. thr[t].pc \in Driving \ BeforeSpawn /\ thr[t].pc # "idle"
  BY DEF AllocateSharePort, ListenBusy, At, Driving, PC, BeforeSpawn
<1>2. CASE AllocateSharePort(t)
  <2> DEFINE u == [thr[t] EXCEPT !.pc = "listen"]
  <2>1. u.pc = "listen"
    BY <1>1, GotoRun DEF Before
  <2>2. /\ thr[t].pc = "allocShare" /\ reserved' = reserved \cup {"share"}
        /\ thr' = [thr EXCEPT ![t] = u] /\ UNCHANGED <<dep, listening, route>>
    BY <1>2 DEF AllocateSharePort, At, Goto
  <2> HIDE DEF u
  <2> QED
    BY <1>1, <2>1, <2>2, GotoReaches
<1>3. CASE ListenBusy(t)
  <2> DEFINE d == thr[t].dep
             u == [thr[t] EXCEPT !.pc = "allocShare", !.tries = @ + 1]
  <2>1. u.pc = "allocShare" /\ thr' = [thr EXCEPT ![t] = u]
    BY <1>1, <1>3, Working DEF ListenBusy, Before, IInv, ThreadsOK, ThreadRecord
  <2>2. /\ reserved' = reserved \ {"share"} /\ UNCHANGED <<dep, listening, route>>
        /\ thr[t].pc = "listen"
    BY <1>3 DEF ListenBusy, At
  <2>3. Rewritten(d, t, u, dep[d]) /\ d \in Deployment /\ Drives(t, d)
    BY <1>1, <2>1, <2>2, Driver DEF Rewritten, Before, IInv, RecordsOK
  <2> HIDE DEF u
  <2>4. Normal(d) => OnItsWay(u, dep[d], d, reserved', route')
    BY <1>1, <2>1, <2>2, DriverSecured DEF OnItsWay, BeforeSpawn
  <2>5. Normal(d) => Secured(dep[d], d, listening', reserved', route')
    BY <1>1, <2>2, DriverSecured DEF Secured, OnItsWay
  <2> QED
    BY <2>2, <2>3, <2>4, <2>5, LaunchReaches
<1> QED
  BY <1>2, <1>3

LEMMA ListenReaches ==
  ASSUME Before, NEW t \in Thread, Listen(t)
  PROVE  Reaches(thr[t].dep)
<1> DEFINE d == thr[t].dep
           f == Opened(dep[d], thr[t].inst)
           u == [thr[t] EXCEPT !.pc = "probe"]
<1>1. /\ thr[t].pc = "listen" /\ thr[t].pc \in Driving /\ thr[t].pc # "idle"
      /\ listening' = listening \cup {thr[t].inst} /\ UNCHANGED <<reserved, route>>
  BY DEF Listen, At, Driving, PC
<1>2. d \in Deployment /\ dep[d] \in LiveRecord /\ Drives(t, d) /\ dep[d].state # "LIVE"
  BY <1>1, Driver DEF Before, Serving
<1>3. f.state = dep[d].state /\ f.gateway = thr[t].inst
  BY <1>2 DEF LiveRecord, Opened
<1>4. thr[t].inst # None
  BY <1>1, EngineBounds DEF Before, IInv, ThreadsOK, Spawned, Instance, None
<1>5. u.pc = "probe"
  BY <1>1, GotoRun DEF Before
<1>6. Rewritten(d, t, u, f)
  BY SaveIsWrite DEF Rewritten, Goto, Listen
<1> HIDE DEF u, f
<1>7. Normal(d) => OnItsWay(u, f, d, reserved', route')
  BY <1>1, <1>3, <1>4, <1>5, DriverSecured DEF OnItsWay, BeforeSpawn
<1>8. Normal(d) => Secured(f, d, listening', reserved', route')
  BY <1>1, <1>2, <1>3, DriverSecured DEF Secured, OnItsWay, BeforeSpawn
<1> QED
  BY <1>1, <1>2, <1>6, <1>7, <1>8, LaunchReaches

LEMMA RegisterReaches ==
  ASSUME Before, NEW t \in Thread, Register(t)
  PROVE  Reaches(thr[t].dep)
<1> DEFINE d == thr[t].dep
           f == [dep[d] EXCEPT !.route = TRUE,
                               !.hosting = IF dep[d].hosting = "none" THEN "starting" ELSE @]
           u == [thr[t] EXCEPT !.pc = "lan"]
<1>1. /\ thr[t].pc = "probe" /\ thr[t].pc \in Driving /\ thr[t].pc # "idle"
      /\ route' = d /\ UNCHANGED <<listening, reserved>>
  BY DEF Register, At, Driving, PC
<1>2. d \in Deployment /\ dep[d] \in LiveRecord /\ Drives(t, d) /\ dep[d].state # "LIVE"
  BY <1>1, Driver DEF Before, Serving
<1>3. f.state = dep[d].state /\ f.gateway = dep[d].gateway
  BY <1>2 DEF LiveRecord
<1>4. u.pc = "lan"
  BY <1>1, GotoRun DEF Before
<1>5. Rewritten(d, t, u, f)
  BY SaveIsWrite DEF Rewritten, Goto, Register
<1> HIDE DEF u, f
<1>6. Normal(d) => OnItsWay(u, f, d, reserved', route')
  BY <1>1, <1>3, <1>4, DriverSecured DEF OnItsWay, BeforeSpawn
<1>7. Normal(d) => Secured(f, d, listening', reserved', route')
  BY <1>1, <1>2, <1>3, DriverSecured DEF Secured, OnItsWay, BeforeSpawn
<1> QED
  BY <1>1, <1>2, <1>5, <1>6, <1>7, LaunchReaches

\* The run that reaches LIVE has secured all of it on the way.
LEMMA GoLiveReaches ==
  ASSUME Before, NEW t \in Thread, GoLive(t)
  PROVE  Reaches(thr[t].dep)
<1> DEFINE d == thr[t].dep
           e == dep[d]
           g == Served(e)
           f == Hosted(g, "live")
<1>1. thr[t].pc = "lan" /\ thr[t].pc \in Driving
  BY DEF GoLive, At, Driving, PC
<1>2. d \in Deployment /\ e \in LiveRecord /\ Drives(t, d)
  BY <1>1, Driver DEF Before
<1>3. CASE FailBegin(t, d, e)
  BY <1>2, <1>3, FailBeginEnds, OverReaches
<1>4. CASE Save(d, f) /\ Park(t) /\ UNCHANGED net
  <2>1. g \in LiveRecord /\ g.gateway = e.gateway /\ (g.available <=> e.gateway # None)
        /\ g.state = "LIVE"
    BY <1>2, ServedRecord
  <2>2. f.gateway = e.gateway /\ (e.gateway # None => f.available) /\ f.state \in Holding
    <3> HIDE DEF g
    <3> QED
      BY <1>2, <2>1 DEF Hosted, LiveRecord, Holding
  <2>3. Rewritten(d, t, Idle, f) /\ UNCHANGED <<listening, reserved, route>>
    BY <1>4, SaveIsWrite DEF Rewritten, Park, net
  <2> HIDE DEF f
  <2>4. Normal(d) => Secured(f, d, listening', reserved', route')
    BY <1>1, <2>2, <2>3, DriverSecured DEF Secured, OnItsWay, BeforeSpawn
  <2>5. Idle.pc \notin Driving
    BY DEF Idle, Driving
  <2> QED
    BY <1>1, <1>2, <2>3, <2>4, <2>5, LaunchReaches
<1> QED
  BY <1>3, <1>4 DEF GoLive

LEMMA RunReaches ==
  ASSUME Before, NEW t \in Thread, Step(t) \/ Fault(t)
  PROVE  Reaches(thr[t].dep)
  BY DetectReaches, StagesReach, AllocateAppPortReaches, SpawnReaches, HealthOkReaches,
     HealthOverReaches, SharePortReaches, ListenReaches, RegisterReaches, GoLiveReaches,
     RelaunchReaches, CleanupReaches
  DEF Step

-----------------------------------------------------------------------------
(* Requests, exits and timers                                              *)

\* A live deployment is driven by nobody and has secured everything.
LEMMA LiveIsSecured ==
  ASSUME Before, NEW d \in Deployment, dep[d].state = "LIVE"
  PROVE  /\ Undriven(d)
         /\ Normal(d) => /\ "app" \in reserved
                         /\ Secured(dep[d], d, listening, reserved, route)
  BY ServingIsUndriven DEF Before, Reach, Reached, Secured, Serving

LEMMA RestartReaches ==
  ASSUME Before, Restart
  PROVE  live \in Deployment /\ Apart(live) /\ Reaches(live)
<1> DEFINE d == live
           e == dep[d]
           quiet == [HeldOff(e) EXCEPT !.relaunching = TRUE]
           put == [quiet EXCEPT !.state = "RESTARTING"]
           moved == Hosted(put, "restarting")
           after == [moved EXCEPT !.relaunching = FALSE]
           loud == [quiet EXCEPT !.relaunching = FALSE]
           t == FreshThread
           u == [Idle EXCEPT !.pc = "relaunchStop", !.dep = d, !.inst = e.instance]
<1>1. d \in Deployment /\ e \in LiveRecord
  <2>1. live # 0
    BY DEF Restart, None
  <2> QED
    BY <2>1, EngineBounds, MadeIsDeployment DEF Before, IInv, RecordsOK
<1>2. t \in Thread /\ thr[t].pc = "idle"
  BY DEF Restart, FreshThread, FreeThreads
<1>3. quiet \in LiveRecord /\ quiet.gateway = e.gateway
  <2>1. PICK h : h = HeldOff(e)
    OBVIOUS
  <2>2. h \in LiveRecord /\ h.gateway = e.gateway
    BY <1>1, <2>1, HeldOffRecord DEF Before
  <2>3. quiet = [h EXCEPT !.relaunching = TRUE]
    BY <2>1
  <2> HIDE DEF quiet
  <2> QED
    BY <2>2, <2>3 DEF LiveRecord
<1>4. loud \in LiveRecord /\ loud.gateway = e.gateway
  <2> HIDE DEF quiet
  <2> QED
    BY <1>3 DEF LiveRecord
<1>5. moved \in LiveRecord /\ moved.state = "RESTARTING" /\ moved.gateway = e.gateway
  <2>1. put \in LiveRecord /\ put.state = "RESTARTING" /\ put.gateway = e.gateway
    <3> HIDE DEF quiet
    <3> QED
      BY <1>3, StatesListed DEF LiveRecord
  <2> HIDE DEF put
  <2> QED
    BY <2>1 DEF Hosted, LiveRecord, Hosting
<1>6. after \in LiveRecord /\ after.gateway = e.gateway
  <2> HIDE DEF moved
  <2> QED
    BY <1>5 DEF LiveRecord
<1> HIDE DEF quiet, put, moved, after, loud
<1>7. CASE FailBegin(t, d, loud)
  BY <1>1, <1>2, <1>4, <1>7, FailBeginEnds, OverReaches, FailApart DEF Before
<1>8. CASE e.state = "LIVE" /\ Launch(t, d, after)
  BY <1>1, <1>2, <1>6, <1>8, LiveIsSecured, LaunchBegins, LaunchApart DEF Before
<1>9. CASE /\ e.state = "LIVE" /\ Save(d, moved)
           /\ thr' = [thr EXCEPT ![t] = u] /\ UNCHANGED net
  <2>1. u.pc = "relaunchStop" /\ u.dep = d
    BY DEF Idle
  <2>2. Rewritten(d, t, u, moved) /\ UNCHANGED <<listening, reserved, route>>
    BY <1>9, SaveIsWrite DEF Rewritten, net
  <2> HIDE DEF u
  <2>3. Normal(d) => OnItsWay(u, moved, d, reserved', route')
    BY <1>1, <1>5, <1>9, <2>1, <2>2, LiveIsSecured DEF OnItsWay, BeforeSpawn, Holding
  <2>4. Normal(d) => Secured(moved, d, listening', reserved', route')
    BY <1>1, <1>5, <1>9, <2>2, LiveIsSecured DEF Secured, Holding
  <2>5. Apart(d)
    BY <1>1, <1>2, <1>9, <2>1, <2>2, NetKept, OneRunApart DEF Before
  <2> QED
    BY <1>1, <1>2, <1>9, <2>2, <2>3, <2>4, <2>5, LiveIsSecured, LaunchReaches
<1> QED
  BY <1>7, <1>8, <1>9 DEF Restart, quiet, put, moved, after, loud

\* A step that moves no run and leaves ports, gateways and the route alone.
LEMMA QuietReaches ==
  ASSUME Before, NEW d \in Deployment, NEW f, dep' = [dep EXCEPT ![d] = f],
         f.state = dep[d].state, f.gateway = dep[d].gateway, f.available = dep[d].available,
         thr' = thr, UNCHANGED net
  PROVE  Apart(d) /\ Reaches(d)
<1>1. dep'[d] = f /\ UNCHANGED <<listening, reserved, route>>
  BY DEF Before, IInv, RecordsOK, net
<1>2. ASSUME StaysNormal(d) PROVE Normal(d)
  BY <1>2 DEF Before, AllFollow, Follows, Normal, StaysNormal, Failing
<1>3. Reaches(d)
  BY <1>1, <1>2 DEF Before, Reach, Reached, Reaches, Drives, OnItsWay, Secured
<1> QED
  BY <1>3, NetKept, QuietApart DEF Before

LEMMA ExitReaches ==
  ASSUME Before, NEW i \in Instance, Exit(i)
  PROVE  owner[i] \in Deployment /\ Apart(owner[i]) /\ Reaches(owner[i])
<1> DEFINE d == owner[i]
           e == dep[d]
           f == Hosted(HeldOff(e), "restarting")
           again == [f EXCEPT !.attempts = @ + 1, !.state = "RESTARTING"]
           watched == e.instance = i /\ ~e.stopping /\ ~e.relaunching
           s == [e EXCEPT !.stable = @ /\ ~watched,
                        !.missed = @ \/ (watched /\ e.state = "EXPOSING")]
           t == FreshThread
           u == [Idle EXCEPT !.pc = "backoff", !.dep = d]
<1>1. d \in 1..made /\ d \in Deployment /\ e \in LiveRecord
  BY MadeIsDeployment DEF Exit, Before, IInv, ProcessesOK, RecordsOK
<1> SUFFICES Apart(d) /\ Reaches(d)
  BY <1>1
<1>2. f \in LiveRecord /\ f.gateway = e.gateway
  <2>1. PICK h : h = HeldOff(e)
    OBVIOUS
  <2>2. h \in LiveRecord /\ h.gateway = e.gateway
    BY <1>1, <2>1, HeldOffRecord DEF Before
  <2>3. f = Hosted(h, "restarting")
    BY <2>1
  <2> HIDE DEF f
  <2> QED
    BY <2>2, <2>3 DEF Hosted, LiveRecord, Hosting
<1>3. CASE UNCHANGED <<api, thr, net>> /\ Write(d, s)
  <2>1. s.state = e.state /\ s.gateway = e.gateway /\ s.available = e.available
    BY <1>1 DEF LiveRecord
  <2>2. dep' = [dep EXCEPT ![d] = s] /\ thr' = thr /\ UNCHANGED net
    BY <1>3 DEF Write
  <2> HIDE DEF s, d
  <2> QED
    BY <1>1, <2>1, <2>2, QuietReaches
<1>4. CASE watched /\ e.state = "LIVE" /\ \E clean \in BOOLEAN : Crashed(d, e, clean)
  <2> HIDE DEF f
  <2>1. CASE TeardownBegin(d, f, "stopped", FALSE)
    <3> HIDE DEF d
    <3> QED
      BY <1>1, <1>2, <2>1, TeardownBeginReaches, TeardownBeginApart DEF Before
  <2>2. CASE FreeThreads # {} /\ FailBegin(t, d, f)
    <3>1. t \in Thread /\ thr[t].pc = "idle"
      BY <2>2 DEF FreshThread, FreeThreads
    <3> HIDE DEF d, t
    <3> QED
      BY <1>1, <1>2, <2>2, <3>1, FailBeginEnds, OverReaches, FailApart DEF Before
  <2>3. CASE /\ FreeThreads # {} /\ Save(d, again) /\ Begin(t, d, "backoff")
             /\ UNCHANGED net
    <3>1. t \in Thread /\ thr[t].pc = "idle"
      BY <2>3 DEF FreshThread, FreeThreads
    <3>2. again.state = "RESTARTING" /\ again.gateway = e.gateway
      BY <1>2 DEF LiveRecord
    <3>3. u.pc = "backoff" /\ u.dep = d
      BY DEF Idle
    <3>4. Rewritten(d, t, u, again) /\ UNCHANGED <<listening, reserved, route>>
      BY <2>3, SaveIsWrite DEF Rewritten, Begin, net
    <3> HIDE DEF again, u
    <3>5. Normal(d) => OnItsWay(u, again, d, reserved', route')
      BY <1>1, <1>4, <3>2, <3>3, <3>4, LiveIsSecured DEF OnItsWay, BeforeSpawn, Holding
    <3>6. Normal(d) => Secured(again, d, listening', reserved', route')
      BY <1>1, <1>4, <3>2, <3>4, LiveIsSecured DEF Secured, Holding
    <3>7. Undriven(d)
      BY <1>1, <1>4, LiveIsSecured
    <3> HIDE DEF d, t
    <3> QED
      BY <1>1, <2>3, <3>1, <3>3, <3>4, <3>5, <3>6, <3>7, LaunchReaches, NetKept, OneRunApart
      DEF Before
  <2> QED
    BY <1>4, <2>1, <2>2, <2>3 DEF Crashed, f
<1> QED
  BY <1>3, <1>4 DEF Exit

LEMMA TimersReach ==
  ASSUME Before, NEW d \in Deployment, Forget(d) \/ StableTimer(d)
  PROVE  Apart(d) /\ Reaches(d)
<1> DEFINE g == [dep[d] EXCEPT !.forget = FALSE]
           h == [dep[d] EXCEPT !.attempts = 0, !.stable = FALSE]
<1>1. PICK f : dep' = [dep EXCEPT ![d] = f] /\ (f = g \/ f = h)
  <2>1. dep' = [dep EXCEPT ![d] = g] \/ dep' = [dep EXCEPT ![d] = h]
    BY DEF Forget, StableTimer, Write
  <2> QED
    BY <2>1
<1>2. f.state = dep[d].state /\ f.gateway = dep[d].gateway /\ f.available = dep[d].available
  BY <1>1 DEF Before, IInv, RecordsOK, LiveRecord
<1>3. thr' = thr /\ UNCHANGED net
  BY DEF Forget, StableTimer
<1> QED
  BY <1>1, <1>2, <1>3, QuietReaches

LEMMA InitReaches == Init => Reach
<1> SUFFICES ASSUME Init, NEW d \in Deployment PROVE Reached(d)
  BY DEF Reach
<1>1. \A t \in Thread : ~Drives(t, d)
  BY DEF Init, Drives, Driving, Idle
<1>2. dep[d].gateway = None /\ dep[d].state = "CREATED"
  BY DEF Init, NewLive
<1> QED
  BY <1>1, <1>2 DEF Reached, Secured

\* Nobody is ever taken off the list of the robbed.
LEMMA RobbedStay == IInv /\ [Next]_vars => robbed \subseteq robbed'
<1> SUFFICES ASSUME IInv, [Next]_vars PROVE robbed \subseteq robbed'
  OBVIOUS
<1>1. ASSUME NEW d, NEW t, NEW e, FailBegin(t, d, e) PROVE robbed \subseteq robbed'
  BY <1>1 DEF FailBegin, FailGateway, FailFinish, ReleaseFor, TakesFromOthers, net
<1>2. ASSUME NEW d, NEW was, NEW w, NEW again, TeardownBegin(d, was, w, again)
      PROVE  robbed \subseteq robbed'
  BY <1>2 DEF TeardownBegin, TeardownProcess, TeardownFinish, ReleaseFor, TakesFromOthers, net
<1>3. CASE Deploy \/ RestartByRedeploy \/ \E w \in {"running", "stopped"} : Stop(w)
  BY <1>2, <1>3 DEF Deploy, RestartByRedeploy, Stop, net
<1>4. CASE Restart
  BY <1>1, <1>4 DEF Restart, Launch, net
<1>5. ASSUME NEW t \in Thread, Step(t) \/ Fault(t) PROVE robbed \subseteq robbed'
  BY <1>5, RunApart DEF Apart, NetStep
<1>6. ASSUME NEW d \in Deployment,
             TeardownClosed(d) \/ TeardownStopped(d) \/ Forget(d) \/ StableTimer(d)
      PROVE  robbed \subseteq robbed'
  BY <1>6, TeardownApart DEF Apart, NetStep, Forget, StableTimer, net
<1>7. ASSUME NEW i \in Instance, Escalate(i) \/ Exit(i) PROVE robbed \subseteq robbed'
  BY <1>1, <1>2, <1>7 DEF Escalate, Exit, Crashed, net
<1>8. CASE UNCHANGED vars
  BY <1>8 DEF vars
<1> QED
  BY <1>3, <1>4, <1>5, <1>6, <1>7, <1>8 DEF Next, Request

LEMMA NextReaches == Before /\ [Next]_vars => Reach'
<1> SUFFICES ASSUME Before, [Next]_vars PROVE Reach'
  OBVIOUS
<1>1. ASSUME NEW d \in Deployment, Apart(d), Reaches(d) PROVE Reach'
  BY <1>1, ApartReaches DEF Before
<1>2. CASE Deploy
  BY <1>1, <1>2, DeployApart, NewbornReaches DEF Before
<1>3. CASE Restart
  BY <1>1, <1>3, RestartReaches
<1>4. CASE RestartByRedeploy \/ \E w \in {"running", "stopped"} : Stop(w)
  BY <1>1, <1>4, StopApart, StopReaches DEF Before
<1>5. ASSUME NEW t \in Thread, Step(t) \/ Fault(t)
      PROVE  Reach'
  <2>1. Apart(thr[t].dep) /\ Reaches(thr[t].dep)
    BY <1>5, RunApart, RunReaches DEF Before
  <2>2. thr[t].dep \in Deployment
    BY <1>5, RunIsMade DEF Before
  <2> QED
    BY <1>1, <2>1, <2>2
<1>6. ASSUME NEW d \in Deployment,
             TeardownClosed(d) \/ TeardownStopped(d) \/ Forget(d) \/ StableTimer(d)
      PROVE  Reach'
  BY <1>1, <1>6, TeardownApart, TeardownReaches, TimersReach DEF Before
<1>7. ASSUME NEW i \in Instance, Exit(i)
      PROVE  Reach'
  BY <1>1, <1>7, ExitReaches
<1>8. CASE UNCHANGED vars \/ \E i \in Instance : Escalate(i)
  <2>1. UNCHANGED <<dep, thr, listening, reserved, route, robbed>>
    BY <1>8 DEF vars, Escalate, net
  <2> QED
    BY <2>1
    DEF Before, Reach, Reached, Normal, Failing, Drives, OnItsWay, Secured
<1> QED
  BY <1>2, <1>3, <1>4, <1>5, <1>6, <1>7, <1>8 DEF Next, Request

\* Whatever crashes, restarts, stops and redeploys there are: while a deployment is live
\* with its process running, and no fail() is cleaning it up, its gateway listens and
\* forwards, the proxy routes to it, and both its ports are reserved.  But for the robbed:
\* ports and route are the project's, and an older deployment of it that ends or goes on
\* late takes them from the one that is live.
THEOREM EngineLiveIsReachable == Spec => []LiveIsReachable
<1>1. IInv /\ PInv /\ Reach /\ [Next]_vars => IInv' /\ PInv' /\ Reach'
  BY NextIsGood, NextKillsStay, NextKeeps, RobbedStay, NextReaches DEF Before, Kept
<1>2. Init => IInv /\ PInv /\ Reach
  BY InitIsGood, InitIsInStep, InitReaches
<1>3. IInv /\ PInv /\ Reach => LiveIsReachable
  <2> SUFFICES ASSUME IInv, PInv, Reach, NEW d \in Deployment \ robbed, dep[d].state = "LIVE",
                      ~Failing(d)
               PROVE  /\ dep[d].gateway \in listening
                      /\ dep[d].available
                      /\ route = d
                      /\ reserved = {"share", "app"}
    BY DEF LiveIsReachable
  <2>1. Normal(d)
    BY DEF Normal, IsTerminal, Terminal, IInv, RecordsOK, Sane
  <2> QED
    BY <2>1 DEF Reach, Reached, Secured, IInv, NetOK
<1> QED
  BY <1>1, <1>2, <1>3, PTL DEF Spec
=============================================================================
