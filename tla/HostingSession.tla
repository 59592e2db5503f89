--------------------------- MODULE HostingSession ---------------------------
(***************************************************************************)
(* One `rynk`: up() of packages/cli/src/run.ts from the popup to the exit, *)
(* between the user, the popup's window, and the daemon, whose events come *)
(* over a socket and whose answers over requests of their own; or, as the  *)
(* mode "waiting", a program whose Rynk.host() sends one request that the  *)
(* daemon answers when the deployment has settled.  The deployment is      *)
(* abstracted to what they can tell apart.                                 *)
(***************************************************************************)
EXTENDS Naturals, Sequences

CONSTANTS MaxRestarts  \* bound: restarts of a live deployment

ASSUME SessionBounds == MaxRestarts \in Nat

VARIABLES
  mode,        \* "foreground", "detached" or "waiting"
  existing,    \* the project is hosted already
  dep,         \* the deployment: "none", "starting", "live", "restarting", "failed", "stopped", "gone"
  restarts,
  stoppedBy,   \* history: who stopped it
  subscribed,  \* the daemon sends its events to this CLI
  events,      \* sent and not yet handled
  pc,          \* where up() or attachExisting() is
  reply,       \* the request it awaits: "none", "asked", or what was answered
  fetch,       \* the same for the request that "deployment.completed" makes
  live, outcome, stopped,  \* up()'s flag and its two promises
  stopping,    \* stopHosting()
  ctrlC,       \* the handlers of SIGINT: "none", "once", "ours"
  interrupted,
  ignored,     \* history: its end was handled and made no difference, or it was live before the wait
  asked,       \* history: the user pressed Ctrl+C or Stop Hosting
  signalled,   \* history: SIGTERM, the hangup of its terminal or a kill came to it
  lapsed,      \* history: a request failed, or its lease was not taken in time, by a daemon that lives
  window,      \* what the popup shows: "none", "opening", "form", "config", ..., "gone"
  messages,    \* from the window, not yet handled
  open,        \* popup.isOpen of a window
  exit         \* "none", or how the process has ended

daemon == <<dep, restarts, stoppedBy, subscribed>>
rynk == <<pc, reply, fetch, live, outcome, stopped, stopping, ctrlC, interrupted, ignored, exit>>
popup == <<window, messages, open>>
causes == <<asked, signalled, lapsed>>
sessionVars == <<mode, existing, daemon, events, rynk, causes, popup>>

Over == {"failed", "stopped", "gone"}

SessionInit ==
  /\ mode \in {"foreground", "detached", "waiting"} /\ existing \in BOOLEAN
  /\ dep \in (IF existing THEN {"starting", "live"} ELSE {"none"})
  /\ restarts = 0 /\ stoppedBy = "none" /\ subscribed = FALSE /\ events = <<>>
  /\ window \in (IF mode = "waiting" THEN {"none"} ELSE {"none", "opening"}) /\ messages = <<>> /\ open = FALSE
  /\ pc = (IF window = "none" THEN "deploying" ELSE "opening")
  /\ reply = "none" /\ fetch = "none" /\ live = FALSE /\ outcome = "none" /\ stopped = FALSE
  /\ stopping = "no" /\ ctrlC = "none" /\ interrupted = FALSE /\ ignored = FALSE
  /\ asked = FALSE /\ signalled = FALSE /\ lapsed = FALSE /\ exit = "none"

-----------------------------------------------------------------------------
(* The daemon.                                                             *)

Emit(e) == events' = IF subscribed THEN Append(events, e) ELSE events

Becomes(from, to, e) ==
  /\ dep \in from /\ dep' = to /\ Emit(e)
  /\ UNCHANGED <<mode, existing, subscribed, rynk, asked, signalled, popup>>

GoesLive ==
  Becomes({"starting", "restarting"}, "live", "completed") /\ UNCHANGED <<restarts, stoppedBy, lapsed>>

Fails ==
  Becomes({"starting", "live", "restarting"}, "failed", "failed") /\ UNCHANGED <<restarts, stoppedBy, lapsed>>

\* A crash, or a restart another client or the window asked for.
Restarts ==
  /\ restarts < MaxRestarts /\ restarts' = restarts + 1
  /\ Becomes({"live"}, "restarting", "restarting") /\ UNCHANGED <<stoppedBy, lapsed>>

StoppedBy(who) ==
  Becomes({"starting", "live", "restarting"}, "stopped", "stopped")
    /\ stoppedBy' = who /\ UNCHANGED restarts

\* `rynk stop` from elsewhere.
StoppedByOther == StoppedBy("other") /\ UNCHANGED lapsed

\* The request of stopHosting() arrives, if only after its CLI.
StopArrives == stopping = "asked" /\ StoppedBy("cli") /\ UNCHANGED lapsed

\* The socket that holds the lease of a foreground deployment: until its CLI closes it or ends.
Leased == subscribed /\ exit = "none"

\* 1.5 s without it, or 20 s if it was never taken.
LeaseEnds ==
  /\ mode = "foreground" /\ ~existing /\ ~Leased
  /\ StoppedBy("cli") /\ lapsed' = (lapsed \/ exit = "none")

\* The daemon dies: its sockets close and its requests fail.
DaemonDies ==
  /\ dep \notin {"none", "gone"} /\ dep' = "gone"
  /\ events' = IF subscribed THEN Append(events, "closed") ELSE events
  /\ UNCHANGED <<mode, existing, restarts, stoppedBy, subscribed, rynk, causes, popup>>

\* GET of a deployment, answered at once with its state.
Answers ==
  /\ reply' = IF reply = "asked" THEN dep ELSE reply
  /\ fetch' = IF fetch = "asked" THEN dep ELSE fetch
  /\ <<reply, fetch>> # <<reply', fetch'>>
  /\ UNCHANGED <<mode, existing, daemon, events, pc, live, outcome, stopped, stopping, ctrlC,
                 interrupted, ignored, exit, causes, popup>>

\* It runs into its timeout of 15 s or an error, from a daemon that lives.
NoAnswer ==
  /\ dep # "gone" /\ lapsed' = TRUE
  /\ \/ reply = "asked" /\ reply' = "lost" /\ UNCHANGED fetch
     \/ fetch = "asked" /\ fetch' = "lost" /\ UNCHANGED reply
  /\ UNCHANGED <<mode, existing, daemon, events, pc, live, outcome, stopped, stopping, ctrlC,
                 interrupted, ignored, exit, asked, signalled, popup>>

-----------------------------------------------------------------------------
(* The process.                                                            *)

Running == exit = "none"
Exits(how) == exit' = how
\* The first to resolve a promise wins.
Resolves(o) == outcome' = IF outcome = "none" THEN o ELSE outcome

\* openPopup(): a window, the form in the terminal, or neither.
OpenPopup(w) ==
  /\ Running /\ pc = "opening"
  /\ window' = w /\ open' = (w = "config")
  /\ IF w = "none" THEN pc' = "deploying" /\ UNCHANGED ctrlC
     ELSE pc' = "choosing" /\ ctrlC' = "once"
  /\ UNCHANGED <<mode, existing, daemon, events, reply, fetch, live, outcome, stopped, stopping,
                 interrupted, ignored, exit, causes, messages>>

\* What the user does with the window; it says so, and may be gone when that is read.
Shown == window \in {"config", "progress", "live", "failed", "stopped"}

PressStart ==
  /\ window \in {"config", "form"}
  /\ messages' = Append(messages, "start")
  /\ window' = IF window = "form" THEN "none" ELSE "progress"
  /\ UNCHANGED <<mode, existing, daemon, events, rynk, causes, open>>

\* Cancel, Escape and the window's own button; the end of its process follows.
CloseWindow ==
  /\ Shown \/ window = "form"
  /\ messages' = messages \o (IF window = "form" THEN <<"cancel">>
                              ELSE <<IF window = "config" THEN "cancel" ELSE "closed", "exited">>)
  /\ window' = "gone"
  /\ UNCHANGED <<mode, existing, daemon, events, rynk, causes, open>>

PressStop ==
  /\ window = "live" /\ ~asked
  /\ messages' = Append(messages, "stop") /\ asked' = TRUE
  /\ UNCHANGED <<mode, existing, daemon, events, rynk, signalled, lapsed, window, open>>

\* The promise of the choice: start, cancel, or the window's process at its end.
Chooses(m) ==
  /\ pc = "choosing"
  /\ IF m = "start" THEN pc' = "deploying" /\ UNCHANGED <<exit, window>>
     ELSE IF m \in {"cancel", "exited"} THEN Exits("cancelled") /\ window' = "gone" /\ UNCHANGED pc
     ELSE UNCHANGED <<pc, exit, window>>
  /\ UNCHANGED stopping

Listening == pc \in {"waiting", "hosting", "leaving"}

\* Mutant of Acts: a window that closes ends a foreground session too.
ActsAlike(m) ==
  /\ Listening
  /\ IF m = "stop" THEN stopping' = (IF stopping = "no" THEN "asked" ELSE stopping) /\ UNCHANGED exit
     ELSE IF m \in {"closed", "exited"} THEN Exits("ok") /\ UNCHANGED stopping
     ELSE UNCHANGED <<stopping, exit>>
  /\ UNCHANGED <<pc, window>>

\* The listener up() registers once it follows the deployment.
Acts(m) ==
  /\ Listening
  /\ IF m = "stop" THEN stopping' = (IF stopping = "no" THEN "asked" ELSE stopping) /\ UNCHANGED exit
     ELSE IF m \in {"closed", "exited"} /\ mode = "detached" THEN Exits("ok") /\ UNCHANGED stopping
     ELSE UNCHANGED <<stopping, exit>>
  /\ UNCHANGED <<pc, window>>

\* In between nobody listens.
Unheard == pc # "choosing" /\ ~Listening /\ UNCHANGED <<pc, exit, window, stopping>>

WindowSays ==
  /\ Running /\ messages # <<>>
  /\ messages' = Tail(messages)
  /\ open' = (open /\ Head(messages) # "exited")
  /\ Chooses(Head(messages)) \/ Acts(Head(messages)) \/ Unheard
  /\ UNCHANGED <<mode, existing, daemon, events, reply, fetch, live, outcome, stopped, ctrlC,
                 interrupted, ignored, causes>>

\* engine.deploy(): the deployment that exists, or a new one.
Deploys ==
  /\ Running /\ pc = "deploying" /\ dep # "gone"
  /\ existing' = (dep \in {"starting", "live", "restarting"})
  /\ IF existing' THEN UNCHANGED <<dep, stoppedBy>> ELSE dep' = "starting" /\ stoppedBy' = "none"

\* up()'s request, answered at once.
Deploy ==
  /\ mode # "waiting" /\ Deploys
  /\ IF existing'
     THEN /\ pc' = "settling" /\ reply' = "asked"
          /\ window' = IF window = "none" THEN "none" ELSE "gone"
          /\ open' = FALSE
     ELSE pc' = "subscribing" /\ UNCHANGED <<reply, window, open>>
  /\ UNCHANGED <<mode, restarts, subscribed, events, fetch, live, outcome, stopped, stopping, ctrlC,
                 interrupted, ignored, exit, causes, messages>>

\* It fails, before the daemon has deployed or after: up() throws.
DeployFails ==
  /\ mode # "waiting" /\ Running /\ pc = "deploying" /\ dep # "gone"
  /\ Deploys \/ UNCHANGED <<existing, dep, stoppedBy>>
  /\ Exits("error") /\ lapsed' = TRUE
  /\ UNCHANGED <<mode, restarts, subscribed, events, pc, reply, fetch, live, outcome, stopped, stopping,
                 ctrlC, interrupted, ignored, asked, signalled, popup>>

\* POST /api/deployments with "wait": once() waits for what comes after this.
DeployAndWait ==
  /\ mode = "waiting" /\ Deploys
  /\ pc' = "awaiting" /\ subscribed' = TRUE /\ ignored' = (dep = "live")
  /\ UNCHANGED <<mode, restarts, events, reply, fetch, live, outcome, stopped, stopping, ctrlC,
                 interrupted, exit, causes, popup>>

\* The first event of the three decides; the client's own timeout of 15 minutes is left out.
WaitEnds ==
  /\ Running /\ pc = "awaiting" /\ events # <<>>
  /\ events' = Tail(events)
  /\ exit' = CASE Head(events) = "completed" -> "ok"
               [] Head(events) = "restarting" -> exit
               [] OTHER -> "error"
  /\ UNCHANGED <<mode, existing, daemon, pc, reply, fetch, live, outcome, stopped, stopping, ctrlC,
                 interrupted, ignored, causes, popup>>

\* The socket is open.  up() and waitUntilSettled() ask for the state once more.
Subscribe ==
  /\ Running /\ pc \in {"subscribing", "resettling", "following"} /\ ~subscribed /\ dep # "gone"
  /\ subscribed' = TRUE
  /\ IF pc = "subscribing" THEN pc' = "checking" ELSE UNCHANGED pc
  /\ reply' = IF pc = "following" THEN "none" ELSE "asked"
  /\ UNCHANGED <<mode, existing, dep, restarts, stoppedBy, events, fetch, live, outcome, stopped,
                 stopping, ctrlC, interrupted, ignored, exit, causes, popup>>

\* Requests to a daemon that is gone throw; none of attachExisting() that fails is caught.
Unreachable ==
  /\ Running
  /\ \/ pc \in {"deploying", "subscribing", "resettling", "following"} /\ ~subscribed /\ dep = "gone"
     \/ pc \in {"settling", "resettling", "reading"} /\ reply \in {"gone", "lost"}
  /\ Exits("error")
  /\ UNCHANGED <<mode, existing, daemon, events, pc, reply, fetch, live, outcome, stopped, stopping,
                 ctrlC, interrupted, ignored, causes, popup>>

-----------------------------------------------------------------------------
(* up() of a deployment of its own.                                        *)

\* Mutant of Check: a deployment that has failed by now is left to its event.
CheckLive ==
  /\ Running /\ pc = "checking" /\ reply \notin {"none", "asked"}
  /\ pc' = "waiting" /\ reply' = "none" /\ ctrlC' = "ours"
  /\ IF reply = "live" THEN live' = TRUE /\ Resolves("ok") ELSE UNCHANGED <<live, outcome>>
  /\ ignored' = (ignored \/ reply \in {"stopped", "lost"})
  /\ UNCHANGED <<mode, existing, daemon, events, fetch, stopped, stopping, interrupted, exit, causes,
                 popup>>

\* The state found after the subscription, if it was; the listeners follow.
Check ==
  /\ Running /\ pc = "checking" /\ reply \notin {"none", "asked"}
  /\ pc' = "waiting" /\ reply' = "none" /\ ctrlC' = "ours"
  /\ IF reply = "live" THEN live' = TRUE /\ Resolves("ok")
     ELSE UNCHANGED live /\ IF reply = "failed" THEN Resolves("error") ELSE UNCHANGED outcome
  /\ ignored' = (ignored \/ reply \in {"stopped", "lost"})
  /\ UNCHANGED <<mode, existing, daemon, events, fetch, stopped, stopping, interrupted, exit, causes,
                 popup>>

\* onEvent() and onClose(), for each event in turn.
OnCompleted ==
  IF live THEN UNCHANGED <<live, fetch, outcome, stopped, ignored, window>>
  ELSE live' = TRUE /\ fetch' = "asked" /\ UNCHANGED <<outcome, stopped, ignored, window>>

OnFailed ==
  /\ UNCHANGED <<live, fetch, ignored>>
  /\ IF live THEN /\ stopped' = TRUE /\ UNCHANGED outcome
                  /\ window' = IF Shown THEN "failed" ELSE window
     ELSE Resolves("error") /\ UNCHANGED <<stopped, window>>

OnStopped ==
  /\ UNCHANGED <<live, fetch, outcome, window>>
  /\ stopped' = (stopped \/ live) /\ ignored' = (ignored \/ ~live)

OnClosed ==
  /\ Resolves("error") /\ stopped' = TRUE
  /\ UNCHANGED <<live, fetch, ignored, window>>

OnEvent ==
  /\ Running /\ pc \in {"checking", "waiting", "hosting"} /\ events # <<>>
  /\ events' = Tail(events)
  /\ CASE Head(events) = "completed" -> OnCompleted
       [] Head(events) = "failed" -> OnFailed
       [] Head(events) = "stopped" -> OnStopped
       [] Head(events) = "closed" -> OnClosed
       [] OTHER -> UNCHANGED <<live, fetch, outcome, stopped, ignored, window>>
  /\ UNCHANGED <<mode, existing, daemon, pc, reply, stopping, ctrlC, interrupted, exit, causes,
                 messages, open>>

\* The snapshot asked for by the first "deployment.completed": without it the host has failed.
Fetched ==
  /\ Running /\ fetch \notin {"none", "asked"}
  /\ fetch' = "none" /\ Resolves(IF fetch \in {"gone", "lost"} THEN "error" ELSE "ok")
  /\ UNCHANGED <<mode, existing, daemon, events, pc, reply, live, stopped, stopping, ctrlC,
                 interrupted, ignored, exit, causes, popup>>

\* The outcome is known.  A failure closes the socket and waits for the user to close the window.
Announce ==
  /\ Running /\ pc = "waiting" /\ outcome # "none"
  /\ IF outcome = "ok"
     THEN /\ pc' = "hosting" /\ window' = (IF Shown THEN "live" ELSE window)
          /\ IF mode = "detached" /\ ~open THEN Exits("ok") ELSE UNCHANGED exit
          /\ UNCHANGED subscribed
     ELSE /\ pc' = "leaving" /\ window' = (IF Shown THEN "failed" ELSE window)
          /\ subscribed' = FALSE /\ UNCHANGED exit
  /\ UNCHANGED <<mode, existing, dep, restarts, stoppedBy, events, reply, fetch, live, outcome,
                 stopped, stopping, ctrlC, interrupted, ignored, causes, messages, open>>

\* After the window has closed, or without one.
LeaveHosting ==
  /\ Running /\ pc = "leaving" /\ ~open
  /\ Exits("error")
  /\ UNCHANGED <<mode, existing, daemon, events, pc, reply, fetch, live, outcome, stopped, stopping,
                 ctrlC, interrupted, ignored, causes, popup>>

Finish ==
  /\ Running /\ pc = "hosting" /\ stopped
  /\ Exits("ok") /\ window' = (IF Shown THEN "stopped" ELSE window)
  /\ UNCHANGED <<mode, existing, daemon, events, pc, reply, fetch, live, outcome, stopped, stopping,
                 ctrlC, interrupted, ignored, causes, messages, open>>

\* stopHosting() goes on once its request is answered, ...
StopAnswered ==
  /\ Running /\ stopping = "asked" /\ dep \in Over
  /\ Exits("ok") /\ window' = "gone" /\ stopping' = "done"
  /\ UNCHANGED <<mode, existing, daemon, events, pc, reply, fetch, live, outcome, stopped, ctrlC,
                 interrupted, ignored, causes, messages, open>>

\* ... or has failed, while the daemon may be stopping yet.
StopUnanswered ==
  /\ Running /\ stopping = "asked"
  /\ Exits("ok") /\ window' = "gone" /\ lapsed' = TRUE
  /\ UNCHANGED <<mode, existing, daemon, events, pc, reply, fetch, live, outcome, stopped, stopping, ctrlC,
                 interrupted, ignored, asked, signalled, messages, open>>

\* onSigint(), for Ctrl+C and SIGTERM.
OnSigint ==
  /\ interrupted' = TRUE /\ UNCHANGED ctrlC
  /\ IF interrupted THEN Exits("killed") /\ UNCHANGED stopping
     ELSE IF mode = "detached" THEN Exits("ok") /\ UNCHANGED stopping
     ELSE stopping' = (IF stopping = "no" THEN "asked" ELSE stopping) /\ UNCHANGED exit

\* Ctrl+C: the popup's own handler, which is not taken back, then none, then up()'s.
Interrupt ==
  /\ Running /\ mode # "waiting" /\ asked' = TRUE
  /\ IF pc = "choosing" \/ ctrlC = "none" \/ (existing /\ ctrlC # "once")
     THEN Exits(IF pc = "choosing" THEN "cancelled" ELSE "killed")
          /\ UNCHANGED <<ctrlC, interrupted, stopping>>
     ELSE IF ctrlC = "once" THEN ctrlC' = "none" /\ UNCHANGED <<exit, interrupted, stopping>>
     ELSE OnSigint
  /\ UNCHANGED <<mode, existing, daemon, events, pc, reply, fetch, live, outcome, stopped, ignored,
                 signalled, lapsed, popup>>

\* SIGTERM where up() handles it; elsewhere, or as a hangup or a kill, the end of the process.
Signalled ==
  /\ Running /\ signalled' = TRUE
  /\ \/ ctrlC = "ours" /\ OnSigint
     \/ Exits("killed") /\ UNCHANGED <<ctrlC, interrupted, stopping>>
  /\ UNCHANGED <<mode, existing, daemon, events, pc, reply, fetch, live, outcome, stopped, ignored,
                 asked, lapsed, popup>>

-----------------------------------------------------------------------------
(* attachExisting() and waitUntilSettled().                                *)

Settled == {"live", "failed", "stopped"}

\* The state at first, and again after the subscription.
Settle ==
  /\ Running /\ pc \in {"settling", "resettling"} /\ reply \notin {"none", "asked", "gone", "lost"}
  /\ IF reply \in Settled
     THEN pc' = "reading" /\ reply' = "asked" /\ subscribed' = FALSE
     ELSE pc' = "resettling" /\ reply' = "none" /\ UNCHANGED subscribed
  /\ UNCHANGED <<mode, existing, dep, restarts, stoppedBy, events, fetch, live, outcome, stopped,
                 stopping, ctrlC, interrupted, ignored, exit, causes, popup>>

SettledByEvent ==
  /\ Running /\ pc = "resettling" /\ events # <<>>
  /\ IF Head(events) = "restarting" THEN events' = Tail(events) /\ UNCHANGED <<pc, reply, subscribed>>
     ELSE pc' = "reading" /\ reply' = "asked" /\ subscribed' = FALSE /\ events' = <<>>
  /\ UNCHANGED <<mode, existing, dep, restarts, stoppedBy, fetch, live, outcome, stopped, stopping,
                 ctrlC, interrupted, ignored, exit, causes, popup>>

\* What it is now; one that is not live is followed, whatever else it is.
Read ==
  /\ Running /\ pc = "reading" /\ reply \notin {"none", "asked", "gone", "lost"}
  /\ reply' = "none" /\ events' = <<>>
  /\ IF reply = "failed" THEN Exits("error") /\ UNCHANGED pc
     ELSE IF reply = "live" /\ mode = "detached" THEN Exits("ok") /\ UNCHANGED pc
     ELSE pc' = "following" /\ UNCHANGED exit
  /\ UNCHANGED <<mode, existing, daemon, fetch, live, outcome, stopped, stopping, ctrlC, interrupted,
                 ignored, causes, popup>>

Follow ==
  /\ Running /\ pc = "following" /\ events # <<>>
  /\ events' = Tail(events)
  /\ exit' = CASE Head(events) = "failed" -> "error"
               [] Head(events) = "closed" \/ (Head(events) = "completed" /\ mode = "detached") -> "ok"
               [] OTHER -> exit
  /\ UNCHANGED <<mode, existing, daemon, pc, reply, fetch, live, outcome, stopped, stopping, ctrlC,
                 interrupted, ignored, causes, popup>>

-----------------------------------------------------------------------------

Program ==
  \/ Answers \/ Deploy \/ DeployAndWait \/ WaitEnds \/ Subscribe \/ Unreachable \/ Check \/ OnEvent \/ Fetched
  \/ Announce \/ LeaveHosting \/ Finish \/ StopArrives \/ StopAnswered \/ WindowSays
  \/ Settle \/ SettledByEvent \/ Read \/ Follow \/ LeaseEnds

SessionNext ==
  \/ GoesLive \/ Fails \/ Restarts \/ StoppedByOther \/ DaemonDies
  \/ \E w \in {"config", "form", "none"} : OpenPopup(w)
  \/ PressStart \/ CloseWindow \/ PressStop \/ Interrupt \/ Signalled
  \/ NoAnswer \/ DeployFails \/ StopUnanswered
  \/ Answers \/ Deploy \/ DeployAndWait \/ WaitEnds \/ Subscribe \/ Unreachable \/ Check \/ OnEvent \/ Fetched
  \/ Announce \/ LeaveHosting \/ Finish \/ StopArrives \/ StopAnswered \/ WindowSays
  \/ Settle \/ SettledByEvent \/ Read \/ Follow \/ LeaseEnds

\* Requests are answered or fail, events and messages delivered and promises resumed; what the
\* user and the application do is up to them.
SessionSpec == SessionInit /\ [][SessionNext]_sessionVars /\ WF_sessionVars(Program)

-----------------------------------------------------------------------------

SessionTypeOK ==
  /\ dep \in {"none", "starting", "live", "restarting", "failed", "stopped", "gone"}
  /\ pc \in {"opening", "choosing", "deploying", "subscribing", "checking", "waiting", "hosting",
             "leaving", "awaiting", "settling", "resettling", "reading", "following"}
  /\ exit \in {"none", "ok", "error", "cancelled", "killed"}
  /\ outcome \in {"none", "ok", "error"} /\ stopping \in {"no", "asked", "done"}

\* rynk_popup.py:7, "Closing it never stops hosting; only "Stop Hosting" does": whatever
\* the window, the sockets and the events do, this CLI and the lease it holds end a
\* deployment only for a user who pressed Stop Hosting or Ctrl+C, or for a signal that ends
\* the process, as when its terminal is closed (run.ts:168).  Excepted, and reachable: a
\* request that fails although the daemon lives.  After the snapshot of a deployment that
\* has just gone live, up() takes it for a failure, closes the lease, and a LIVE deployment
\* stops unasked; after the request to deploy, or 20 s without a lease, it stops likewise.
ClosingNeverStops == stoppedBy = "cli" => asked \/ signalled \/ lapsed

\* `rynk` does not outlive what it hosts, whether the end overtakes the subscription, the
\* re-check or the announcement: it exits, or leaves a window open that shows the failure;
\* and a program that waits is answered when the deployment goes live or ends.  Excepted:
\* a stop `rynk` learns of before it knows the deployment live, which it ignores,
\* a re-check that fails, which it ignores too, attachExisting(), which follows a deployment
\* that has been stopped, and a wait for a deployment that is live already.
EndsWithDeployment ==
  (\/ dep \in Over /\ pc \notin {"opening", "choosing", "deploying"}
   \/ dep = "live" /\ pc = "awaiting") ~>
    (exit # "none" \/ (pc = "leaving" /\ window = "failed") \/ ignored \/ pc = "following")
=============================================================================
