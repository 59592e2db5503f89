------------------------- MODULE MCDeploymentEngine -------------------------
(***************************************************************************)
(* What the repository's comments, docs and tests say of a deployment and  *)
(* the code does not keep.  Each is checked by a run of its own, which     *)
(* finds the schedule that breaks it.                                      *)
(***************************************************************************)
EXTENDS DeploymentEngine

\* docs/runtimes.md:46, "stop the whole process tree": a stopped deployment has no
\* process, or one that was sent SIGKILL.  A stop that arrives between STARTING and
\* adapter.start() finds none.
StoppedMeansNoProcess ==
  \A d \in Deployment : dep[d].state = "STOPPED" => \A i \in alive \ Killed : owner[i] # d

\* daemon.test.ts:240, "failures are explained, never marked LIVE": a deployment
\* is LIVE only with a running process.  An exit while EXPOSING is not noticed.
LiveMeansRunning ==
  \A d \in Deployment : dep[d].state = "LIVE" => dep[d].instance \in alive \/ Busy(d)

\* engine.ts:160, "A live deployment is restarted *in place*", for RESTARTING as
\* well: asking again for a restart does not fail the deployment.
RestartingIsRestarted ==
  [][\A d \in Deployment :
       dep[d].state = "RESTARTING" => dep'[d].state # "FAILED"]_vars
=============================================================================
