-------------------------- MODULE DeploymentStates --------------------------
(***************************************************************************)
(* The deployment state machine of packages/core/src/state.ts: the sixteen *)
(* states and the transition table every change of status is checked       *)
(* against.  A pure module: the engine's model and the row model use it.   *)
(***************************************************************************)
EXTENDS Naturals, Sequences

\* The forward path of a deployment, in order.
PIPELINE == <<"CREATED", "DISCOVERING", "RESOLVING", "PREPARING", "INSTALLING",
              "BUILDING", "ALLOCATING", "STARTING", "HEALTH_CHECKING",
              "REGISTERING", "EXPOSING", "LIVE">>

Stage(i) == PIPELINE[i]

DeploymentState == {Stage(i) : i \in DOMAIN PIPELINE}
                     \cup {"RESTARTING", "STOPPING", "STOPPED", "FAILED"}

Terminal == {"STOPPED", "FAILED"}

\* The hard gate: no stage before it may jump past it.
HealthGate == CHOOSE i \in DOMAIN PIPELINE : Stage(i) = "HEALTH_CHECKING"

\* Stages may be skipped, except the gate.
Forward ==
  UNION {{<<Stage(i), Stage(j)>> :
            j \in {k \in DOMAIN PIPELINE : i < k /\ (i < HealthGate => k <= HealthGate)}} :
         i \in DOMAIN PIPELINE}

\* Any state that is not terminal can fail or be stopped.
Interrupted == (DeploymentState \ Terminal) \X {"FAILED", "STOPPING"}

Transitions == Forward \cup Interrupted \cup
  { <<"LIVE", "RESTARTING">>, <<"FAILED", "RESTARTING">>,
    <<"STOPPED", "RESTARTING">>, <<"RESTARTING", "STARTING">>,
    <<"RESTARTING", "FAILED">>, <<"STOPPING", "STOPPED">>,
    <<"STOPPED", "CREATED">>, <<"FAILED", "CREATED">>, <<"FAILED", "STOPPED">> }

CanTransition(from, to) == <<from, to>> \in Transitions
IsTerminal(s) == s \in Terminal
=============================================================================
