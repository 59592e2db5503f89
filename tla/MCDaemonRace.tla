---------------------------- MODULE MCDaemonRace ----------------------------
(***************************************************************************)
(* An instance of DaemonRace for TLC.                                      *)
(***************************************************************************)
EXTENDS DaemonRace, TLC

\* Processes and commands have no identity of their own.
Symmetry == Permutations(Daemon) \cup Permutations(Cli)
=============================================================================
