-------------------------- MODULE MCPortAllocator --------------------------
(* Instances of PortAllocator for TLC. *)
EXTENDS PortAllocator, TLC

MCProjects == Permutations(Project)
=============================================================================
