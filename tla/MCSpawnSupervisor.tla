------------------------- MODULE MCSpawnSupervisor -------------------------
(***************************************************************************)
(* Small instances of SpawnSupervisor.                                     *)
(***************************************************************************)
EXTENDS SpawnSupervisor, TLC

\* Calls of one tool are interchangeable.
SpawnSymmetry == Permutations(Starts) \cup Permutations(Shutdowns)
=============================================================================
