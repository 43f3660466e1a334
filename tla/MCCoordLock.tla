---------------------------- MODULE MCCoordLock ----------------------------
(* Small instances of CoordLock for TLC. *)
EXTENDS CoordLock, TLC

\* Processes are interchangeable (for the runs without liveness).
Symmetry == Permutations(Proc)
=============================================================================
