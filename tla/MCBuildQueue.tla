---------------------------- MODULE MCBuildQueue ----------------------------
(* Small instances of BuildQueue for TLC. *)
EXTENDS BuildQueue, TLC

\* Clients of one lane are interchangeable (for the runs without liveness).
Symmetry == Permutations(Fast) \cup Permutations(Heavy)
=============================================================================
