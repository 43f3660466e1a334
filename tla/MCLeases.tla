----------------------------- MODULE MCLeases ------------------------------
(* Small instances of Leases for TLC. *)
EXTENDS Leases, TLC

\* Workers, items and slots are interchangeable: no definition compares one of
\* them with a particular one.
Symmetry ==
  Permutations(Worker) \cup Permutations(Item) \cup Permutations(Slot)
=============================================================================
