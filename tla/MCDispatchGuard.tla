-------------------------- MODULE MCDispatchGuard ---------------------------
(* Instances of DispatchGuard for TLC. *)
EXTENDS DispatchGuard, TLC

MCSymmetry == Permutations(Call)
=============================================================================
