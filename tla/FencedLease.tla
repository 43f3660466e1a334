---------------------------- MODULE FencedLease ----------------------------
(***************************************************************************)
(* What the lease layer of lazy_coord.py promises about its fencing        *)
(* tokens, with no files, no lock, no clock and no callers.                *)
(*                                                                         *)
(* A work item has a highest token ever granted and at most one token that *)
(* passes verify_fencing.  A grant issues the next number and makes it the *)
(* valid one; any set of items may lose its valid token at any time (the   *)
(* holder released it, or its lease ran out); nothing ever makes an old    *)
(* token valid again.                                                      *)
(***************************************************************************)
EXTENDS Naturals

CONSTANT Item         \* work items, the keys of leases.json

VARIABLES top,        \* top[i]:   highest token granted for i, 0 for none
          valid       \* valid[i]: the token that passes fencing, 0 for none

vars == <<top, valid>>

Init ==
  /\ top   = [i \in Item |-> 0]
  /\ valid = [i \in Item |-> 0]

Without(S) == [i \in Item |-> IF i \in S THEN 0 ELSE valid[i]]

\* The leases of the items in S end.
Revoke(S) ==
  /\ valid' = Without(S)
  /\ UNCHANGED top

\* Item i is granted anew; the leases of the items in S end in the same write.
Grant(i, S) ==
  /\ top'   = [top EXCEPT ![i] = @ + 1]
  /\ valid' = [Without(S) EXCEPT ![i] = top[i] + 1]

Next ==
  \E S \in SUBSET Item :
    \/ Revoke(S)
    \/ \E i \in Item : Grant(i, S)

Spec == Init /\ [][Next]_vars
=============================================================================
