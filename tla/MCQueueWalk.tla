----------------------------- MODULE MCQueueWalk -----------------------------
(* A queue of three for TLC: b waits for c, which is behind it. *)
EXTENDS QueueWalk, TLC

CONSTANTS a, b, c

ABC == <<a, b, c>>
DepsABC == (a :> {}) @@ (b :> {c}) @@ (c :> {})
IndependentC == {c}

Plain == [bugs |-> FALSE, cloud |-> FALSE, device |-> TRUE, park |-> FALSE,
          skipResearch |-> FALSE, strict |-> FALSE, guard |-> FALSE]

AllModes == {[Plain EXCEPT !.guard = TRUE],
             [Plain EXCEPT !.guard = TRUE, !.park = TRUE, !.device = FALSE],
             [Plain EXCEPT !.strict = TRUE, !.cloud = TRUE, !.skipResearch = TRUE],
             [Plain EXCEPT !.bugs = TRUE, !.strict = TRUE, !.device = FALSE],
             [Plain EXCEPT !.bugs = TRUE, !.strict = TRUE, !.park = TRUE]}
=============================================================================
