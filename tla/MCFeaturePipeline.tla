-------------------------- MODULE MCFeaturePipeline --------------------------
(* Documents and environments for TLC. *)
EXTENDS FeaturePipeline

Shim == <<StatusLine("In-progress"), PhaseLine("1"), StatusLine("In-progress"),
          Row, Bold("verification"), Row>>

Two == <<StatusLine("In-progress"), PhaseLine("1"), Row,
         PhaseLine("2"), StatusLine("In-progress"), Marked(Row)>>

Plain == <<PhaseLine("1"), StatusLine("In-progress"), Row>>

AllDocs == {Shim, Two, Plain}

Base == [bug |-> FALSE, host |-> "workstation", surface |-> TRUE, notRequired |-> FALSE,
         spike |-> FALSE, park |-> FALSE, capability |-> "none", retro |-> 1,
         left |-> {}]

BugEnvs == {[Base EXCEPT !.host = "cloud", !.capability = "absent"],
            [Base EXCEPT !.left = {"FIX_LANDED"}, !.park = TRUE],
            [Base EXCEPT !.surface = FALSE, !.notRequired = TRUE, !.spike = TRUE]}

Envs == {[Base EXCEPT !.host = "cloud"],
         [Base EXCEPT !.park = TRUE, !.host = "device", !.left = {"DEFERRED"}],
         [Base EXCEPT !.surface = FALSE, !.notRequired = TRUE, !.left = {"STALE_UPSTREAM"}],
         [Base EXCEPT !.spike = TRUE, !.capability = "present",
                      !.left = {"REALIGN_DUE", "RETRO_DONE"}],
         [Base EXCEPT !.capability = "absent"], [Base EXCEPT !.capability = "unknown"],
         [Base EXCEPT !.left = {"GATE_DUE"}]}
          \cup {[e EXCEPT !.bug = TRUE] : e \in BugEnvs}
=============================================================================
