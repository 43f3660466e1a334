-------------------------- MODULE MCCompletionGate --------------------------
(* Lines for TLC. *)
EXTENDS CompletionGate

AllLines ==
  {PhaseLine("1"), NamedPhase, StatusLine("In-progress"), StatusLine("Superseded"),
   StatusLine("Superseded by"), StatusLine("Complete"),
   Bold("verification"), Marked(Bold("verification")), Bold("deliverables"),
   Bold("other"), Descoped(Bold("other")), Heading("other"), NeedsHost(Bold("verification")),
   Row, Marked(Row), Descoped(Row), Marked(Descoped(Row)), NeedsHost(Marked(Row)), Ticked(Row), Marked(Tight(Row))}
=============================================================================
