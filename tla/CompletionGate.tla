--------------------------- MODULE CompletionGate ---------------------------
(***************************************************************************)
(* The router and the completion gate over the same PHASES.md.             *)
(*                                                                         *)
(* Planners and workers write a document line by line.  When only          *)
(* verification is left and the evidence covers it, the router of          *)
(* lazy-state.py sends the feature to __mark_complete__, whose gate in     *)
(* lazy_core/pseudo.py ticks the verified rows, lists the deferred ones in *)
(* RUNTIME_GATES.md, and flips the phases or refuses.  Every document of   *)
(* up to MaxLines lines is built here, so the scanners of PhasesDoc meet   *)
(* each header in each place.                                              *)
(***************************************************************************)
EXTENDS PhasesDoc

CONSTANTS
  Lines,       \* the lines documents are made of
  MaxLines,    \* bound
  MaxTests     \* bound on pass_count

ASSUME CompletionGateAssumption ==
  Lines \subseteq Line /\ MaxLines \in Nat /\ MaxTests \in Nat

VARIABLES
  doc,         \* PHASES.md
  passed,      \* pass_count of fresh, passing results; 0 without results
  structural,  \* SKIP_MCP_TEST.md is a structural grant
  ledger,      \* the rows RUNTIME_GATES.md lists
  pc           \* "writing", "sent", "refused" or "completed"

vars == <<doc, passed, structural, ledger, pc>>

Init ==
  /\ doc = <<>>
  /\ structural \in BOOLEAN
  /\ passed \in IF structural THEN {0} ELSE 0 .. MaxTests
  /\ ledger = {} /\ pc = "writing"

Write(l) ==
  /\ pc = "writing" /\ Len(doc) < MaxLines
  /\ l.section = "status" =>          \* where the template puts it
       doc = <<>> \/ Len(doc) \in PhaseStarts(doc)
  /\ PhaseStarts(doc) # {} \/ l.is = "phase" \/ l.section = "status"
  /\ doc' = Append(doc, l)
  /\ UNCHANGED <<passed, structural, ledger, pc>>

\* Mutant: as in the cloud, the rows that are left are not looked at.
ImplementationAssumed == TRUE

\* Step 7 with no open plan, on a workstation.
ImplementationDone ==
  Unchecked(doc) > 0 => remaining_unchecked_are_verification_only(doc)

\* Mutant: the shim rows are not seen, as before they were collected.
CoveredButShim ==
  LET c == collect_uncovered(doc)
      canonical == c.rows \ c.shim
  IN  structural \/ canonical \ c.host = {} \/ Cardinality(canonical) <= passed

\* Step 10: no re-route to /mcp-test.
Covered == structural \/ ~uncovered_verification_rows_remain(doc, passed)

Send ==
  /\ pc \in {"writing", "refused"}
  /\ PhaseStarts(doc) # {}
  /\ ImplementationDone /\ Covered
  /\ pc' = "sent"
  /\ UNCHANGED <<doc, passed, structural, ledger>>

\* Evidence: the structural skip comes without test results.
AfterTicks ==
  IF structural THEN doc ELSE autotick_verification_rows(doc, passed)

Deferred == IF structural THEN enumerate_deferred_verification_rows(doc) ELSE {}

Plan == phase_completion_plan(AfterTicks, Deferred # {})

\* Ticks and ledger are written before the gate knows whether it refuses.
Refuse ==
  /\ pc = "sent" /\ Plan.refused # {}
  /\ doc' = AfterTicks
  /\ ledger' = IF Deferred = {} THEN ledger ELSE Deferred
  /\ pc' = "refused"
  /\ UNCHANGED <<passed, structural>>

\* Mutant: the deferred rows are exempt but listed nowhere.
CompleteUnlisted ==
  /\ pc = "sent" /\ Plan.refused = {}
  /\ doc' = FlipTop(FlipPhases(AfterTicks, Plan.flip), "Complete")
  /\ pc' = "completed"
  /\ UNCHANGED <<passed, structural, ledger>>

Complete ==
  /\ pc = "sent" /\ Plan.refused = {}
  /\ doc' = FlipTop(FlipPhases(AfterTicks, Plan.flip), "Complete")
  /\ ledger' = IF Deferred = {} THEN ledger ELSE Deferred
  /\ pc' = "completed"
  /\ UNCHANGED <<passed, structural>>

Next ==
  \/ \E l \in Lines : Write(l)
  \/ Send \/ Refuse \/ Complete

Spec == Init /\ [][Next]_vars

-----------------------------------------------------------------------------
(* Properties.  The named gaps are the documents on which the scanners are
   known to differ; README section 5 says what happens on each. *)

\* A phase without a checkbox whose status is not terminal: the router sees no
\* work left, the gate sees no signal to flip it on.
EmptyOpenPhase ==
  \E p \in PhaseStarts(doc) :
    /\ LinesOf(doc, p) \cap (OpenRows(doc) \cup DoneRows(doc)) = {}
    /\ parse_phases(doc)[p].status \notin {"none", "Complete", "Superseded"}

\* A verification row for another host: never re-routed, and owed here.
HostRow == collect_uncovered(doc).host # {}

\* A verification row that was dropped: the tick counts it, the router does not.
DroppedCheck == \E i \in Tickable(doc) : i \notin collect_uncovered(doc).rows

\* A row that the scanners of lines take for one of a Superseded phase and
\* parse_phases does not: the status is "Superseded by ..", or the phase has no
\* number and stands below a Superseded one.
SupersededInWord ==
  \E p \in PhaseStarts(doc) : \E i \in LinesOf(doc, p) \cap OpenRows(doc) :
    /\ ScopeAt(EnterRouter, doc, i).superseded
    /\ parse_phases(doc)[p].status # "Superseded"

\* A dropped verification row: the exemption takes it off its phase's count
\* once as dropped and once as verification, and so another row with it.
DoubleDiscount ==
  Scan(EnterParse, LAMBDA s, l : (l.descoped \/ s.descoped) /\ (l.verification \/ s.verification),
       doc) # {}

\* A verification row without the marker, where no /mcp-test can run.
UnmarkedCheck == structural /\ collect_uncovered(doc).shim # {}

\* A verification row without the blank in its box: the router reads it, the
\* tick and the scan for uncovered rows do not.
TightCheck ==
  Scan(EnterRouter, LAMBDA s, l : ~Spaced(l) /\ (l.verification \/ s.verification \/ s.shim),
       doc) # {}

\* A Superseded phase with the heading of another one: it is flipped with it.
SupersededTwin ==
  \E p, q \in PhaseStarts(doc) :
    doc[p] = doc[q] /\ parse_phases(doc)[p].status # "Superseded"
      /\ parse_phases(doc)[q].status = "Superseded"

\* The document has a status line of its own, ahead of its phases.
HasTopStatus == \E i \in TopStatus(doc) : \A q \in PhaseStarts(doc) : i < q

\* What the router sends the gate accepts, but for the six gaps.  Otherwise
\* the next probe sends the same document again and the pipeline turns on the
\* spot: the loop uncovered_verification_rows_remain was written to end.
RouterAgreesWithGate ==
  pc = "refused" => EmptyOpenPhase \/ HostRow \/ DroppedCheck \/ UnmarkedCheck
                      \/ SupersededInWord \/ TightCheck

\* A document that is completed owes nothing: each row still open is dropped,
\* in a Superseded phase, or in RUNTIME_GATES.md, its only owner.  Only under a
\* structural skip may the gate discount a row for another one, and only a twin
\* makes it wake a Superseded phase.
NothingOwed ==
  [][pc' = "completed" /\ HasTopStatus' /\ ~SupersededTwin
       /\ ~(structural /\ (DoubleDiscount \/ SupersededInWord)) =>
       OpenRows(doc') = ledger' \cup
         Scan(EnterRouter, LAMBDA s, l : s.superseded \/ s.descoped \/ l.descoped, doc')]_vars

\* The auto-tick of __mark_complete__ never ticks a deliverable that is owed,
\* although its section scope is not the router's.
TicksNoDeliverable ==
  [][\A i \in OpenRows(doc) \cap DOMAIN doc' :
       DoneRow(doc'[i]) =>
         i \in Scan(EnterRouter, LAMBDA s, l :
                  \/ ~s.superseded /\ (l.verification \/ s.verification \/ s.shim)
                  \/ l.descoped \/ s.descoped, doc)]_vars

\* Completion makes PHASES.md coherent, "every phase Complete/Superseded with no
\* unchecked boxes" (pseudo.py 1240-1244): it would pass the gate again.
Coherent == phase_completion_plan(doc, ledger # {}).refused = {}

\* That holds of a document that has a top-level status line to flip, and no
\* Superseded phase that a twin wakes.
CoherentWithTopStatus ==
  [][pc' = "completed" /\ HasTopStatus' /\ ~SupersededTwin => Coherent']_vars

\* The flips "rewrite ONLY the first **Status:** line inside each to-be-flipped
\* phase's section" (pseudo.py 1327-1329), and the top one.
FlipsPlannedOnly ==
  [][pc' = "completed" =>
       \A i \in DOMAIN doc : doc'[i] # AfterTicks[i] =>
         i \in TopStatus(doc) \/ \E p \in Plan.flip : i \in FirstOf(doc, p, "status")]_vars
=============================================================================
