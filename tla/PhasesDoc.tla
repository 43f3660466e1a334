------------------------------ MODULE PhasesDoc ------------------------------
(***************************************************************************)
(* A feature's PHASES.md and the scanners that read it.                    *)
(*                                                                         *)
(* The router (lazy-state.py) and the completion gate (lazy_core/pseudo.py)*)
(* decide from the same checkboxes, and each decision has a line scanner   *)
(* of its own in lazy_core/docmodel.py or lazy_core/gates.py.  A scanner   *)
(* carries a scope from line to line; they differ in what a heading does   *)
(* to it.  A document is a sequence of lines; lines inside code fences,    *)
(* which every scanner skips, are left out, and so are lines none reads.   *)
(* Phase headers are at the template's level, "###"; at others the scanners*)
(* differ again.                                                           *)
(***************************************************************************)
EXTENDS Naturals, Sequences, FiniteSets

\* A line: what it is, the section a header names, its markers, its value.
Blank == [is |-> "row", section |-> "none", value |-> "open",
          verification |-> FALSE, descoped |-> FALSE, host |-> FALSE]

PhaseLine(n)  == [Blank EXCEPT !.is = "phase", !.value = n]     \* ### Phase 1: ..,
                                           \* the value is the text of the heading
NamedPhase    == [Blank EXCEPT !.is = "named", !.value = "A"]   \* ### Phase A:
StatusLine(s) == [Blank EXCEPT !.is = "bold", !.section = "status", !.value = s]
KindLine(k)   == [Blank EXCEPT !.is = "bold", !.section = "kind", !.value = k]
Bold(s)       == [Blank EXCEPT !.is = "bold", !.section = s]    \* **Deliverables:**
Heading(s)    == [Blank EXCEPT !.is = "heading", !.section = s] \* #### Deliverables
Row           == Blank
Tight(l)      == [l EXCEPT !.value = "tight"]       \* - [], not - [ ]
Ticked(l)     == [l EXCEPT !.value = "ticked"]
Audited(l)    == [l EXCEPT !.value = "audited"]     \* ticked by the gate
Marked(l)     == [l EXCEPT !.verification = TRUE]   \* <!-- verification-only -->
Descoped(l)   == [l EXCEPT !.descoped = TRUE]       \* <!-- descoped -->
NeedsHost(l)  == [l EXCEPT !.host = TRUE]           \* <!-- requires-host: .. -->

\* Any text; that what workers and the gate write is text is said for the provers.
Text == STRING \cup {"ticked", "audited", "Complete", "Fixed"}

\* The lines of documents: rows and phases name no section, only bold lines
\* state a status or a kind, and neither those nor phases carry a marker.
Line ==
  {l \in [is : {"row", "phase", "named", "bold", "heading"}, section : STRING, value : Text,
          verification : BOOLEAN, descoped : BOOLEAN, host : BOOLEAN] :
     /\ l.is \in {"row", "phase", "named"} => l.section = "none"
     /\ l.section \in {"status", "kind"} => l.is = "bold"
     /\ l.is \in {"phase", "named"} \/ l.section \in {"status", "kind"} =>
          ~l.verification /\ ~l.descoped /\ ~l.host}

OpenRow(l) == l.is = "row" /\ l.value \in {"open", "tight"}
DoneRow(l) == l.is = "row" /\ l.value \in {"ticked", "audited"}

OpenRows(doc) == {i \in DOMAIN doc : OpenRow(doc[i])}
DoneRows(doc) == {i \in DOMAIN doc : DoneRow(doc[i])}

\* count_deliverables: the unchecked ones.
Unchecked(doc) == Cardinality(OpenRows(doc))

NoScope == [superseded |-> FALSE, verification |-> FALSE, shim |-> FALSE,
            descoped |-> FALSE, host |-> FALSE]

\* The scope after line i of doc; what a line does to it is the scanner's.
ScopeAt(enter(_, _), doc, i) ==
  LET after[j \in 0 .. Len(doc)] ==
        IF j = 0 THEN NoScope ELSE enter(after[j - 1], doc[j])
  IN  after[i]

\* The rows of doc that are open and that a scanner takes.
Scan(enter(_, _), takes(_, _), doc) ==
  {i \in OpenRows(doc) : takes(ScopeAt(enter, doc, i), doc[i])}

\* The line scanners look for the word, parse_phases for the whole value:
\* "Superseded by another feature" is Superseded only to the former.
Supersedes(l) ==
  /\ l.is = "bold" /\ l.section = "status"
  /\ l.value \in {"Superseded", "Superseded by"}
PlainBold(l)  == l.is = "bold" /\ ~Supersedes(l)
Names(l, s)   == l.section = s
Titled(l)     == l.section \in {"verification", "deliverables"}

-----------------------------------------------------------------------------
(* The router's scanner: is nothing left but verification? *)

EnterRouter(s, l) ==
  CASE l.is = "phase" -> NoScope
    [] l.is \in {"named", "heading"} ->
         [s EXCEPT !.verification = l.verification, !.descoped = l.descoped,
                   !.shim = Names(l, "verification")]
    [] Supersedes(l) -> [s EXCEPT !.superseded = TRUE]
    [] PlainBold(l) ->
         [s EXCEPT !.descoped = l.descoped \/ (@ /\ ~Titled(l)),
                   !.verification = l.verification \/ (@ /\ ~Titled(l)),
                   !.shim = IF l.verification \/ ~Titled(l) THEN @
                            ELSE Names(l, "verification")]
    [] OTHER -> s

ExemptForRouter(s, l) ==
  \/ s.superseded
  \/ l.descoped \/ s.descoped
  \/ l.verification \/ s.verification
  \/ s.shim

remaining_unchecked_are_verification_only(doc) ==
  /\ OpenRows(doc) # {}
  /\ Scan(EnterRouter, ExemptForRouter, doc) = OpenRows(doc)

\* The advisory of a refusal tells rows under an unmarked verification header
\* from genuine ones; it does not know the descope marker.
EnterAdvisory(s, l) ==
  CASE l.is = "phase" -> NoScope
    [] l.is \in {"named", "heading"} ->
         [s EXCEPT !.verification = l.verification,
                   !.shim = Names(l, "verification")]
    [] Supersedes(l) -> [s EXCEPT !.superseded = TRUE]
    [] PlainBold(l) ->
         [s EXCEPT !.verification = l.verification \/ (@ /\ ~Titled(l)),
                   !.shim = IF l.verification \/ ~Titled(l) THEN @
                            ELSE Names(l, "verification")]
    [] OTHER -> s

Blocking(s, l) == ~s.superseded /\ ~l.verification /\ ~s.verification

classify_blocking_unchecked_rows(doc) ==
  [shim    |-> Scan(EnterAdvisory, LAMBDA s, l : Blocking(s, l) /\ s.shim, doc),
   genuine |-> Scan(EnterAdvisory, LAMBDA s, l : Blocking(s, l) /\ ~s.shim, doc)]

-----------------------------------------------------------------------------
(* The gate's scanners. *)

\* _UNCHECKED_ROW_RE wants the blank in the box; docmodel.py does not.
Spaced(l) == l.value = "open"

\* autotick_verification_rows: a bold header only ever opens a marked section.
EnterAutotick(s, l) ==
  CASE l.is = "phase" -> NoScope
    [] l.is \in {"named", "heading"} -> [s EXCEPT !.verification = l.verification]
    [] Supersedes(l) -> [s EXCEPT !.superseded = TRUE]
    [] PlainBold(l) -> [s EXCEPT !.verification = @ \/ l.verification]
    [] OTHER -> s

MarkedRow(s, l) == ~s.superseded /\ (l.verification \/ s.verification)

Tickable(doc) == Scan(EnterAutotick, LAMBDA s, l : Spaced(l) /\ MarkedRow(s, l), doc)

\* It ticks all of them or, when fewer tests passed, none.
autotick_verification_rows(doc, passed) ==
  IF Cardinality(Tickable(doc)) > passed THEN doc
  ELSE [i \in DOMAIN doc |-> IF i \in Tickable(doc) THEN Audited(doc[i]) ELSE doc[i]]

\* enumerate_deferred_verification_rows: the rows RUNTIME_GATES.md lists.
EnterLedger(s, l) ==
  CASE l.is \in {"phase", "named"} ->
         [s EXCEPT !.superseded = FALSE, !.verification = l.verification]
    [] l.is = "heading" -> [s EXCEPT !.verification = l.verification]
    [] Supersedes(l) -> [s EXCEPT !.superseded = TRUE]
    [] PlainBold(l) ->
         [s EXCEPT !.verification = l.verification
                                      \/ (@ /\ ~Names(l, "deliverables"))]
    [] OTHER -> s

enumerate_deferred_verification_rows(doc) == Scan(EnterLedger, MarkedRow, doc)

\* parse_phases: one record for each phase section.
EnterParse(s, l) ==
  CASE l.is \in {"phase", "named"} -> NoScope
    [] l.is = "heading" ->
         [s EXCEPT !.descoped = l.descoped, !.verification = l.verification]
    [] l.is = "bold" ->
         [s EXCEPT !.descoped = l.descoped \/ (@ /\ ~Titled(l)),
                   !.verification = l.verification \/ (@ /\ ~Titled(l))]
    [] OTHER -> s

PhaseStarts(doc) == {i \in DOMAIN doc : doc[i].is \in {"phase", "named"}}

\* The lines of the phase that starts at line p.
LinesOf(doc, p) ==
  {i \in DOMAIN doc : i > p /\ \A q \in PhaseStarts(doc) : q > p => i < q}

\* The first line of a phase that states its status or its kind, if any.
FirstOf(doc, p, section) ==
  LET hits == {i \in LinesOf(doc, p) : doc[i].is = "bold" /\ Names(doc[i], section)}
  IN  {i \in hits : \A j \in hits : i <= j}

parse_phases(doc) ==
  LET within(p, rows) == rows \cap LinesOf(doc, p)
      value(p, section, default) ==
        IF FirstOf(doc, p, section) = {} THEN default
        ELSE doc[CHOOSE i \in FirstOf(doc, p, section) : TRUE].value
      descoped(s, l) == l.descoped \/ s.descoped
      marked(s, l)   == l.verification \/ s.verification
  IN  [p \in PhaseStarts(doc) |->
        [status       |-> value(p, "status", "none"),
         kind         |-> value(p, "kind", "design"),
         checked      |-> Cardinality(within(p, DoneRows(doc))),
         unchecked    |-> Cardinality(within(p, OpenRows(doc))),
         descoped     |-> Cardinality(within(p, Scan(EnterParse, descoped, doc))),
         verification |-> Cardinality(within(p, Scan(EnterParse, marked, doc)))]]

Monus(a, b) == IF a > b THEN a - b ELSE 0

\* Mutant: verification rows are exempt whether or not a ledger owns them.
EffectiveUncheckedAnyway(ph, exempt) ==
  Monus(ph.unchecked - ph.descoped, ph.verification)

\* The unchecked rows of a phase that count against completion.
EffectiveUnchecked(ph, exempt) ==
  LET kept == ph.unchecked - ph.descoped
  IN  IF exempt THEN Monus(kept, ph.verification) ELSE kept

\* _phase_completion_plan: which phases to flip, and which refuse the receipt.
phase_completion_plan(doc, exempt) ==
  LET phases == parse_phases(doc)
      owed(p) == EffectiveUnchecked(phases[p], exempt)
      flips(p) == /\ phases[p].status \notin {"none", "Complete", "Superseded"}
                  /\ phases[p].checked + phases[p].unchecked > 0
                  /\ owed(p) = 0
      refuses(p) == /\ phases[p].status # "Superseded"
                    /\ \/ owed(p) > 0
                       \/ phases[p].status \notin {"none", "Complete"} /\ ~flips(p)
  IN  [flip    |-> {p \in DOMAIN phases : flips(p)},
       refused |-> {p \in DOMAIN phases : refuses(p)}]

\* The gate's rewrite: the first status line of each phase that has the heading
\* of one to flip.
Namesakes(doc, flip) == {p \in PhaseStarts(doc) : \E f \in flip : doc[p] = doc[f]}

FlipPhases(doc, flip) ==
  LET lines == UNION {FirstOf(doc, p, "status") : p \in Namesakes(doc, flip)}
  IN  [i \in DOMAIN doc |-> IF i \in lines THEN [doc[i] EXCEPT !.value = "Complete"]
                                           ELSE doc[i]]

\* The document's own status line is its first one, wherever that is.  It ends
\* as Complete, a bug's as Fixed.
TopStatus(doc) ==
  LET hits == {i \in DOMAIN doc : doc[i].is = "bold" /\ Names(doc[i], "status")}
  IN  {i \in hits : \A j \in hits : i <= j}

FlipTop(doc, status) ==
  [i \in DOMAIN doc |-> IF i \in TopStatus(doc)
                          THEN [doc[i] EXCEPT !.value = status] ELSE doc[i]]

TopIs(doc, status) == \A i \in TopStatus(doc) : doc[i].value = status

\* phases_show_implementation, but for the implementation notes.
phases_show_implementation(doc) ==
  /\ PhaseStarts(doc) # {}
  /\ \/ \E p \in PhaseStarts(doc) :
          parse_phases(doc)[p].status \in {"Complete", "In-progress"}
     \/ DoneRows(doc) # {}

\* retro_staleness: a design phase beyond the ones the retro round saw.
retro_stale(doc, recorded) ==
  \E p \in PhaseStarts(doc) :
    /\ Cardinality({q \in PhaseStarts(doc) : q <= p}) > recorded
    /\ parse_phases(doc)[p].kind = "design"

-----------------------------------------------------------------------------
(* What the router asks before it sends a feature to the gate. *)

EnterCover(s, l) ==
  CASE l.is = "phase" -> NoScope
    [] l.is \in {"named", "heading"} ->
         [s EXCEPT !.verification = l.verification, !.descoped = l.descoped,
                   !.shim = Names(l, "verification"), !.host = l.host]
    [] Supersedes(l) -> [s EXCEPT !.superseded = TRUE]
    [] PlainBold(l) ->
         [s EXCEPT !.verification = l.verification \/ (@ /\ ~Titled(l)),
                   !.shim = ~l.verification
                              /\ IF Titled(l) THEN Names(l, "verification") ELSE @,
                   !.descoped = l.descoped, !.host = l.host]
    [] OTHER -> s

CanonicalRow(s, l) == l.verification \/ s.verification

Collects(s, l) ==
  /\ Spaced(l)
  /\ ~s.superseded /\ ~s.descoped /\ ~l.descoped
  /\ CanonicalRow(s, l) \/ s.shim

\* _collect_uncovered_verification_rows: the rows, and which are deferred to
\* another host or lack the canonical marker.
collect_uncovered(doc) ==
  [rows |-> Scan(EnterCover, Collects, doc),
   host |-> Scan(EnterCover, LAMBDA s, l : Collects(s, l) /\ (s.host \/ l.host), doc),
   shim |-> Scan(EnterCover, LAMBDA s, l : Collects(s, l) /\ ~CanonicalRow(s, l), doc)]

\* uncovered_verification_rows_remain, when passed tests are on record and the
\* results are not an observation-gap partial.
uncovered_verification_rows_remain(doc, passed) ==
  LET c == collect_uncovered(doc)
      canonical == c.rows \ c.shim
      covered == Cardinality(canonical) <= passed
  IN  (IF covered THEN c.shim ELSE c.rows) \ c.host # {}

\* _phases_text_scoped_to: the phases of a plan (numbered ones only).
ScopedTo(doc, numbers) ==
  LET last(i) == {h \in DOMAIN doc : h <= i /\ doc[h].is = "phase"
                    /\ \A g \in DOMAIN doc : g \in h + 1 .. i => doc[g].is # "phase"}
      kept == {i \in DOMAIN doc : \E h \in last(i) : doc[h].value \in numbers}
      nth(k) == CHOOSE i \in kept : Cardinality({j \in kept : j <= i}) = k
  IN  [k \in 1 .. Cardinality(kept) |-> doc[nth(k)]]

\* A plan whose phases hold rows, none of them left but verification ones.
PlanIsStale(doc, numbers) ==
  LET scoped == ScopedTo(doc, numbers)
  IN  /\ OpenRows(scoped) \cup DoneRows(scoped) # {}
      /\ \/ OpenRows(scoped) = {}
         \/ remaining_unchecked_are_verification_only(scoped)
=============================================================================
