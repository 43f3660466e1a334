------------------------------ MODULE QueueWalk ------------------------------
(***************************************************************************)
(* A batch run over the queue of features, or of bugs: the walk of         *)
(* compute_state.                                                          *)
(*                                                                         *)
(* Every probe walks the queue from its head, passes over what cannot be   *)
(* worked on, and dispatches the first feature that can, or says why there *)
(* is none.  It remembers only what the run marker holds: how many cycles  *)
(* each feature took, and which the budget guard has deferred or evicted.  *)
(* What a feature is made of is module FeaturePipeline's matter; here it   *)
(* is a stage and the sentinels in its directory.  A run over bugs         *)
(* (bug-state.py) has no research gate, budget guard, skip-ahead or host   *)
(* axis; a bug that is superseded here has the status Won't-fix.           *)
(***************************************************************************)
EXTENDS Integers, Sequences, FiniteSets

CONSTANTS
  Feature, NoFeature,
  Queue,         \* queue.json: the features in order, none twice
  Deps,          \* the dependencies of each feature
  Independent,   \* the features that carry the skip-ahead marker
  Modes,         \* the flags a run may be started with
  Cap,           \* --per-feature-cycle-cap
  MaxForward,    \* counts from here on are not told apart
  MaxTroubles    \* bound on what workers and people may add

\* Deps has no cycle: load_queue refuses one (detect_dep_cycle).
ASSUME QueueWalkAssumption ==
  /\ NoFeature \notin Feature
  /\ Queue \in Seq(Feature) /\ \A i, j \in DOMAIN Queue : Queue[i] = Queue[j] => i = j
  /\ Deps \in [Feature -> SUBSET Feature] /\ Independent \subseteq Feature
  /\ Modes \subseteq [bugs: BOOLEAN, cloud: BOOLEAN, device: BOOLEAN, park: BOOLEAN,
                      skipResearch: BOOLEAN, strict: BOOLEAN, guard: BOOLEAN]
  /\ \A m \in Modes : m.bugs => m.strict /\ ~m.skipResearch /\ ~m.guard
  /\ Cap \in Nat \ {0} /\ MaxTroubles \in Nat
  /\ MaxForward \in Nat /\ MaxForward >= Cap + MaxTroubles  \* a trip is decided below it

VARIABLES
  mode,        \* the run's flags
  stage,       \* SPEC.md, the receipt, PHASES.md and the plans of each feature
  flags,       \* its sentinels
  forward,     \* per_feature_forward_cycles
  corrective,  \* per_feature_corrective_cycles
  defers,      \* budget_deferred; from two on not told apart
  evicted,     \* budget_evicted
  answer,      \* what the last probe said, until something changes
  graces,      \* cycles a feature was granted beyond its budget (history)
  troubles

docs   == <<stage, flags>>
marker == <<forward, corrective, defers, evicted>>
vars   == <<mode, docs, marker, answer, graces, troubles>>

\* "near": feature_is_near_complete, but for BLOCKED.md.  "unverified":
\* complete by SPEC.md or ROADMAP.md, without a receipt.
Stages == {"open", "near", "complete", "superseded", "unverified"}
Flags  == {"BLOCKED", "NEEDS_INPUT", "RESEARCH", "DEFERRED", "CLOUD", "DEVICE", "HOST"}

NoAnswer     == [do |-> "none", what |-> "none", id |-> NoFeature]
Dispatch(f)  == [do |-> "dispatch", what |-> "worker", id |-> f]
Halt(why, f) == [do |-> "halt", what |-> why, id |-> f]
Stop(why)    == [do |-> "stop", what |-> why, id |-> NoFeature]

Has(f, flag) == flag \in flags[f]
Plus(n, most) == IF n < most THEN n + 1 ELSE most

-----------------------------------------------------------------------------
(* One feature, as the walk looks at it. *)

NearComplete(f) == stage[f] = "near" /\ ~Has(f, "BLOCKED")

\* Deferred to a host this is not, with nothing but verification left.
SaturatedFor(f, host) ==
  /\ Has(f, host) /\ stage[f] = "near"
  /\ CASE host = "CLOUD"  -> mode.cloud
       [] host = "DEVICE" -> mode.cloud \/ ~mode.device
       [] host = "HOST"   -> TRUE

Parked(f) == mode.park /\ flags[f] \cap {"BLOCKED", "NEEDS_INPUT"} # {}

\* budget_trip_signals
Effective(f) == IF forward[f] > corrective[f] THEN forward[f] - corrective[f] ELSE 0
OverBudget(f) == mode.guard /\ Effective(f) >= Cap
GraceEligible(f) == NearComplete(f) /\ defers[f] < 1

\* Mutant: the guard has no ceiling.
TripsNever(f) == FALSE

Trips(f) == f \notin evicted /\ OverBudget(f) /\ ~GraceEligible(f)

Evicts(f) == Trips(f) /\ defers[f] >= 1 /\ ~NearComplete(f)

\* dep_completion_status, for dependencies that have a directory.
Unsatisfiable(f) == {d \in Deps[f] : stage[d] = "superseded"}

\* Mutant: a dependency that only claims to be complete is good enough.
MissingReceiptless(f) == {d \in Deps[f] : stage[d] \notin {"complete", "unverified"}}

Missing(f) == {d \in Deps[f] : stage[d] # "complete"}

\* What the walk makes of a feature, in the order of the source.
FeatureVerdict(f) ==
  IF stage[f] \in {"complete", "superseded"} THEN "done"
  ELSE IF stage[f] = "unverified" THEN "completion-unverified"
  ELSE IF SaturatedFor(f, "CLOUD") THEN "cloud"
  ELSE IF SaturatedFor(f, "DEVICE") THEN "device"
  ELSE IF SaturatedFor(f, "HOST") THEN "host"
  ELSE IF Has(f, "DEFERRED") THEN "operator"
  ELSE IF mode.skipResearch /\ Has(f, "RESEARCH") THEN "research"
  ELSE IF Parked(f) THEN "parked"
  ELSE IF mode.guard /\ (f \in evicted \/ Trips(f)) THEN "budget"
  ELSE IF Unsatisfiable(f) # {} THEN "unknown-dependency"
  ELSE IF Missing(f) # {} THEN "dependency"
  ELSE IF ~mode.strict /\ flags[f] \cap {"RESEARCH", "BLOCKED"} # {} THEN "gated"
  ELSE "ready"

\* What the walk of bug-state.py makes of a bug.
BugVerdict(f) ==
  IF stage[f] \in {"complete", "superseded"} THEN "done"
  ELSE IF stage[f] = "unverified" THEN "completion-unverified"
  ELSE IF SaturatedFor(f, "CLOUD") THEN "cloud"
  ELSE IF SaturatedFor(f, "DEVICE") THEN "device"
  ELSE IF Has(f, "DEFERRED") THEN "operator"
  ELSE IF Parked(f) THEN "parked"
  ELSE IF Unsatisfiable(f) # {} THEN "unknown-dependency"
  ELSE IF Missing(f) # {} THEN "dependency"
  ELSE "ready"

Verdict(f) == IF mode.bugs THEN BugVerdict(f) ELSE FeatureVerdict(f)

-----------------------------------------------------------------------------
(* The walk. *)

Halting == {"completion-unverified", "unknown-dependency"}

\* skip_ahead_ready: a feature behind gated ones must be marked, and depend on
\* none of them (it does not: a dependency that is gated is not complete).
Ahead(v, i) ==
  LET gated == {j \in 1 .. i - 1 : v[Queue[j]] = "gated"}
  IN  gated = {} \/ Queue[i] \in Independent

\* Where the walk ends: at a halt or at a feature to work on, if anywhere.
Ends(v) ==
  LET ends(i) == \/ v[Queue[i]] \in Halting
                 \/ v[Queue[i]] = "ready" /\ Ahead(v, i)
  IN  {i \in DOMAIN Queue : ends(i) /\ \A j \in 1 .. i - 1 : ~ends(j)}

Passed(v, why) ==
  {Queue[i] : i \in {j \in DOMAIN Queue : v[Queue[j]] = why
                                            /\ \A e \in Ends(v) : j <= e}}

\* The first of a set of features in the order of the queue.
FirstIn(S) ==
  {f \in S : \E i \in DOMAIN Queue :
     Queue[i] = f /\ \A j \in 1 .. i - 1 : Queue[j] \notin S}

\* Mutant: nothing is resumed at the end of the run.
FlushNothing(v) == {}

\* The end-of-run flush: a deferred feature that is near complete by now.
Flush(v) == FirstIn({f \in Passed(v, "budget") : ~Evicts(f) /\ f \notin evicted /\ NearComplete(f)})

\* Mutant: a gated feature that was walked past is not come back to.
FallbackNone(v) == {}

\* The first gated feature, when nothing may be worked ahead of it.
Fallback(v) == FirstIn(Passed(v, "gated"))

\* What a list of features passed over is reported as, in the order of the source.
FeatureReasons ==
  << <<"cloud-queue-exhausted", "cloud">>, <<"device-queue-exhausted", "device">>,
     <<"host-capability-saturated", "host">>, <<"all-deferred", "operator">>,
     <<"queue-blocked-on-research", "research">>,
     <<"dependency-gated", "dependency">>, <<"all-parked", "parked">> >>

BugReasons ==
  << <<"cloud-queue-exhausted", "cloud">>, <<"device-queue-exhausted", "device">>,
     <<"all-deferred", "operator">>, <<"dependency-gated", "dependency">>,
     <<"all-parked", "parked">> >>

\* The first list that is not empty says why there is nothing to do.
FirstOf(why, v) ==
  LET hits == {i \in DOMAIN why : Passed(v, why[i][2]) # {}}
  IN  IF hits = {} THEN "all-features-complete"
      ELSE why[CHOOSE i \in hits : \A j \in hits : i <= j][1]

\* Mutant: before the budget guard had a reason of its own.
FeatureReasonNoBudget(v) == FirstOf(FeatureReasons, v)

FeatureReason(v) ==
  LET elsewhere == UNION {Passed(v, p) : p \in {"cloud", "device", "host", "research"}}
  IN  IF Passed(v, "budget") # {} /\ elsewhere = {} THEN "budget-deferred"
      ELSE FirstOf(FeatureReasons, v)

BugReason(v) == FirstOf(BugReasons, v)

Reason(v) == IF mode.bugs THEN BugReason(v) ELSE FeatureReason(v)

\* Steps 3 to 10 for the feature picked.
Work(f) ==
  IF Has(f, "BLOCKED") THEN Halt("blocked", f)
  ELSE IF Has(f, "NEEDS_INPUT") THEN Halt("needs-input", f)
  ELSE IF Has(f, "RESEARCH") THEN Halt("needs-research", f)
  ELSE Dispatch(f)

Picked(v) ==
  LET ready == {Queue[i] : i \in Ends(v)}
  IN  IF ready # {} THEN ready ELSE IF Fallback(v) # {} THEN Fallback(v) ELSE Flush(v)

HaltedAt(v) == {f \in {Queue[i] : i \in Ends(v)} : v[f] \in Halting}

Answer(v) ==
  LET f == CHOOSE g \in Picked(v) : TRUE
  IN  CASE HaltedAt(v) # {} -> Halt(v[f], f)
        [] HaltedAt(v) = {} /\ Picked(v) # {} -> Work(f)
        [] OTHER -> Stop(Reason(v))

-----------------------------------------------------------------------------
Init ==
  /\ mode \in Modes
  /\ stage \in [Feature -> {"open"}]
  /\ flags = [f \in Feature |-> {}]
  /\ forward = [f \in Feature |-> 0] /\ corrective = [f \in Feature |-> 0]
  /\ defers = [f \in Feature |-> 0] /\ evicted = {}
  /\ answer = NoAnswer
  /\ graces = [f \in Feature |-> 0]
  /\ troubles = 0

Looked == [f \in Feature |-> Verdict(f)]

\* A walk that halts returns before the budget guard's counts are written.
Tripped ==
  {f \in Passed(Looked, "budget") : HaltedAt(Looked) = {} /\ Trips(f)}

Probe ==
  /\ answer' = Answer(Looked)
  /\ defers' = [f \in Feature |-> IF f \in Tripped /\ ~Evicts(f)
                                    THEN Plus(defers[f], 2) ELSE defers[f]]
  /\ evicted' = evicted \cup {f \in Tripped : Evicts(f)}
  /\ flags' = [f \in Feature |->
                 IF f \in HaltedAt(Looked) /\ Looked[f] = "unknown-dependency"
                   THEN flags[f] \cup {"BLOCKED"} ELSE flags[f]]
  /\ UNCHANGED <<mode, stage, forward, corrective, graces, troubles>>

\* The end of a worker's cycle: it is counted, and the answer is used up.
CycleEnd(f) ==
  /\ answer = Dispatch(f)
  /\ answer' = NoAnswer
  /\ forward' = [forward EXCEPT ![f] = Plus(@, MaxForward)]
  /\ graces' = [graces EXCEPT ![f] = IF OverBudget(f) /\ GraceEligible(f) THEN Plus(@, 2) ELSE @]
  /\ UNCHANGED <<mode, corrective, defers, evicted>>

\* What the worker has done: nothing to speak of, the next stage, or a halt.
Advance(f) ==
  /\ CycleEnd(f)
  /\ stage' = [stage EXCEPT ![f] = IF @ = "open" THEN "near" ELSE "complete"]
  /\ UNCHANGED <<flags, troubles>>

Linger(f) == CycleEnd(f) /\ UNCHANGED <<docs, troubles>>

Trouble == troubles < MaxTroubles /\ troubles' = troubles + 1

\* Where a run on this machine may put validation off to.
Elsewhere ==
  IF mode.cloud THEN {"CLOUD"} ELSE IF ~mode.device THEN {"DEVICE"}
  ELSE IF mode.bugs THEN {} ELSE {"HOST"}

Stumble(f) ==
  /\ CycleEnd(f) /\ Trouble
  /\ \/ /\ \E flag \in {"BLOCKED", "NEEDS_INPUT"}
                  \cup (IF stage[f] = "near" THEN Elsewhere
                        ELSE IF mode.bugs THEN {} ELSE {"RESEARCH"}) :
             flags' = [flags EXCEPT ![f] = @ \cup {flag}]
        /\ UNCHANGED stage
     \/ /\ stage[f] = "near"           \* validation finds a defect
        /\ stage' = [stage EXCEPT ![f] = "open"] /\ UNCHANGED flags

\* People: a halt is resolved, which the run counts as a corrective cycle.
Resolve(f) ==
  /\ flags[f] # {} /\ answer' = NoAnswer
  /\ flags' = [flags EXCEPT ![f] = {}]
  /\ corrective' =
       [corrective EXCEPT ![f] = IF flags[f] \cap {"BLOCKED", "NEEDS_INPUT"} = {}
                                   THEN @ ELSE Plus(@, MaxTroubles)]
  /\ UNCHANGED <<mode, stage, forward, defers, evicted, graces, troubles>>

\* A feature is put off, superseded, or declared complete outside the gate.
Decide(f) ==
  /\ Trouble /\ answer' = NoAnswer /\ stage[f] \in {"open", "near"}
  /\ \/ flags' = [flags EXCEPT ![f] = @ \cup {"DEFERRED"}] /\ UNCHANGED stage
     \/ \E s \in {"superseded", "unverified"} :
          stage' = [stage EXCEPT ![f] = s] /\ UNCHANGED flags
  /\ UNCHANGED <<mode, marker, graces>>

\* It is reopened, or its receipt is written after all.
Reconcile(f) ==
  /\ stage[f] = "unverified" /\ answer' = NoAnswer
  /\ \E s \in {"open", "complete"} : stage' = [stage EXCEPT ![f] = s]
  /\ UNCHANGED <<mode, flags, marker, graces, troubles>>

\* The run ends at a halt or a stop; the next one has a marker of its own.
NewRun ==
  /\ answer.do \in {"halt", "stop"} /\ answer' = NoAnswer
  /\ mode' \in Modes /\ mode'.bugs = mode.bugs
  /\ forward' = [f \in Feature |-> 0] /\ corrective' = [f \in Feature |-> 0]
  /\ defers' = [f \in Feature |-> 0] /\ evicted' = {}
  /\ graces' = [f \in Feature |-> 0]
  /\ UNCHANGED <<docs, troubles>>

Next ==
  \/ Probe \/ NewRun
  \/ \E f \in Feature :
       Advance(f) \/ Linger(f) \/ Stumble(f) \/ Resolve(f) \/ Decide(f) \/ Reconcile(f)

Spec == Init /\ [][Next]_vars

\* The orchestrator goes on: it probes when it has no answer, and ends the
\* cycles it started, but a worker need not get anywhere.  (Weak fairness of
\* Probe and CycleEnd, which are enabled there and change the answer.)
Fairness ==
  /\ []<>(answer # NoAnswer)
  /\ \A f \in Feature : []<>(answer # Dispatch(f))

FairSpec == Spec /\ Fairness

-----------------------------------------------------------------------------
(* Properties *)

\* Types; and nothing is evicted that was not deferred before.
TypeOK ==
  /\ mode \in Modes /\ stage \in [Feature -> Stages]
  /\ flags \in [Feature -> SUBSET Flags]
  /\ forward \in [Feature -> 0 .. MaxForward]
  /\ corrective \in [Feature -> 0 .. MaxTroubles]
  /\ defers \in [Feature -> 0 .. 2]
  /\ evicted \subseteq {f \in Feature : defers[f] > 0}
  /\ answer.do \in {"none", "dispatch", "halt", "stop"}
  /\ answer.id \in Feature \cup {NoFeature}
  /\ graces \in [Feature -> 0 .. 2] /\ troubles \in 0 .. MaxTroubles

Done(f) == stage[f] \in {"complete", "superseded"}

\* The run never says that all is complete while something is not, whatever
\* combination of reasons the features were passed over for.
NoFalseCompletion ==
  answer = Stop("all-features-complete") => \A i \in DOMAIN Queue : Done(Queue[i])

\* The run never stops, for whatever reason it gives, past a feature that could
\* be worked on, or whose halt a person should be told of: a gated feature is
\* walked past only for one that is worked on (the "additive invariant").
StopsOnlyWhenDone ==
  answer.do = "stop" =>
    \A i \in DOMAIN Queue : Verdict(Queue[i]) \notin {"ready", "gated"} \cup Halting

\* No worker is started on a feature whose dependencies are not complete with
\* a receipt; the end-of-run flush does not look at them again.
DepsFirst ==
  answer.do = "dispatch" => \A d \in Deps[answer.id] : stage[d] = "complete"

\* A feature that has nothing but its validation left is not given up: it is
\* not evicted, and the run does not end over it while it waits, deferred.
FinishLineIsReached ==
  [][/\ \A f \in evicted' \ evicted : ~NearComplete(f)
     /\ answer' = Stop("budget-deferred") =>
          \A f \in Feature \ evicted' : NearComplete(f) => Verdict(f) # "budget"]_vars

\* Under the budget guard a feature on which nothing gets done does not keep
\* the others from their turn, unless it is the near-complete kind that is
\* granted grace.
Waits(f) ==
  LET v == [g \in Feature |-> Verdict(g)]
  IN  /\ mode.guard /\ v[f] = "ready"
      /\ \E i \in DOMAIN Queue : Queue[i] = f /\ Ahead(v, i)

NoMonopoly ==
  \A f \in Feature :
    []<>(answer.id = f \/ answer.do = "halt" \/ ~Waits(f) \/ \E g \in Feature : graces[g] > 0)

\* "exactly ONE grace cycle past the ceiling for a near-complete feature, then
\* the guard re-asserts" (docs/bugs/_archive/
\* budget-guard-defers-near-complete-feature/PHASES.md:15).
GraceIsOneShot == \A f \in Feature : graces[f] <= 1
=============================================================================
