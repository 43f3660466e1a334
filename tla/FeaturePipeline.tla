--------------------------- MODULE FeaturePipeline ---------------------------
(***************************************************************************)
(* One feature, or one bug, from its queue entry to its receipt.           *)
(*                                                                         *)
(* Nothing of a feature is kept in memory.  A probe of lazy-state.py reads *)
(* the files of the feature's directory and names the next step: a worker  *)
(* skill to run, a pseudo-skill to apply (lazy_core/pseudo.py), a halt for *)
(* a person, or a reason to pass the feature over.  Workers, pseudo-skills *)
(* and people change the files, other work changes the code underneath,    *)
(* and the last pseudo-skill, __mark_complete__, writes one file after the *)
(* other and may die between two of them.  bug-state.py is a fork of the   *)
(* router for bugs: where it differs env.bug says so.                      *)
(***************************************************************************)
EXTENDS PhasesDoc

CONSTANTS
  Docs,          \* the PHASES.md files a planner may write
  Environments,  \* what does not change while a feature is built, see Env
  SpikeCap,      \* _SPIKE_TOOLING_ROUNDS_CAP
  MaxTests,      \* bound on pass_count
  MaxCrashes, MaxDrifts    \* bounds on faults

Env == [bug: BOOLEAN, host: {"cloud", "workstation", "device"}, surface: BOOLEAN,
        notRequired: BOOLEAN, spike: BOOLEAN, park: BOOLEAN,
        capability: {"none", "present", "absent", "unknown"}, retro: Nat,
        left: SUBSET {"REALIGN_DUE", "RETRO_DONE", "GATE_DUE", "STALE_UPSTREAM",
                      "DEFERRED", "FIX_LANDED"}]

ASSUME FeaturePipelineAssumption ==
  /\ Docs \subseteq Seq(Line) /\ Environments \subseteq Env
  /\ SpikeCap \in Nat \ {0} /\ {MaxTests, MaxCrashes, MaxDrifts} \subseteq Nat

VARIABLES
  env,       \* the host, the repository's surface, the run's flags
  files,     \* the sentinels and receipts present, and QUEUED and ROADMAP
  spec,      \* "nothing", "brief", "stub", "draft", "Complete", "Superseded";
             \* of a bug open is "stub", Concluded "draft", Fixed "Complete"
  research,  \* "none", "prompt", "needs" (a sentinel too), "results", "summary"
  doc,       \* PHASES.md; empty when there is none
  plan,      \* the open plan: its status, the phases it covers, is it sound
  planned,   \* there is a Complete plan
  skip,      \* who granted SKIP_MCP_TEST.md, "none" when there is none
  results,   \* MCP_TEST_RESULTS.md: what it says, and of the "current" code or not
  spike,     \* SPIKE_VERDICT.md: the verdict and the rounds of tooling, which
             \* a BLOCKED.md that asks for a spike counts too
  route,     \* what the last probe said; fresh: and nothing changed since
  todo,      \* the writes __mark_complete__ still has to make
  faults     \* crashes and drifts so far

content == <<files, spec, research, doc, plan, planned, skip, results, spike>>
vars == <<env, content, route, todo, faults>>

NoPlan    == [status |-> "none", scope |-> {}, sound |-> TRUE]
NoResults == [result |-> "none", count |-> 0, age |-> "current"]
Idle      == [do |-> "none", what |-> "none", fresh |-> TRUE]

Has(f)    == f \in files
Remove(f) == files' = files \ f

-----------------------------------------------------------------------------
(* What the router and the gates read from the files. *)

Claimed == spec \in {"Complete", "Superseded"}

\* _phases_effectively_complete
EffectivelyComplete ==
  /\ doc # <<>>
  /\ \/ Unchecked(doc) = 0
     \/ /\ plan.status = "none" /\ planned
        /\ remaining_unchecked_are_verification_only(doc)

\* Mutant: the pipeline may excuse its own feature.
WaivedByAnyone == skip # "none"

\* skip_waiver_refusal, negated
Waived == skip \in {"operator", "mcp-test"} \/ (skip = "structural" /\ ~env.surface)

\* all-passing, or an observation gap all of whose drivable tests pass
Passing == results.result \in {"passing", "gap"}

\* evaluate_completion_evidence: a stale verdict refuses but keeps its count.
Evidence ==
  LET complete == Has("VALIDATED") /\ Passing /\ results.count > 0
  IN  [ok    |-> complete /\ results.age = "current",
       count |-> IF complete THEN results.count ELSE 0]

\* evaluate_deferred_runtime_exemption
DeferredRuntime == Has("VALIDATED") /\ skip = "structural" /\ Waived

StructurallySkipped == env.notRequired /\ ~env.surface

Uncovered ==
  /\ ~StructurallySkipped /\ results.result # "gap"
  /\ uncovered_verification_rows_remain(doc, Evidence.count)

\* _plan_cloud_saturated: the deferral lists each row the plan still has.
CloudSaturated ==
  /\ env.host = "cloud" /\ plan.status = "In-progress" /\ Has("DEFERRED_ROWS")
  /\ OpenRows(ScopedTo(doc, plan.scope)) # {}

-----------------------------------------------------------------------------
(* The router.  Each step of compute_state is a list of tests in the order of
   the source; the first test that holds decides. *)

To(do, what, when) == [when |-> when, do |-> do, what |-> what]

\* The walk of the queue passes the feature over, or stops at it.
Step2 ==
  << To("skip", "complete", Claimed /\ (spec = "Superseded" \/ Has("COMPLETED"))),
     To("halt", "completion-unverified", Claimed),
     To("skip", "cloud-saturated", env.host = "cloud" /\ EffectivelyComplete
          /\ Has("DEFERRED_NON_CLOUD") /\ ~Has("VALIDATED")),
     To("skip", "device-saturated", env.host # "device" /\ EffectivelyComplete
          /\ Has("DEFERRED_REQUIRES_DEVICE") /\ ~Has("VALIDATED")),
     To("block", "unknown-host-capability", env.capability = "unknown"),
     To("defer", "host-saturated", env.capability = "absent" /\ ~env.bug
          /\ EffectivelyComplete /\ ~Has("VALIDATED")),
     To("skip", "operator-deferred", Has("DEFERRED")),
     To("skip", "parked", env.park /\ (Has("BLOCKED") \/ Has("SPIKE_BLOCKED"))),
     To("skip", "parked", env.park /\ Has("MISNAMED")),
     To("apply", "provisional_accept", env.park /\ Has("NEEDS_INPUT") /\ Has("ELIGIBLE")),
     To("skip", "parked", env.park /\ Has("NEEDS_INPUT")),
     To("skip", "parked", env.park /\ Has("PROVISIONAL") /\ Has("VALIDATED")) >>

Exhausted == spike.rounds >= SpikeCap

Step3 ==
  << To("halt", "stale-upstream", Has("STALE_UPSTREAM")),
     To("ask", "spike cap", Has("SPIKE_BLOCKED") /\ Exhausted),
     To("run", "spike", Has("SPIKE_BLOCKED")),
     To("halt", "blocked", Has("BLOCKED")),
     To("halt", "blocked-misnamed", Has("MISNAMED")),
     To("halt", "needs-input", Has("NEEDS_INPUT")),
     To("halt", "needs-ratification", Has("PROVISIONAL") /\ ~env.park) >>

Step4 ==
  << To("halt", "needs-spec-input", spec = "nothing"),
     To("run", "spec", spec \in {"brief", "stub"}),
     To("run", "realign-spec", Has("REALIGN_DUE")) >>

Researched == research \in {"results", "summary"}

Step5 ==
  LET gate == ~Researched /\ ~phases_show_implementation(doc)
  IN  << To("halt", "needs-research", gate /\ research \in {"needs", "prompt"}),
         To("run", "spec", gate),
         To("run", "spec", research = "results") >>

Step6 == << To("run", "plan-feature", doc = <<>>) >>

\* Mutant: verification rows are work for a plan.
BypassNever == FALSE

\* Step 7, entered only while a box is unchecked.
Bypass ==
  /\ plan.status = "none"
  /\ IF env.host = "cloud" THEN planned
     ELSE remaining_unchecked_are_verification_only(doc)

Step7 ==
  LET owed == Unchecked(doc) > 0 /\ ~Bypass
  IN  << To("run", "write-plan", owed /\ plan.status = "none"),
         To("apply", "flip_plan_complete", owed /\ PlanIsStale(doc, plan.scope)),
         To("apply", "flip_plan_complete", owed /\ CloudSaturated),
         To("block", "plan-structural-invalid",
              owed /\ plan.status = "Ready" /\ ~plan.sound),
         To("run", "execute-plan", owed) >>

Step9 ==
  LET cloud == env.host = "cloud"
      unvalidated == ~Has("VALIDATED")
      tested == unvalidated /\ ~cloud
  IN  << To("run", "mcp-test", Has("DEFERRED_REQUIRES_DEVICE") /\ env.host = "device"),
         To("halt", "device-queue-exhausted", Has("DEFERRED_REQUIRES_DEVICE")),
         To("apply", "write_deferred_non_cloud", cloud /\ unvalidated
              /\ skip = "none" /\ ~Has("DEFERRED_NON_CLOUD")),
         To("halt", "needs-input", unvalidated /\ skip # "none" /\ ~Waived),
         To("apply", "write_validated_from_skip", unvalidated /\ skip # "none"),
         To("run", "mcp-test", tested /\ Passing /\ results.age = "other"),
         To("apply", "write_validated_from_results", tested /\ Passing),
         To("apply", "grant_skip_no_mcp_surface", tested /\ StructurallySkipped),
         To("run", "mcp-test", tested),
         To("ask", "spike cap", env.spike /\ spike.verdict # "pass" /\ Exhausted),
         To("run", "spike", env.spike /\ spike.verdict # "pass") >>

\* Mutant: the partial validation goes to the gate.
Step10NoReroute ==
  << To("ask", "unexpected state", ~Has("VALIDATED")
          /\ ~(env.host = "cloud" /\ Has("DEFERRED_NON_CLOUD"))),
     To("halt", "cloud-queue-exhausted", ~Has("VALIDATED")),
     To("halt", "needs-ratification", Has("PROVISIONAL")),
     To("apply", "mark_complete", TRUE) >>

Step10 ==
  << To("ask", "unexpected state", ~Has("VALIDATED")
          /\ ~(env.host = "cloud" /\ Has("DEFERRED_NON_CLOUD"))),
     To("halt", "cloud-queue-exhausted", ~Has("VALIDATED")),
     To("halt", "needs-ratification", Has("PROVISIONAL")),
     To("run", "mcp-test", Uncovered),
     To("apply", "mark_complete", TRUE) >>

-----------------------------------------------------------------------------
(* The same of bug-state.py. *)

\* A bug waits for no absent capability; an unknown one blocks it as well.
BugStep2 == Step2

\* Steps 3 and 9 of the two are alike as well.
BugStep3 == Step3

\* The investigation, and the plan unless SPEC.md says it was fixed already.
\* The skills are /spec-bug and /plan-bug.
BugStep4 ==
  LET concluded == doc = <<>> /\ spec = "draft"
  IN  << To("block", "fixed-unreconciled", concluded /\ Has("FIX_LANDED")),
         To("run", "plan-feature", concluded),
         To("run", "spec", doc = <<>>) >>

\* There is no flip of a plan that the cloud has saturated.
BugStep7 ==
  LET owed == Unchecked(doc) > 0 /\ ~Bypass
  IN  << To("run", "write-plan", owed /\ plan.status = "none"),
         To("apply", "flip_plan_complete", owed /\ PlanIsStale(doc, plan.scope)),
         To("block", "plan-structural-invalid",
              owed /\ plan.status = "Ready" /\ ~plan.sound),
         To("run", "execute-plan", owed) >>

BugStep9 == Step9

BugStep10 ==
  << To("halt", "cloud-queue-exhausted", env.host = "cloud" /\ ~Has("VALIDATED")),
     To("halt", "needs-ratification", Has("PROVISIONAL")),
     To("run", "mcp-test", Uncovered),
     To("apply", "mark_complete", TRUE) >>

FeatureTests == Step2 \o Step3 \o Step4 \o Step5 \o Step6 \o Step7 \o Step9 \o Step10
BugTests == BugStep2 \o BugStep3 \o BugStep4 \o BugStep7 \o BugStep9 \o BugStep10

Route ==
  LET tests == IF env.bug THEN BugTests ELSE FeatureTests
      first == CHOOSE i \in DOMAIN tests :
                 tests[i].when /\ \A j \in 1 .. i - 1 : ~tests[j].when
  IN  tests[first]

-----------------------------------------------------------------------------
Init ==
  /\ env \in Environments
  /\ files = env.left \cup (IF env.bug THEN {} ELSE {"QUEUED", "ROADMAP"})
  /\ spec \in {"nothing", "stub"} /\ research = "none"
  /\ doc = <<>> /\ plan = NoPlan /\ planned = FALSE
  /\ skip = "none" /\ results = NoResults
  /\ spike = [verdict |-> "none", rounds |-> 0]
  /\ route = Idle /\ todo = <<>>
  /\ faults = [crashes |-> 0, drifts |-> 0]

\* A probe, with the sentinels the router writes on its way.
Probe ==
  /\ route.do \notin {"run", "apply"} /\ todo = <<>>
  /\ \E r \in {Route} :
       /\ route' = [do |-> r.do, what |-> r.what, fresh |-> TRUE]
       /\ files' = files \cup
            CASE r.do = "block" -> IF Has("SPIKE_BLOCKED") THEN {} ELSE {"BLOCKED"}
              [] r.do = "defer" -> {"DEFERRED_REQUIRES_HOST"}
              [] r.do = "ask"   -> {"NEEDS_INPUT"}
              [] OTHER -> {}
  /\ UNCHANGED <<env, spec, research, doc, plan, planned, skip, results, spike,
                 todo, faults>>

Running(skill) == route.do = "run" /\ route.what = skill /\ todo = <<>>
Applying(name) == route.do = "apply" /\ route.what = name /\ todo = <<>>

\* The call ends; the next thing is another probe.
Done    == route' = Idle /\ UNCHANGED <<env, todo, faults>>
Refused == route' = [route EXCEPT !.do = "refused"] /\ UNCHANGED <<env, todo, faults>>

-----------------------------------------------------------------------------
(* The workers the router starts: skills run by an agent.  They are external;
   the model lets them leave any of the files the router looks for. *)

\* /spec: the baseline, the research prompt, or the integration of research.
SpecSkill ==
  /\ Running("spec") /\ Done
  /\ \/ /\ spec = "brief" \/ (env.bug /\ spec = "nothing")
        /\ spec' \in {"stub", "draft"} /\ UNCHANGED research
     \/ spec = "stub" /\ spec' = "draft" /\ UNCHANGED research
     \/ spec = "draft" /\ research = "none" /\ ~env.bug
        /\ research' \in {"prompt", "needs"} /\ UNCHANGED spec
     \/ research = "results" /\ research' = "summary" /\ UNCHANGED spec
  /\ UNCHANGED <<files, doc, plan, planned, skip, results, spike>>

RealignSkill ==
  /\ Running("realign-spec") /\ Done
  /\ Remove({"REALIGN_DUE"})
  /\ UNCHANGED <<spec, research, doc, plan, planned, skip, results, spike>>

Numbers(d) == {d[p].value : p \in PhaseStarts(d)}

\* A plan covers some of the phases.
NewPlans(d, sound) ==
  [status: {"Ready"}, scope: SUBSET Numbers(d) \ {{}}, sound: sound]

PlanFeature ==
  /\ Running("plan-feature") /\ Done
  /\ doc' \in Docs
  /\ plan' \in NewPlans(doc', BOOLEAN)
  /\ UNCHANGED <<files, spec, research, planned, skip, results, spike>>

\* It is for phases that have work left, if any has.
WritePlan ==
  /\ Running("write-plan") /\ Done
  /\ plan' \in {p \in NewPlans(doc, {TRUE}) :
                  PlanIsStale(doc, p.scope) => PlanIsStale(doc, Numbers(doc))}
  /\ UNCHANGED <<files, spec, research, doc, planned, skip, results, spike>>

\* Work that is committed makes earlier results those of other code.
Aged == [results EXCEPT !.age = IF results.result = "none" THEN @ ELSE "other"]

\* One row, or the flip of the plan; in the cloud the rest may be deferred.
ExecutePlan ==
  /\ Running("execute-plan") /\ Done
  /\ \/ \E i \in OpenRows(doc) :
          /\ i \notin Scan(EnterRouter, ExemptForRouter, doc)
          /\ \/ doc' = [doc EXCEPT ![i] = Ticked(@)]
             \/ doc' = [doc EXCEPT ![i] = Descoped(@)]
          /\ plan' = [plan EXCEPT !.status = "In-progress"]
          /\ results' = Aged /\ UNCHANGED files
     \/ /\ env.host = "cloud" /\ plan.status = "In-progress"
        /\ files' = files \cup {"DEFERRED_NON_CLOUD", "DEFERRED_ROWS"}
        /\ UNCHANGED <<doc, plan, results>>
     \/ /\ files' \in {files \cup {s} : s \in {"BLOCKED", "SPIKE_BLOCKED", "MISNAMED"}}
                        \cup {files \cup {"NEEDS_INPUT"}, files \cup {"NEEDS_INPUT", "ELIGIBLE"}}
        /\ UNCHANGED <<doc, plan, results>>
  /\ UNCHANGED <<spec, research, planned, skip, spike>>

\* The rows a run of /mcp-test has tested get the marker they lack.
Migrated ==
  [i \in DOMAIN doc |->
     IF i \in collect_uncovered(doc).shim THEN Marked(doc[i]) ELSE doc[i]]

\* Its results are committed, and that commit is one of documents.
McpPasses(n) ==
  /\ Running("mcp-test") /\ Done
  /\ results' = [result |-> "passing", count |-> n, age |-> "current"]
  /\ doc' = Migrated
  /\ files' = IF Has("DEFERRED_REQUIRES_DEVICE")
                THEN (files \ {"DEFERRED_REQUIRES_DEVICE"}) \cup {"VALIDATED"} ELSE files
  /\ UNCHANGED <<spec, research, plan, planned, skip, spike>>

\* Or they are partial, or there are none: a skip, a deferral, a blocker.
McpFallsShort ==
  /\ Running("mcp-test") /\ Done
  /\ \/ /\ results' \in [result: {"gap", "partial"}, count: {1}, age: {"current"}]
        /\ UNCHANGED <<files, skip>>
     \/ skip' \in {"mcp-test", "pipeline"} /\ UNCHANGED <<files, results>>
     \/ /\ files' \in {files \cup {"DEFERRED_REQUIRES_DEVICE"}, files \cup {"BLOCKED"}}
        /\ UNCHANGED <<results, skip>>
  /\ UNCHANGED <<spec, research, doc, plan, planned, spike>>

McpTest == McpFallsShort \/ \E n \in 0 .. MaxTests : McpPasses(n)

SpikeSkill ==
  /\ Running("spike") /\ Done
  /\ \/ /\ spike' = [spike EXCEPT !.verdict = "pass"]
        /\ Remove({"SPIKE_BLOCKED"})
     \/ /\ spike' = [verdict |-> "pending", rounds |-> spike.rounds + 1]
        /\ UNCHANGED files
  /\ UNCHANGED <<spec, research, doc, plan, planned, skip, results>>

-----------------------------------------------------------------------------
(* People, at a halt, and the code underneath, at any time. *)

Halts == {"BLOCKED", "SPIKE_BLOCKED", "MISNAMED", "NEEDS_INPUT", "ELIGIBLE",
          "STALE_UPSTREAM", "PROVISIONAL", "DEFERRED", "FIX_LANDED"}

\* An operator answers a halt.
Operator ==
  /\ route.do \in {"halt", "skip", "ask", "block"} /\ todo = <<>> /\ Done
  /\ \/ /\ files \cap Halts # {}
        /\ Remove(Halts)
        /\ plan' = [plan EXCEPT !.sound = TRUE]
        /\ UNCHANGED <<spec, research, skip>>
     \/ /\ spec = "nothing" /\ ~env.bug /\ spec' = "brief"
        /\ UNCHANGED <<files, research, plan, skip>>
     \/ /\ research \in {"prompt", "needs"} /\ research' = "results"
        /\ UNCHANGED <<files, spec, plan, skip>>
     \/ /\ skip = "pipeline" /\ skip' = "operator"
        /\ UNCHANGED <<files, spec, research, plan>>
  /\ UNCHANGED <<doc, planned, results, spike>>

\* The feature's next run is on the machine it waits for.
Awaits ==
  CASE route.what \in {"cloud-saturated", "cloud-queue-exhausted"} -> "workstation"
    [] route.what \in {"device-saturated", "device-queue-exhausted"} -> "device"
    [] OTHER -> env.host

Handover ==
  /\ route.do \in {"halt", "skip"} /\ Awaits # env.host
  /\ env' = [env EXCEPT !.host = Awaits]
  /\ route' = Idle /\ UNCHANGED <<content, todo, faults>>

\* Commits of other work, to documents or to code.
Drift ==
  /\ faults.drifts < MaxDrifts
  /\ results.result # "none" /\ todo = <<>>
  /\ results' = Aged /\ results' # results
  /\ faults' = [faults EXCEPT !.drifts = @ + 1]
  /\ route' = [route EXCEPT !.fresh = FALSE]
  /\ UNCHANGED <<env, files, spec, research, doc, plan, planned, skip, spike, todo>>

-----------------------------------------------------------------------------
(* The pseudo-skills, all but the last. *)

ProvisionalAccept ==
  /\ Applying("provisional_accept") /\ Done
  /\ files' = (files \ {"NEEDS_INPUT", "ELIGIBLE"}) \cup {"PROVISIONAL"}
  /\ UNCHANGED <<spec, research, doc, plan, planned, skip, results, spike>>

FlipPlan ==
  /\ Applying("flip_plan_complete") /\ Done
  /\ plan' = NoPlan /\ planned' = TRUE
  /\ UNCHANGED <<files, spec, research, doc, skip, results, spike>>

WriteDeferred ==
  /\ Applying("write_deferred_non_cloud") /\ Done
  /\ files' = files \cup {"DEFERRED_NON_CLOUD"}
  /\ UNCHANGED <<spec, research, doc, plan, planned, skip, results, spike>>

GrantSkip ==
  /\ Applying("grant_skip_no_mcp_surface")
  /\ IF StructurallySkipped THEN Done /\ skip' = "structural"
                            ELSE Refused /\ UNCHANGED skip
  /\ UNCHANGED <<files, spec, research, doc, plan, planned, results, spike>>

WriteFromSkip ==
  /\ Applying("write_validated_from_skip")
  /\ IF skip # "none" /\ Waived THEN Done /\ files' = files \cup {"VALIDATED"}
                                ELSE Refused /\ UNCHANGED files
  /\ UNCHANGED <<spec, research, doc, plan, planned, skip, results, spike>>

MayValidate == Passing /\ results.age = "current"

WriteFromResults ==
  /\ Applying("write_validated_from_results")
  /\ IF MayValidate THEN Done /\ files' = files \cup {"VALIDATED"}
                    ELSE Refused /\ UNCHANGED files
  /\ UNCHANGED <<spec, research, doc, plan, planned, skip, results, spike>>

-----------------------------------------------------------------------------
(* __mark_complete__ *)

\* status_value, as PHASES.md has it.
Claim == IF env.bug THEN "Fixed" ELSE "Complete"

\* Mutant: a receipt means that all was done.
PartialNever == FALSE

\* _completion_postconditions_missing is not empty.
Partial ==
  \/ spec # "Complete" \/ ~TopIs(doc, Claim)
  \/ files \cap {"VALIDATED", "RETRO_DONE", "DEFERRED_NON_CLOUD", "QUEUED", "ROADMAP"} # {}

Unevidenced == ~Has("VALIDATED") /\ skip = "none"

RetroStale == Has("RETRO_DONE") /\ retro_stale(doc, env.retro)

\* Mutant: SPEC.md before the receipt.
TailSpecFirst == <<"spec", "receipt", "top", "validated", "retro", "deferred", "queue", "roadmap">>

\* A bug has no row in ROADMAP.md, and archive_fixed takes it off its queue.
CompletionTail ==
  IF env.bug THEN <<"receipt", "spec", "top", "validated", "retro", "deferred">>
  ELSE <<"receipt", "spec", "top", "validated", "retro", "deferred", "queue", "roadmap">>

\* A receipt on disk: all was done, or the tail is resumed after it.
MarkComplete ==
  /\ Applying("mark_complete")
  /\ CASE Unevidenced -> Refused /\ UNCHANGED content
       [] ~Unevidenced /\ Has("COMPLETED") ->
            /\ IF Partial THEN todo' = Tail(CompletionTail) /\ UNCHANGED route
               ELSE route' = Idle /\ UNCHANGED todo
            /\ UNCHANGED <<env, faults, content>>
       [] OTHER ->
            IF RetroStale \/ Has("PROVISIONAL") \/ Has("GATE_DUE")
            THEN Refused /\ UNCHANGED content
            ELSE /\ todo' = <<"tick", "phases">> \o CompletionTail
                 /\ UNCHANGED <<env, route, faults, content>>

Writing(w) == todo # <<>> /\ Head(todo) = w

\* The next write; after the last one the call returns.
Wrote ==
  /\ todo' = Tail(todo)
  /\ route' = IF todo' = <<>> THEN Idle ELSE route

AutoTick ==
  /\ Writing("tick") /\ Wrote
  /\ doc' = IF Evidence.ok THEN autotick_verification_rows(doc, Evidence.count) ELSE doc
  /\ UNCHANGED <<env, files, spec, research, plan, planned, skip, results, spike, faults>>

\* RUNTIME_GATES.md is written, then the phases are flipped or all is refused.
FlipOrRefuse ==
  /\ Writing("phases")
  /\ LET deferred == IF DeferredRuntime
                       THEN enumerate_deferred_verification_rows(doc) ELSE {}
         decided == phase_completion_plan(doc, deferred # {})
     IN  /\ files' = files \cup (IF deferred = {} THEN {} ELSE {"RUNTIME_GATES"})
         /\ IF decided.refused = {}
            THEN Wrote /\ doc' = FlipPhases(doc, decided.flip)
            ELSE /\ todo' = <<>> /\ route' = [route EXCEPT !.do = "refused"]
                 /\ UNCHANGED doc
  /\ UNCHANGED <<env, spec, research, plan, planned, skip, results, spike, faults>>

FileOf == [validated |-> "VALIDATED", retro |-> "RETRO_DONE",
           deferred |-> "DEFERRED_NON_CLOUD", queue |-> "QUEUED", roadmap |-> "ROADMAP"]

WriteTail ==
  /\ todo # <<>> /\ Head(todo) \notin {"tick", "phases"} /\ Wrote
  /\ files' = CASE Writing("receipt") -> files \cup {"COMPLETED"}
                [] Head(todo) \in DOMAIN FileOf -> files \ {FileOf[Head(todo)]}
                [] OTHER -> files
  /\ spec' = IF Writing("spec") THEN "Complete" ELSE spec
  /\ doc' = IF Writing("top") THEN FlipTop(doc, Claim) ELSE doc
  /\ UNCHANGED <<env, research, plan, planned, skip, results, spike, faults>>

Crash ==
  /\ todo # <<>> /\ faults.crashes < MaxCrashes
  /\ faults' = [faults EXCEPT !.crashes = @ + 1]
  /\ todo' = <<>> /\ route' = Idle
  /\ UNCHANGED <<env, content>>

-----------------------------------------------------------------------------
Skills == SpecSkill \/ RealignSkill \/ PlanFeature \/ WritePlan
            \/ ExecutePlan \/ McpTest \/ SpikeSkill

Pseudo == ProvisionalAccept \/ FlipPlan \/ WriteDeferred \/ GrantSkip
            \/ WriteFromSkip \/ WriteFromResults
            \/ MarkComplete \/ AutoTick \/ FlipOrRefuse \/ WriteTail

Next == Probe \/ Skills \/ Pseudo \/ Operator \/ Handover \/ Drift \/ Crash

Spec == Init /\ [][Next]_vars

\* A probe would say something else than the last one.
News == /\ route.do \notin {"run", "apply"} /\ todo = <<>>
        /\ \E r \in {Route} : r.do # route.do \/ r.what # route.what

Told(skills) == route.do = "run" /\ route.what \in skills

Simple == SpecSkill \/ RealignSkill \/ PlanFeature \/ WritePlan

\* The orchestrator probes, runs and applies what it is told (weak fairness,
\* spelled out because TLC is slow to find whether Probe is enabled); a skill
\* that is run again and again gets it done now and then (strong fairness).
Fairness ==
  /\ <>[](News \/ route.do = "apply" \/ Told({"spec", "realign-spec", "plan-feature", "write-plan"}))
       => []<><<Probe \/ Pseudo \/ Simple>>_vars
  /\ []<>Told({"execute-plan"}) => []<><<ExecutePlan /\ doc' # doc>>_vars
  /\ []<>Told({"mcp-test"}) => []<><<McpPasses(MaxTests)>>_vars
  /\ []<>Told({"spike"}) => []<><<SpikeSkill /\ spike'.verdict = "pass">>_vars

FairSpec == Spec /\ Fairness

-----------------------------------------------------------------------------
(* Properties *)

\* A SPEC.md that says Complete has its receipt, after any crash: otherwise the
\* walk of the queue stops at completion-unverified and every feature waits.
CompletionClaimHasReceipt == spec = "Complete" => Has("COMPLETED")

\* A receipt is written only for a feature that passed its tests on some code
\* or was excused from them by someone other than the pipeline.
ReceiptEarned ==
  [][Has("COMPLETED") \/ "COMPLETED" \notin files'
       \/ results.result \in {"passing", "gap"} \/ skip \notin {"none", "pipeline"}]_vars

\* Across crashes and resumptions a closed feature owes no deliverable, and a
\* verification row only to RUNTIME_GATES.md.
ClosedOwesNothing ==
  spec = "Complete" =>
    \A i \in OpenRows(doc) :
      \/ i \in Scan(EnterRouter, LAMBDA s, l : s.superseded \/ s.descoped \/ l.descoped, doc)
      \/ Has("RUNTIME_GATES") /\ i \in enumerate_deferred_verification_rows(doc)

\* What the gate asks for and the router does not look at.
Gap ==
  \/ RetroStale \/ Has("GATE_DUE")
  \/ results.age = "other"                   \* the code has moved on
  \/ StructurallySkipped /\ collect_uncovered(doc).shim # {}
  \/ results.result = "gap"        \* exempts the file, but ticks no further row
       /\ uncovered_verification_rows_remain(doc, Evidence.count)

\* A pseudo-skill the router names is not refused when nothing has changed in
\* between, but for those gaps: the next probe would name it again.
RoutedIsAccepted ==
  route.do = "refused" /\ route.fresh => route.what = "mark_complete" /\ Gap

\* A call that died after the receipt and before SPEC.md is resumed by itself.
InterruptedIsResumed == (Has("COMPLETED") /\ ~Claimed) ~> Claimed

\* A feature keeps coming back to a person or to its end: no step is told for
\* ever in vain, except at a gap.
Settled == route.do \in {"halt", "skip", "ask", "block", "defer"}
Served == []<>(Settled \/ (route.do = "refused" /\ Gap))

\* Stale results count for nothing (gates.py 1189-1191: "a refuse verdict
\* (forged / stale / missing results) yields 0 so every candidate row is
\* treated as uncovered"), so the feature is tested again, not sent to the gate.
StaleEvidenceIsRerun ==
  route = [do |-> "apply", what |-> "mark_complete", fresh |-> TRUE] =>
    ~(results.result = "passing" /\ results.age = "other" /\ todo = <<>>
        /\ ~StructurallySkipped /\ collect_uncovered(doc).rows # {})

\* "Any missing entry means the prior completion died mid-sequence -> the caller
\* RESUMES the idempotent tail" (pseudo.py 224-252): a call for a feature with a
\* receipt and something missing is not refused.
InterruptedCompletionResumes == Has("COMPLETED") /\ Partial /\ todo = <<>> => ~Unevidenced
=============================================================================
