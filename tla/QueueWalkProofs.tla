--------------------------- MODULE QueueWalkProofs ---------------------------
(***************************************************************************)
(* What the walk of the queue guarantees for every queue, every dependency *)
(* graph and every run: the safety properties of QueueWalk.                *)
(***************************************************************************)
EXTENDS QueueWalk, FiniteSetTheorems, TLAPS

-----------------------------------------------------------------------------
(* The queue has a first of everything it has. *)

\* Every non-empty set of numbers has a least one: of the intervals 0 .. n, one
\* has no other of them as a strict subset.
LEMMA LeastNumber ==
  ASSUME NEW S, S \subseteq Nat, S # {}
  PROVE  \E m \in S : \A n \in S : m <= n
<1> DEFINE R == StrictSubsetOrdering(Nat)
           T == {0 .. n : n \in S}
<1>1. IsWellFoundedOn(R, FiniteSubsetsOf(Nat))
  BY FS_StrictSubsetOrderingWellFounded
<1>2. T \subseteq FiniteSubsetsOf(Nat)
  <2>1. SUFFICES ASSUME NEW n \in S PROVE 0 .. n \in FiniteSubsetsOf(Nat)
    OBVIOUS
  <2>2. IsFiniteSet(0 .. n)
    BY FS_Interval
  <2> QED BY <2>2 DEF FiniteSubsetsOf
<1>3. PICK t \in T : \A u \in T : ~(<<u, t>> \in R)
  <2>1. T # {}
    OBVIOUS
  <2> HIDE DEF R, T
  <2> QED BY <1>1, <1>2, <2>1, WFMin
<1>4. PICK m \in S : t = 0 .. m
  OBVIOUS
<1>5. ASSUME NEW n \in S PROVE m <= n
  <2>1. SUFFICES ASSUME n < m PROVE FALSE
    OBVIOUS
  <2>2. 0 .. n \subseteq 0 .. m /\ m \in 0 .. m /\ m \notin 0 .. n
    BY <2>1
  <2>3. <<0 .. n, 0 .. m>> \in R
    BY <2>2 DEF StrictSubsetOrdering
  <2>4. 0 .. n \in T
    OBVIOUS
  <2> QED BY <1>3, <1>4, <2>3, <2>4
<1> QED BY <1>5

\* The queue is a sequence of features.
LEMMA QueueDomain ==
  /\ DOMAIN Queue \subseteq Nat
  /\ \A i \in DOMAIN Queue : Queue[i] \in Feature
  /\ \A i \in DOMAIN Queue : \A j \in 1 .. i : j \in DOMAIN Queue
BY QueueWalkAssumption

\* FirstIn finds something in a set that holds a feature of the queue.
LEMMA FirstInFinds ==
  ASSUME NEW S, NEW i \in DOMAIN Queue, Queue[i] \in S
  PROVE  FirstIn(S) # {}
<1> DEFINE Here == {j \in DOMAIN Queue : Queue[j] \in S}
<1>1. PICK m \in Here : \A n \in Here : m <= n
  <2>1. Here \subseteq Nat /\ Here # {}
    BY QueueDomain
  <2> HIDE DEF Here
  <2> QED BY <2>1, LeastNumber
<1>2. \A j \in 1 .. m - 1 : Queue[j] \notin S
  BY <1>1, QueueDomain
<1>3. Queue[m] \in FirstIn(S)
  BY <1>2 DEF FirstIn
<1> QED BY <1>3

\* What FirstIn finds is in the set.
LEMMA FirstInIsIn == ASSUME NEW S PROVE FirstIn(S) \subseteq S
BY DEF FirstIn

EndsAt(v, i) ==
  v[Queue[i]] \in Halting \/ (v[Queue[i]] = "ready" /\ Ahead(v, i))

\* The walk ends at the first place where it may.
LEMMA WalkEnds ==
  ASSUME NEW v, NEW i \in DOMAIN Queue, EndsAt(v, i)
  PROVE  Ends(v) # {}
<1> DEFINE Here == {j \in DOMAIN Queue : EndsAt(v, j)}
<1>1. PICK m \in Here : \A n \in Here : m <= n
  <2>1. Here \subseteq Nat /\ Here # {}
    BY QueueDomain
  <2> HIDE DEF Here
  <2> QED BY <2>1, LeastNumber
<1>2. \A j \in 1 .. m - 1 : ~EndsAt(v, j)
  BY <1>1, QueueDomain
<1>3. m \in Ends(v)
  BY <1>1, <1>2 DEF Ends, EndsAt
<1> QED BY <1>3

\* A walk that picks nothing has looked at the whole queue, and has found
\* nothing to work on and nothing to tell.
LEMMA NothingPicked ==
  ASSUME NEW v, Picked(v) = {}
  PROVE  /\ Ends(v) = {}
         /\ \A i \in DOMAIN Queue :
              /\ v[Queue[i]] \notin {"ready", "gated"} \cup Halting
              /\ \A why : v[Queue[i]] = why => Queue[i] \in Passed(v, why)
<1>1. Ends(v) = {}
  BY DEF Picked
<1>2. ASSUME NEW i \in DOMAIN Queue, NEW why, v[Queue[i]] = why
      PROVE  Queue[i] \in Passed(v, why)
  BY <1>1, <1>2 DEF Passed
<1>3. \A i \in DOMAIN Queue : v[Queue[i]] # "gated"
  <2>1. SUFFICES ASSUME NEW i \in DOMAIN Queue, v[Queue[i]] = "gated" PROVE FALSE
    OBVIOUS
  <2>2. Queue[i] \in Passed(v, "gated")
    BY <1>2, <2>1
  <2>3. Fallback(v) # {}
    BY <2>2, FirstInFinds DEF Fallback
  <2> QED BY <1>1, <2>3 DEF Picked
<1>4. \A i \in DOMAIN Queue : ~EndsAt(v, i)
  BY <1>1, WalkEnds
<1>5. \A i \in DOMAIN Queue : Ahead(v, i)
  BY <1>3, QueueDomain DEF Ahead
<1> QED BY <1>1, <1>2, <1>3, <1>4, <1>5 DEF EndsAt

-----------------------------------------------------------------------------
(* Types. *)

\* The verdicts there are; a run over bugs has fewer.
LEMMA VerdictIs ==
  ASSUME NEW f
  PROVE  /\ Verdict(f) \in {"done", "completion-unverified", "cloud", "device", "host",
                            "operator", "research", "parked", "budget",
                            "unknown-dependency", "dependency", "gated", "ready"}
         /\ mode.bugs => Verdict(f) \notin {"host", "research", "budget", "gated"}
BY DEF Verdict, FeatureVerdict, BugVerdict

\* The features passed over for a reason are features of the queue.
LEMMA PassedIsQueued ==
  ASSUME NEW v, NEW why
  PROVE  /\ Passed(v, why) \subseteq {Queue[i] : i \in DOMAIN Queue}
         /\ Passed(v, why) \subseteq Feature
<1>1. Passed(v, why) \subseteq {Queue[i] : i \in DOMAIN Queue}
  BY DEF Passed
<1>2. {Queue[i] : i \in DOMAIN Queue} \subseteq Feature
  BY QueueDomain
<1> QED BY <1>1, <1>2

\* What is picked is in the queue.
LEMMA PickedIsQueued ==
  ASSUME NEW v
  PROVE  /\ Picked(v) \subseteq {Queue[i] : i \in DOMAIN Queue}
         /\ HaltedAt(v) # {} => Picked(v) # {}
<1>1. \A why : Passed(v, why) \subseteq {Queue[i] : i \in DOMAIN Queue}
  BY PassedIsQueued
<1>2. Fallback(v) \subseteq {Queue[i] : i \in DOMAIN Queue}
  BY <1>1, FirstInIsIn DEF Fallback
<1>3. Flush(v) \subseteq {Queue[i] : i \in DOMAIN Queue}
  <2>1. Flush(v) \subseteq Passed(v, "budget")
    BY FirstInIsIn DEF Flush
  <2> QED BY <1>1, <2>1
<1>4. Ends(v) \subseteq DOMAIN Queue
  BY DEF Ends
<1> QED BY <1>2, <1>3, <1>4 DEF Picked, HaltedAt

\* A probe stops when it picks nothing, and dispatches what it picked.
LEMMA AnswerIs ==
  ASSUME NEW v
  PROVE  /\ Answer(v).do \in {"none", "dispatch", "halt", "stop"}
         /\ Answer(v).id \in Feature \cup {NoFeature}
         /\ Answer(v).do = "stop" =>
              Picked(v) = {} /\ HaltedAt(v) = {} /\ Answer(v) = Stop(Reason(v))
         /\ Answer(v).do = "dispatch" =>
              HaltedAt(v) = {} /\ Answer(v).id \in Picked(v)
<1> DEFINE f == CHOOSE g \in Picked(v) : TRUE
<1>1. Picked(v) # {} => f \in Picked(v)
  OBVIOUS
<1>2. Picked(v) # {} => f \in Feature
  BY <1>1, PickedIsQueued, QueueDomain
<1>3. CASE HaltedAt(v) # {}
  <2>1. Answer(v) = Halt(v[f], f)
    BY <1>3 DEF Answer
  <2> QED BY <1>2, <1>3, <2>1, PickedIsQueued DEF Halt
<1>4. CASE HaltedAt(v) = {} /\ Picked(v) # {}
  <2>1. Answer(v) = Work(f)
    BY <1>4 DEF Answer
  <2> QED BY <1>1, <1>2, <1>4, <2>1 DEF Work, Halt, Dispatch
<1>5. CASE HaltedAt(v) = {} /\ Picked(v) = {}
  <2>1. Answer(v) = Stop(Reason(v))
    BY <1>5 DEF Answer
  <2> QED BY <1>5, <2>1 DEF Stop
<1> QED BY <1>3, <1>4, <1>5

\* A capped count stays within its cap.
LEMMA PlusIs ==
  ASSUME NEW most \in Nat, NEW n \in 0 .. most
  PROVE  Plus(n, most) \in 0 .. most /\ (most > 0 => Plus(n, most) > 0)
BY DEF Plus

\* A run starts well typed.
LEMMA InitType == Init => TypeOK
BY QueueWalkAssumption DEF Init, TypeOK, Stages, Flags, NoAnswer

\* Every step keeps the types.
LEMMA NextType == TypeOK /\ [Next]_vars => TypeOK'
<1> SUFFICES ASSUME TypeOK, [Next]_vars PROVE TypeOK'
  OBVIOUS
<1> USE QueueWalkAssumption DEF TypeOK
<1>1. CASE Probe
  <2>1. Tripped \subseteq Feature
    BY PassedIsQueued DEF Tripped
  <2>2. flags' \in [Feature -> SUBSET Flags]
    BY <1>1 DEF Probe, Flags
  <2>3. defers' = [f \in Feature |-> IF f \in Tripped /\ ~Evicts(f)
                                       THEN Plus(defers[f], 2) ELSE defers[f]]
    BY <1>1 DEF Probe
  <2>4. \A f \in Feature : Plus(defers[f], 2) \in 0 .. 2 /\ Plus(defers[f], 2) > 0
    <3>1. SUFFICES ASSUME NEW f \in Feature
                   PROVE  Plus(defers[f], 2) \in 0 .. 2 /\ Plus(defers[f], 2) > 0
      OBVIOUS
    <3>2. defers[f] \in 0 .. 2
      OBVIOUS
    <3> QED BY <3>2 DEF Plus
  <2>5. defers' \in [Feature -> 0 .. 2]
    BY <2>3, <2>4
  <2>6. \A f \in Feature : defers[f] > 0 => defers'[f] > 0
    BY <2>3, <2>4
  <2>7. evicted' \subseteq {f \in Feature : defers'[f] > 0}
    <3>1. \A f \in Tripped : Evicts(f) => f \in Feature /\ defers[f] > 0
      <4>1. SUFFICES ASSUME NEW f \in Tripped, Evicts(f)
                     PROVE  f \in Feature /\ defers[f] > 0
        OBVIOUS
      <4>2. f \in Feature /\ defers[f] \in 0 .. 2
        BY <2>1
      <4> QED BY <4>1, <4>2 DEF Evicts
    <3>2. evicted' = evicted \cup {f \in Tripped : Evicts(f)}
      BY <1>1 DEF Probe
    <3> QED BY <2>6, <3>1, <3>2
  <2> QED BY <1>1, <2>2, <2>5, <2>7, AnswerIs DEF Probe
<1>2. CASE NewRun
  BY <1>2 DEF NewRun, NoAnswer, docs
<1>3. ASSUME NEW f \in Feature, CycleEnd(f)
      PROVE  /\ forward' \in [Feature -> 0 .. MaxForward]
             /\ graces' \in [Feature -> 0 .. 2]
             /\ answer' = NoAnswer
             /\ UNCHANGED <<mode, corrective, defers, evicted>>
  BY <1>3, PlusIs DEF CycleEnd
<1>4. ASSUME NEW f \in Feature, Advance(f) PROVE TypeOK'
  BY <1>3, <1>4 DEF Advance, NoAnswer, Stages
<1>5. ASSUME NEW f \in Feature, Linger(f) PROVE TypeOK'
  BY <1>3, <1>5 DEF Linger, NoAnswer, docs
<1>6. ASSUME NEW f \in Feature, Stumble(f) PROVE TypeOK'
  <2>1. Elsewhere \subseteq Flags
    BY DEF Elsewhere, Flags
  <2>2. stage' \in [Feature -> Stages]
    BY <1>6 DEF Stumble, Stages
  <2>4. flags' \in [Feature -> SUBSET Flags]
    <3>1. CASE UNCHANGED flags
      BY <3>1
    <3>2. CASE \E flag \in Flags : flags' = [flags EXCEPT ![f] = @ \cup {flag}]
      BY <3>2
    <3>3. {"BLOCKED", "NEEDS_INPUT", "RESEARCH"} \subseteq Flags
      BY DEF Flags
    <3> QED BY <1>6, <2>1, <3>1, <3>2, <3>3 DEF Stumble
  <2>3. troubles' \in 0 .. MaxTroubles
    BY <1>6 DEF Stumble, Trouble
  <2> QED BY <1>3, <1>6, <2>2, <2>3, <2>4 DEF Stumble, NoAnswer
<1>7. ASSUME NEW f \in Feature, Resolve(f) PROVE TypeOK'
  BY <1>7, PlusIs DEF Resolve, NoAnswer
<1>8. ASSUME NEW f \in Feature, Decide(f) PROVE TypeOK'
  <2>1. flags' \in [Feature -> SUBSET Flags] /\ stage' \in [Feature -> Stages]
    <3>1. CASE flags' = [flags EXCEPT ![f] = @ \cup {"DEFERRED"}] /\ UNCHANGED stage
      BY <3>1 DEF Flags
    <3>2. CASE UNCHANGED flags /\ \E s \in {"superseded", "unverified"} :
                                    stage' = [stage EXCEPT ![f] = s]
      BY <3>2 DEF Stages
    <3> QED BY <1>8, <3>1, <3>2 DEF Decide
  <2>2. troubles' \in 0 .. MaxTroubles /\ answer' = NoAnswer /\ UNCHANGED <<mode, marker, graces>>
    BY <1>8 DEF Decide, Trouble
  <2> QED BY <2>1, <2>2 DEF NoAnswer, marker
<1>9. ASSUME NEW f \in Feature, Reconcile(f) PROVE TypeOK'
  BY <1>9 DEF Reconcile, NoAnswer, Stages, marker
<1>10. CASE UNCHANGED vars
  BY <1>10 DEF vars, docs, marker
<1> QED BY <1>1, <1>2, <1>4, <1>5, <1>6, <1>7, <1>8, <1>9, <1>10 DEF Next

\* The variables keep their types, and nothing is evicted before it was
\* deferred, for any queue and any budget.
THEOREM WalkTypeCorrect == Spec => []TypeOK
<1> QED BY InitType, NextType, PTL DEF Spec

-----------------------------------------------------------------------------
(* What a probe decides, and that it stands by it. *)

\* A feature that may be dispatched is ready, or gated with nothing better to
\* do, or taken back from the deferred ones at the end.
LEMMA PickedFor ==
  ASSUME NEW v, HaltedAt(v) = {}, NEW f \in Picked(v)
  PROVE  \/ v[f] \in {"ready", "gated"}
         \/ v[f] = "budget" /\ f \notin evicted
<1>1. ASSUME NEW i \in Ends(v), f = Queue[i] PROVE v[f] = "ready"
  <2>1. v[Queue[i]] \in Halting \/ v[Queue[i]] = "ready"
    BY DEF Ends
  <2>2. v[Queue[i]] \notin Halting
    BY DEF HaltedAt
  <2> QED BY <1>1, <2>1, <2>2
<1>2. ASSUME f \in Fallback(v) PROVE v[f] = "gated"
  BY <1>2, FirstInIsIn DEF Fallback, Passed
<1>3. ASSUME f \in Flush(v) PROVE v[f] = "budget" /\ f \notin evicted
  <2>1. f \in Passed(v, "budget") /\ f \notin evicted
    BY <1>3, FirstInIsIn DEF Flush
  <2> QED BY <2>1 DEF Passed
<1> QED BY <1>1, <1>2, <1>3 DEF Picked

\* A feature is deferred for its budget only when the guard says so.
LEMMA Budgeted ==
  ASSUME NEW f, Verdict(f) = "budget"
  PROVE  f \in evicted \/ Trips(f)
BY DEF Verdict, FeatureVerdict, BugVerdict

\* A feature to work on has its dependencies complete.
LEMMA Workable ==
  ASSUME NEW f, Verdict(f) \in {"ready", "gated"}
  PROVE  Missing(f) = {}
BY DEF Verdict, FeatureVerdict, BugVerdict

\* To trip the budget guard a feature must have had a cycle in this run.
LEMMA TrippedWasDispatched ==
  ASSUME TypeOK, NEW f \in Feature, Trips(f)
  PROVE  forward[f] > 0
<1>1. forward[f] \in Nat /\ corrective[f] \in Nat /\ Cap \in Nat \ {0}
  BY QueueWalkAssumption DEF TypeOK
<1>2. Effective(f) >= Cap
  BY DEF Trips, OverBudget
<1> QED BY <1>1, <1>2 DEF Effective

\* What a probe writes back does not change what it, or the next one, sees.
LEMMA ProbeStandsByIt ==
  ASSUME TypeOK, Probe, HaltedAt(Looked) = {}, NEW f \in Feature
  PROVE  Verdict(f)' = Verdict(f)
<1>1. flags' = flags /\ UNCHANGED <<mode, stage, forward, corrective>>
  BY DEF Probe, TypeOK
<1>2. defers[f] \in 0 .. 2
  BY DEF TypeOK
<1>3. (f \in evicted \/ Trips(f))' <=> (f \in evicted \/ Trips(f))
  <2>1. CASE f \in Tripped /\ Evicts(f)
    BY <2>1 DEF Probe, Evicts
  <2>2. CASE f \in Tripped /\ ~Evicts(f)
    <3>1. defers'[f] >= 1
      BY <1>2, <2>2 DEF Probe, Plus
    <3>2. Trips(f) /\ OverBudget(f)
      BY <2>2 DEF Tripped, Trips
    <3>3. OverBudget(f)'
      BY <1>1, <3>2 DEF OverBudget, Effective
    <3>4. defers'[f] \in Nat
      BY <1>2, <2>2 DEF Probe, Plus
    <3>5. ~GraceEligible(f)'
      BY <3>1, <3>4 DEF GraceEligible
    <3> QED BY <3>2, <3>3, <3>5 DEF Trips
  <2>3. CASE f \notin Tripped
    <3>1. defers'[f] = defers[f] /\ (f \in evicted' <=> f \in evicted)
      BY <2>3 DEF Probe
    <3> QED BY <1>1, <3>1 DEF Trips, OverBudget, Effective, GraceEligible, NearComplete, Has
  <2> QED BY <2>1, <2>2, <2>3
<1> QED BY <1>1, <1>3 DEF Verdict, FeatureVerdict, BugVerdict, SaturatedFor, Parked, Has, Unsatisfiable, Missing

\* The walk looks at the features of the queue.
LEMMA LookedIs == \A i \in DOMAIN Queue : Looked[Queue[i]] = Verdict(Queue[i])
BY QueueDomain DEF Looked

-----------------------------------------------------------------------------
(* The end of a run. *)

\* Only a probe makes an answer that says to stop.
LEMMA OthersAnswerNothing ==
  ASSUME Next, ~Probe
  PROVE  answer' = NoAnswer
BY DEF Next, NewRun, Advance, Linger, Stumble, CycleEnd, Resolve, Decide, Reconcile

\* A probe that stops has looked at every feature; any other step withdraws the answer.
LEMMA StopStep == TypeOK /\ StopsOnlyWhenDone /\ [Next]_vars => StopsOnlyWhenDone'
<1> SUFFICES ASSUME TypeOK, StopsOnlyWhenDone, [Next]_vars PROVE StopsOnlyWhenDone'
  OBVIOUS
<1>1. CASE Probe
  <2>1. SUFFICES ASSUME answer'.do = "stop", NEW i \in DOMAIN Queue
                 PROVE  Verdict(Queue[i])' \notin {"ready", "gated"} \cup Halting
    BY DEF StopsOnlyWhenDone
  <2>2. Picked(Looked) = {} /\ HaltedAt(Looked) = {}
    BY <1>1, <2>1, AnswerIs DEF Probe
  <2>3. Verdict(Queue[i]) \notin {"ready", "gated"} \cup Halting
    BY <2>2, NothingPicked, LookedIs
  <2>4. Verdict(Queue[i])' = Verdict(Queue[i])
    BY <1>1, <2>2, ProbeStandsByIt, QueueDomain
  <2> QED BY <2>3, <2>4
<1>2. CASE Next /\ ~Probe
  BY <1>2, OthersAnswerNothing DEF StopsOnlyWhenDone, NoAnswer
<1>3. CASE UNCHANGED vars
  BY <1>3 DEF vars, docs, marker, StopsOnlyWhenDone, Verdict, FeatureVerdict,
     BugVerdict, SaturatedFor, Parked,
     Has, Unsatisfiable, Missing, Trips, OverBudget, Effective, GraceEligible, NearComplete
<1> QED BY <1>1, <1>2, <1>3

\* The run never stops past a feature that could be worked on or whose halt a
\* person should be told of, whatever the queue and its dependencies.
THEOREM StopsWhenDone == Spec => []StopsOnlyWhenDone
<1>1. Init => StopsOnlyWhenDone
  BY DEF Init, StopsOnlyWhenDone, NoAnswer
<1> QED BY <1>1, InitType, NextType, StopStep, PTL DEF Spec

\* Nothing is told of a queue only when every list there is is empty.
LEMMA NothingToTell ==
  ASSUME NEW v, NEW why, DOMAIN why \subseteq Nat,
         \A i \in DOMAIN why : why[i][1] # "all-features-complete",
         FirstOf(why, v) = "all-features-complete"
  PROVE  \A i \in DOMAIN why : Passed(v, why[i][2]) = {}
<1> DEFINE hits == {i \in DOMAIN why : Passed(v, why[i][2]) # {}}
           first == CHOOSE i \in hits : \A j \in hits : i <= j
<1>1. SUFFICES ASSUME hits # {} PROVE FALSE
  OBVIOUS
<1>2. \E i \in hits : \A j \in hits : i <= j
  <2>1. hits \subseteq Nat
    OBVIOUS
  <2> HIDE DEF hits
  <2> QED BY <1>1, <2>1, LeastNumber
<1>3. first \in hits
  <2> HIDE DEF hits
  <2> QED BY <1>2
<1>4. FirstOf(why, v) = why[first][1]
  BY <1>1 DEF FirstOf
<1> HIDE DEF first
<1> QED BY <1>3, <1>4

\* The terminal that says all is complete is the last resort of a feature run.
LEMMA FeatureLastReason ==
  ASSUME NEW v, FeatureReason(v) = "all-features-complete"
  PROVE  \A p \in {"cloud", "device", "host", "operator", "research",
                   "dependency", "parked", "budget"} : Passed(v, p) = {}
<1>1. FirstOf(FeatureReasons, v) = "all-features-complete"
  BY DEF FeatureReason
<1>2. DOMAIN FeatureReasons = 1 .. 7
  BY DEF FeatureReasons
<1>3. \A i \in 1 .. 7 : FeatureReasons[i][1] # "all-features-complete"
  <2>1. SUFFICES ASSUME NEW i \in 1 .. 7 PROVE FeatureReasons[i][1] # "all-features-complete"
    OBVIOUS
  <2>2. i = 1 \/ i = 2 \/ i = 3 \/ i = 4 \/ i = 5 \/ i = 6 \/ i = 7
    OBVIOUS
  <2> QED BY <2>2 DEF FeatureReasons
<1>4. \A i \in 1 .. 7 : Passed(v, FeatureReasons[i][2]) = {}
  BY <1>1, <1>2, <1>3, NothingToTell
<1>5. /\ Passed(v, FeatureReasons[1][2]) = {} /\ Passed(v, FeatureReasons[2][2]) = {}
      /\ Passed(v, FeatureReasons[3][2]) = {} /\ Passed(v, FeatureReasons[4][2]) = {}
      /\ Passed(v, FeatureReasons[5][2]) = {} /\ Passed(v, FeatureReasons[6][2]) = {}
      /\ Passed(v, FeatureReasons[7][2]) = {}
  BY <1>4
<1>6. \A p \in {"cloud", "device", "host", "operator", "research", "dependency", "parked"} :
        Passed(v, p) = {}
  BY <1>5 DEF FeatureReasons
<1>7. Passed(v, "budget") = {}
  BY <1>6 DEF FeatureReason
<1> QED BY <1>6, <1>7

\* The same of a run over bugs, which keeps five lists.
LEMMA BugLastReason ==
  ASSUME NEW v, BugReason(v) = "all-features-complete"
  PROVE  \A p \in {"cloud", "device", "operator", "dependency", "parked"} : Passed(v, p) = {}
<1>1. FirstOf(BugReasons, v) = "all-features-complete"
  BY DEF BugReason
<1>2. DOMAIN BugReasons = 1 .. 5
  BY DEF BugReasons
<1>3. \A i \in 1 .. 5 : BugReasons[i][1] # "all-features-complete"
  <2>1. SUFFICES ASSUME NEW i \in 1 .. 5 PROVE BugReasons[i][1] # "all-features-complete"
    OBVIOUS
  <2>2. i = 1 \/ i = 2 \/ i = 3 \/ i = 4 \/ i = 5
    OBVIOUS
  <2> QED BY <2>2 DEF BugReasons
<1>4. \A i \in 1 .. 5 : Passed(v, BugReasons[i][2]) = {}
  BY <1>1, <1>2, <1>3, NothingToTell
<1>5. /\ Passed(v, BugReasons[1][2]) = {} /\ Passed(v, BugReasons[2][2]) = {}
      /\ Passed(v, BugReasons[3][2]) = {} /\ Passed(v, BugReasons[4][2]) = {}
      /\ Passed(v, BugReasons[5][2]) = {}
  BY <1>4
<1> QED BY <1>5 DEF BugReasons

\* A step of a run that calls the queue complete is a probe that found it so.
LEMMA CompletionStep ==
  TypeOK /\ NoFalseCompletion /\ [Next]_vars => NoFalseCompletion'
<1> SUFFICES ASSUME TypeOK, NoFalseCompletion, [Next]_vars PROVE NoFalseCompletion'
  OBVIOUS
<1>1. CASE Probe
  <2>1. SUFFICES ASSUME answer' = Stop("all-features-complete"), NEW i \in DOMAIN Queue
                 PROVE  Done(Queue[i])'
    BY DEF NoFalseCompletion
  <2>2. Answer(Looked) = Stop("all-features-complete")
    BY <1>1, <2>1 DEF Probe
  <2>8. Answer(Looked).do = "stop"
    BY <2>2 DEF Stop
  <2>9. Picked(Looked) = {} /\ Answer(Looked) = Stop(Reason(Looked))
    BY <2>8, AnswerIs
  <2>3. Reason(Looked) = "all-features-complete"
    BY <2>2, <2>9 DEF Stop
  <2>4. \A why : Verdict(Queue[i]) = why => Passed(Looked, why) # {}
    BY <2>9, NothingPicked, LookedIs
  <2>10. \A why \in {"cloud", "device", "host", "operator", "research",
                     "dependency", "parked", "budget"} : Verdict(Queue[i]) # why
    <3>1. CASE mode.bugs
      BY <2>3, <2>4, <3>1, BugLastReason, VerdictIs DEF Reason
    <3>2. CASE ~mode.bugs
      BY <2>3, <2>4, <3>2, FeatureLastReason DEF Reason
    <3> QED BY <3>1, <3>2
  <2>5. Verdict(Queue[i]) \notin {"ready", "gated"} \cup Halting
    BY <2>9, NothingPicked, LookedIs
  <2>6. Verdict(Queue[i]) = "done"
    BY <2>10, <2>5, VerdictIs DEF Halting
  <2>7. Done(Queue[i])
    BY <2>6 DEF Verdict, FeatureVerdict, BugVerdict, Done
  <2> QED BY <1>1, <2>7 DEF Probe, Done
<1>2. CASE Next /\ ~Probe
  BY <1>2, OthersAnswerNothing DEF NoFalseCompletion, NoAnswer, Stop
<1>3. CASE UNCHANGED vars
  BY <1>3 DEF vars, docs, NoFalseCompletion, Done
<1> QED BY <1>1, <1>2, <1>3

\* The run never calls a queue complete that is not, whatever combination of
\* reasons its features were passed over for.
THEOREM CompletionIsTrue == Spec => []NoFalseCompletion
<1>1. Init => NoFalseCompletion
  BY DEF Init, NoFalseCompletion, NoAnswer, Stop
<1> QED BY <1>1, InitType, NextType, CompletionStep, PTL DEF Spec

-----------------------------------------------------------------------------
(* Dependencies.  The flush at the end of a run takes a deferred feature back *)
(* without a look at its dependencies, so DepsFirst is not inductive.  What   *)
(* makes it hold is that a feature that was deferred has had a cycle in this  *)
(* run, and that a receipt, once there, stays.                                *)

Queued(f) == \E i \in DOMAIN Queue : Queue[i] = f

DepsDone(f) == \A d \in Deps[f] : stage[d] = "complete"

\* A feature that has had a cycle in this run is in the queue, and has had its
\* dependencies complete ever since.
CycledInv == \A f \in Feature : forward[f] > 0 => Queued(f) /\ DepsDone(f)

DispatchInv ==
  answer.do = "dispatch" => Queued(answer.id) /\ DepsDone(answer.id)

IInv == TypeOK /\ CycledInv /\ DispatchInv

\* Dependencies are features.
LEMMA DepsAreFeatures == \A f \in Feature : Deps[f] \subseteq Feature
BY QueueWalkAssumption

\* A receipt stays.
LEMMA CompleteStays ==
  ASSUME TypeOK, [Next]_vars, NEW d \in Feature, stage[d] = "complete"
  PROVE  stage'[d] = "complete"
<1> USE DEF TypeOK
<1>1. CASE Probe
  BY <1>1 DEF Probe
<1>2. CASE NewRun
  BY <1>2 DEF NewRun, docs
<1>3. ASSUME NEW f \in Feature, Advance(f) \/ Linger(f) \/ Stumble(f) PROVE stage'[d] = "complete"
  BY <1>3 DEF Advance, Linger, Stumble, docs
<1>4. ASSUME NEW f \in Feature, Resolve(f) \/ Decide(f) \/ Reconcile(f) PROVE stage'[d] = "complete"
  BY <1>4 DEF Resolve, Decide, Reconcile
<1>5. CASE UNCHANGED vars
  BY <1>5 DEF vars, docs
<1> QED BY <1>1, <1>2, <1>3, <1>4, <1>5 DEF Next

\* Dependencies that are complete stay so.
LEMMA DepsStayDone ==
  ASSUME TypeOK, [Next]_vars, NEW f \in Feature, DepsDone(f)
  PROVE  DepsDone(f)'
BY CompleteStays, DepsAreFeatures DEF DepsDone

\* A run starts with no cycle counted and nothing dispatched.
LEMMA InitIInv == Init => IInv
<1> SUFFICES ASSUME Init PROVE CycledInv /\ DispatchInv
  BY InitType DEF IInv
<1> QED BY DEF Init, CycledInv, DispatchInv, NoAnswer

\* A probe dispatches only what has its dependencies complete: it has looked, or the
\* feature had a cycle when they were.
LEMMA ProbeDispatch == ASSUME IInv, Probe PROVE DispatchInv'
<1>1. SUFFICES ASSUME answer'.do = "dispatch"
               PROVE  Queued(answer.id)' /\ DepsDone(answer.id)'
  BY DEF DispatchInv
<1> DEFINE f == Answer(Looked).id
<1>2. HaltedAt(Looked) = {} /\ f \in Picked(Looked) /\ answer'.id = f
  BY <1>1, AnswerIs DEF Probe
<1>3. Queued(f) /\ f \in Feature
  BY <1>2, PickedIsQueued, QueueDomain DEF Queued
<1> HIDE DEF f
<1>4. Looked[f] = Verdict(f)
  BY <1>3 DEF Looked
<1>5. CASE Looked[f] \in {"ready", "gated"}
  <2>1. Missing(f) = {}
    BY <1>4, <1>5, Workable
  <2> QED BY <1>2, <1>3, <2>1 DEF Missing, DepsDone, Queued, Probe
<1>6. CASE Looked[f] = "budget" /\ f \notin evicted
  <2>1. Trips(f)
    BY <1>4, <1>6, Budgeted
  <2>2. DepsDone(f)
    BY <1>3, <2>1, TrippedWasDispatched DEF IInv, CycledInv
  <2> QED BY <1>2, <1>3, <2>2 DEF DepsDone, Queued, Probe
<1> QED BY <1>2, <1>5, <1>6, PickedFor

\* Every step keeps what is known of the dependencies.
LEMMA NextIInv == IInv /\ [Next]_vars => IInv'
<1> SUFFICES ASSUME IInv, [Next]_vars PROVE CycledInv' /\ DispatchInv'
  BY NextType DEF IInv
<1>1. ASSUME UNCHANGED forward PROVE CycledInv'
  BY <1>1, DepsStayDone DEF IInv, CycledInv, Queued
<1>2. CASE Probe
  <2>1. UNCHANGED forward
    BY <1>2 DEF Probe
  <2> QED BY <1>1, <1>2, <2>1, ProbeDispatch
<1>3. CASE NewRun
  BY <1>3 DEF NewRun, CycledInv, DispatchInv, NoAnswer
<1>4. ASSUME NEW f \in Feature, CycleEnd(f) PROVE CycledInv' /\ DispatchInv'
  <2>1. answer = Dispatch(f) /\ answer' = NoAnswer
    BY <1>4 DEF CycleEnd
  <2>2. Queued(f) /\ DepsDone(f)
    BY <2>1 DEF IInv, DispatchInv, Dispatch
  <2>3. \A g \in Feature : g # f => forward'[g] = forward[g]
    BY <1>4 DEF CycleEnd, IInv, TypeOK
  <2>4. CycledInv'
    <3>1. SUFFICES ASSUME NEW g \in Feature, forward'[g] > 0
                   PROVE  Queued(g) /\ DepsDone(g)'
      BY DEF CycledInv, Queued
    <3>2. Queued(g) /\ DepsDone(g)
      BY <2>2, <2>3, <3>1 DEF IInv, CycledInv
    <3> QED BY <3>2, DepsStayDone DEF IInv
  <2> QED BY <2>1, <2>4 DEF DispatchInv, NoAnswer
<1>5. ASSUME NEW f \in Feature, Resolve(f) \/ Decide(f) \/ Reconcile(f)
      PROVE  CycledInv' /\ DispatchInv'
  <2>1. UNCHANGED forward /\ answer' = NoAnswer
    BY <1>5 DEF Resolve, Decide, Reconcile, marker
  <2> QED BY <1>1, <2>1 DEF DispatchInv, NoAnswer
<1>6. CASE UNCHANGED vars
  <2>1. UNCHANGED <<forward, answer, stage>>
    BY <1>6 DEF vars, docs, marker
  <2> QED BY <1>1, <2>1 DEF IInv, DispatchInv, Queued, DepsDone
<1> QED BY <1>2, <1>3, <1>4, <1>5, <1>6 DEF Next, Advance, Linger, Stumble

\* What is known of the dependencies holds throughout.
LEMMA AlwaysIInv == Spec => []IInv
<1> QED BY InitIInv, NextIInv, PTL DEF Spec

\* No worker is started on a feature whose dependencies are not complete with a
\* receipt, for any dependency graph.
THEOREM DependenciesFirst == Spec => []DepsFirst
<1>1. IInv => DepsFirst
  BY DEF IInv, DispatchInv, DepsFirst, DepsDone
<1> QED BY <1>1, AlwaysIInv, PTL

\* A near-complete feature is not evicted, and the flush finds it before the run stops.
LEMMA FinishLineStep ==
  ASSUME IInv, Next
  PROVE  /\ \A f \in evicted' \ evicted : ~NearComplete(f)
         /\ answer' = Stop("budget-deferred") =>
              \A f \in Feature \ evicted' : NearComplete(f) => Verdict(f) # "budget"
<1>1. CASE Probe
  <2>1. \A f \in evicted' \ evicted : ~NearComplete(f)
    BY <1>1 DEF Probe, Evicts
  <2>2. SUFFICES ASSUME answer' = Stop("budget-deferred"),
                        NEW f \in Feature, f \notin evicted', NearComplete(f),
                        Verdict(f) = "budget"
                 PROVE  FALSE
    BY <2>1
  <2>3. f \notin evicted
    BY <1>1, <2>2 DEF Probe
  <2>4. Trips(f)
    BY <2>2, <2>3, Budgeted
  <2>5. PICK i \in DOMAIN Queue : Queue[i] = f
    BY <2>4, TrippedWasDispatched DEF IInv, CycledInv, Queued
  <2>6. Answer(Looked).do = "stop"
    BY <1>1, <2>2 DEF Probe, Stop
  <2>7. Picked(Looked) = {}
    BY <2>6, AnswerIs
  <2>8. f \in Passed(Looked, "budget")
    BY <2>2, <2>5, <2>7, NothingPicked, LookedIs
  <2>9. Flush(Looked) # {}
    <3> DEFINE Held == {g \in Passed(Looked, "budget") :
                          ~Evicts(g) /\ g \notin evicted /\ NearComplete(g)}
    <3>1. f \in Held
      BY <2>2, <2>3, <2>8 DEF Evicts
    <3>2. FirstIn(Held) # {}
      <4> HIDE DEF Held
      <4> QED BY <2>5, <3>1, FirstInFinds
    <3> QED BY <3>2 DEF Flush
  <2>10. Fallback(Looked) # {} \/ Ends(Looked) # {} \/ Picked(Looked) = Flush(Looked)
    BY DEF Picked
  <2> QED BY <2>7, <2>9, <2>10 DEF Picked
<1>2. CASE ~Probe
  <2>1. evicted' \subseteq evicted
    BY <1>2 DEF Next, NewRun, Advance, Linger, Stumble, CycleEnd, Resolve,
       Decide, Reconcile, marker
  <2> QED BY <1>2, <2>1, OthersAnswerNothing DEF NoAnswer, Stop
<1> QED BY <1>1, <1>2

\* A feature that has only its validation left is neither evicted nor left
\* waiting when the run ends for its budget.
THEOREM FinishLine == Spec => FinishLineIsReached
<1>1. IInv /\ [Next]_vars =>
        [/\ \A f \in evicted' \ evicted : ~NearComplete(f)
         /\ answer' = Stop("budget-deferred") =>
              \A f \in Feature \ evicted' : NearComplete(f) => Verdict(f) # "budget"]_vars
  BY FinishLineStep
<1> QED BY <1>1, AlwaysIInv, PTL DEF Spec, FinishLineIsReached
=============================================================================
