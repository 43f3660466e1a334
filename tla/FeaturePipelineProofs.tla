------------------------ MODULE FeaturePipelineProofs ------------------------
(***************************************************************************)
(* The completion claim of a feature and its receipt, for every PHASES.md  *)
(* a planner may write, every environment, and any number of crashes.      *)
(***************************************************************************)
EXTENDS FeaturePipeline, FiniteSetTheorems, SequenceTheorems, TLAPS

Writes == {"tick", "phases", "receipt", "spec", "top", "validated", "retro",
           "deferred", "queue", "roadmap"}

\* Where the write of SPEC.md is still to come, so is that of the receipt
\* before it, unless the receipt is there.
ReceiptFirst ==
  \A i \in DOMAIN todo :
    todo[i] = "spec" => Has("COMPLETED") \/ \E j \in 1 .. i - 1 : todo[j] = "receipt"

IInv ==
  /\ CompletionClaimHasReceipt
  /\ ReceiptFirst
  /\ todo \in Seq(Writes)

\* The tail of a feature and that of a bug begin with the receipt.
LEMMA TheTail ==
  /\ CompletionTail \in Seq(Writes) /\ CompletionTail # <<>>
  /\ Len(CompletionTail) \in {6, 8} /\ CompletionTail[1] = "receipt"
  /\ Tail(CompletionTail) \in Seq(Writes)
<1> DEFINE bug == <<"receipt", "spec", "top", "validated", "retro", "deferred">>
           feature == <<"receipt", "spec", "top", "validated", "retro", "deferred", "queue", "roadmap">>
<1>1. bug \in Seq(Writes) /\ Len(bug) = 6 /\ bug[1] = "receipt"
  BY DEF Writes
<1>2. feature \in Seq(Writes) /\ Len(feature) = 8 /\ feature[1] = "receipt"
  BY DEF Writes
<1>3. CompletionTail = bug \/ CompletionTail = feature
  BY DEF CompletionTail
<1> HIDE DEF bug, feature
<1>4. /\ CompletionTail \in Seq(Writes) /\ Len(CompletionTail) \in {6, 8}
      /\ CompletionTail[1] = "receipt"
  BY <1>1, <1>2, <1>3
<1>5. CompletionTail # <<>>
  BY <1>4, EmptySeq
<1> QED BY <1>4, <1>5, HeadTailProperties

\* There is more to write than the receipt.
LEMMA MoreFollows == Tail(CompletionTail) # <<>>
<1>1. CompletionTail \in Seq(Writes) /\ CompletionTail # <<>> /\ Len(CompletionTail) \in {6, 8}
  BY TheTail
<1>2. Len(Tail(CompletionTail)) = Len(CompletionTail) - 1
  BY <1>1, HeadTailProperties
<1> DEFINE n == Len(CompletionTail)
           t == Tail(CompletionTail)
<1>3. n = 6 \/ n = 8
  BY <1>1
<1>4. Len(t) = n - 1
  BY <1>2
<1> HIDE DEF n, t
<1>5. Len(t) # 0
  BY <1>3, <1>4
<1>6. t # <<>>
  BY <1>5
<1> QED BY <1>6 DEF t

\* The writes of a completion that starts from nothing: the receipt is the
\* third, SPEC.md the fourth.
LEMMA WholeSequence ==
  LET all == <<"tick", "phases">> \o CompletionTail
  IN  /\ all \in Seq(Writes)
      /\ \A i \in DOMAIN all : all[i] = "spec" => \E j \in 1 .. i - 1 : all[j] = "receipt"
<1> DEFINE first == <<"tick", "phases">>
           all == first \o CompletionTail
<1>1. first \in Seq(Writes) /\ Len(first) = 2 /\ first[1] = "tick" /\ first[2] = "phases"
  BY DEF Writes
<1>2. /\ CompletionTail \in Seq(Writes) /\ Len(CompletionTail) \in {6, 8}
      /\ CompletionTail[1] = "receipt"
  BY TheTail
<1> DEFINE last == Len(CompletionTail) + 2
<1> HIDE DEF first
<1>3. /\ all \in Seq(Writes) /\ Len(all) = last
      /\ \A i \in 1 .. last : all[i] = IF i <= 2 THEN first[i] ELSE CompletionTail[i - 2]
  <2>1. /\ all \in Seq(Writes)
        /\ Len(all) = Len(first) + Len(CompletionTail)
        /\ \A i \in 1 .. Len(first) + Len(CompletionTail) :
             all[i] = IF i <= Len(first) THEN first[i] ELSE CompletionTail[i - Len(first)]
    <3> HIDE DEF all
    <3>1. all = first \o CompletionTail
      BY DEF all
    <3> QED BY <1>1, <1>2, <3>1, ConcatProperties, Zenon
  <2> HIDE DEF all
  <2> QED BY <1>1, <1>2, <2>1
<1> HIDE DEF all
<1>4. DOMAIN all = 1 .. last
  BY <1>3, LenProperties
<1>5. all[1] = "tick" /\ all[2] = "phases" /\ all[3] = "receipt"
  BY <1>1, <1>2, <1>3
<1>6. ASSUME NEW i \in 1 .. last, all[i] = "spec" PROVE \E j \in 1 .. i - 1 : all[j] = "receipt"
  <2>1. i \notin {1, 2, 3}
    BY <1>5, <1>6
  <2>2. 3 \in 1 .. i - 1
    BY <2>1
  <2> QED BY <1>5, <2>2
<1> QED BY <1>3, <1>4, <1>6 DEF all, first

\* A feature starts with nothing complete.
LEMMA InitIInv == Init => IInv
BY DEF Init, IInv, CompletionClaimHasReceipt, ReceiptFirst

\* The steps that make no write of __mark_complete__ take no receipt away, and
\* declare nothing complete.
LEMMA OthersKeep ==
  ASSUME Probe \/ Skills \/ Operator \/ Handover \/ Drift
  PROVE  /\ UNCHANGED todo
         /\ Has("COMPLETED") => Has("COMPLETED")'
         /\ spec' = "Complete" => spec = "Complete"
<1>1. CASE Probe
  BY <1>1 DEF Probe, Has
<1>2. CASE Skills
  BY <1>2 DEF Skills, SpecSkill, RealignSkill, PlanFeature, WritePlan, ExecutePlan,
     McpTest, McpPasses, McpFallsShort, SpikeSkill, Done, Remove, Has
<1>3. CASE Operator
  BY <1>3 DEF Operator, Done, Remove, Halts, Has
<1>4. CASE Handover \/ Drift
  BY <1>4 DEF Handover, Drift, Has, content
<1> QED BY <1>1, <1>2, <1>3, <1>4

\* No other pseudo-skill takes the receipt or touches the status.
LEMMA PseudoKeeps ==
  ASSUME ProvisionalAccept \/ FlipPlan \/ WriteDeferred \/ GrantSkip
           \/ WriteFromSkip \/ WriteFromResults
  PROVE  /\ UNCHANGED <<todo, spec>>
         /\ Has("COMPLETED") => Has("COMPLETED")'
BY DEF ProvisionalAccept, FlipPlan, WriteDeferred, GrantSkip, WriteFromSkip,
   WriteFromResults, Done, Refused, Has

\* Every step keeps the receipt ahead of the claim.
LEMMA NextIInv == IInv /\ [Next]_vars => IInv'
<1> SUFFICES ASSUME IInv, [Next]_vars PROVE IInv'
  OBVIOUS
<1> USE DEF IInv
<1>1. ASSUME UNCHANGED todo, Has("COMPLETED") => Has("COMPLETED")',
             spec' = "Complete" => spec = "Complete"
      PROVE  IInv'
  BY <1>1 DEF CompletionClaimHasReceipt, ReceiptFirst
<1>2. CASE MarkComplete
  <2>1. UNCHANGED <<files, spec>>
    BY <1>2 DEF MarkComplete, content
  <2>2. CASE UNCHANGED todo
    BY <1>1, <2>1, <2>2 DEF Has
  <2>3. CASE Has("COMPLETED") /\ todo' = Tail(CompletionTail)
    BY <2>1, <2>3, TheTail DEF CompletionClaimHasReceipt, ReceiptFirst, Has
  <2>4. CASE todo' = <<"tick", "phases">> \o CompletionTail
    BY <2>1, <2>4, WholeSequence DEF CompletionClaimHasReceipt, ReceiptFirst, Has
  <2> QED BY <1>2, <2>2, <2>3, <2>4 DEF MarkComplete, Refused
<1>3. ASSUME todo # <<>>, todo' = Tail(todo),
             Has("COMPLETED") \/ Head(todo) = "receipt" => Has("COMPLETED")',
             spec' = "Complete" => spec = "Complete" \/ Head(todo) = "spec"
      PROVE  IInv'
  <2>1. /\ todo' \in Seq(Writes) /\ Len(todo') = Len(todo) - 1
        /\ \A i \in 1 .. Len(todo') : todo'[i] = todo[i + 1]
    BY <1>3, HeadTailProperties
  <2>2. Len(todo) \in Nat /\ DOMAIN todo = 1 .. Len(todo) /\ DOMAIN todo' = 1 .. Len(todo')
    BY <2>1, LenProperties
  <2>3. Head(todo) = todo[1] /\ 1 \in DOMAIN todo
    BY <1>3, <2>2, EmptySeq
  <2>4. CompletionClaimHasReceipt'
    <3>1. CASE Head(todo) = "spec"
      BY <1>3, <2>3, <3>1 DEF CompletionClaimHasReceipt, ReceiptFirst
    <3>2. CASE Head(todo) # "spec"
      BY <1>3, <3>2 DEF CompletionClaimHasReceipt
    <3> QED BY <3>1, <3>2
  <2>5. ReceiptFirst'
    <3>1. SUFFICES ASSUME NEW i \in DOMAIN todo', todo'[i] = "spec", ~Has("COMPLETED")'
                   PROVE  \E j \in 1 .. i - 1 : todo'[j] = "receipt"
      BY DEF ReceiptFirst
    <3>2. i + 1 \in DOMAIN todo /\ todo[i + 1] = "spec" /\ ~Has("COMPLETED")
      BY <1>3, <2>1, <2>2, <3>1
    <3>3. PICK j \in 1 .. i : todo[j] = "receipt"
      BY <3>2, <2>2 DEF ReceiptFirst
    <3>4. j # 1
      BY <1>3, <2>3, <3>1, <3>3
    <3>5. j - 1 \in 1 .. i - 1 /\ todo'[j - 1] = "receipt"
      BY <2>1, <2>2, <3>3, <3>4
    <3> QED BY <3>5
  <2> QED BY <2>1, <2>4, <2>5
<1>4. CASE AutoTick
  BY <1>3, <1>4 DEF AutoTick, Writing, Wrote, Has
<1>5. ASSUME todo' = <<>>, Has("COMPLETED") => Has("COMPLETED")', UNCHANGED spec PROVE IInv'
  BY <1>5 DEF CompletionClaimHasReceipt, ReceiptFirst
<1>6. CASE FlipOrRefuse
  <2>1. Has("COMPLETED") => Has("COMPLETED")'
    BY <1>6 DEF FlipOrRefuse, Has
  <2>2. UNCHANGED spec /\ todo # <<>> /\ Head(todo) = "phases"
    BY <1>6 DEF FlipOrRefuse, Writing
  <2>3. todo' = Tail(todo) \/ todo' = <<>>
    BY <1>6 DEF FlipOrRefuse, Wrote
  <2> QED BY <1>3, <1>5, <2>1, <2>2, <2>3
<1>7. CASE WriteTail
  <2>1. todo # <<>> /\ todo' = Tail(todo)
    BY <1>7 DEF WriteTail, Wrote
  <2>2. Has("COMPLETED") \/ Head(todo) = "receipt" => Has("COMPLETED")'
    <3>1. CASE Writing("receipt")
      BY <1>7, <3>1 DEF WriteTail, Writing, FileOf, Has
    <3>2. CASE ~Writing("receipt") /\ Head(todo) \in DOMAIN FileOf
      <4>1. FileOf[Head(todo)] # "COMPLETED"
        BY <3>2 DEF FileOf
      <4>2. files' = files \ {FileOf[Head(todo)]}
        BY <1>7, <3>2 DEF WriteTail
      <4> QED BY <2>1, <3>2, <4>1, <4>2 DEF Has, Writing
    <3>3. CASE ~Writing("receipt") /\ Head(todo) \notin DOMAIN FileOf
      BY <1>7, <2>1, <3>3 DEF WriteTail, Has, Writing
    <3> QED BY <3>1, <3>2, <3>3
  <2>3. spec' = "Complete" => spec = "Complete" \/ Head(todo) = "spec"
    BY <1>7 DEF WriteTail, Writing
  <2> QED BY <1>3, <2>1, <2>2, <2>3
<1>8. CASE Crash
  BY <1>5, <1>8 DEF Crash, content, Has
<1>9. CASE Probe \/ Skills \/ Operator \/ Handover \/ Drift
  BY <1>1, <1>9, OthersKeep
<1>10. CASE ProvisionalAccept \/ FlipPlan \/ WriteDeferred \/ GrantSkip
              \/ WriteFromSkip \/ WriteFromResults
  BY <1>1, <1>10, PseudoKeeps
<1>11. CASE UNCHANGED vars
  BY <1>1, <1>11 DEF vars, content, Has
<1> QED BY <1>2, <1>4, <1>6, <1>7, <1>8, <1>9, <1>10, <1>11 DEF Next, Pseudo

\* A SPEC.md that says Complete has its receipt, whenever __mark_complete__
\* dies, for every environment and every PHASES.md.
THEOREM ClaimHasReceipt == Spec => []CompletionClaimHasReceipt
<1>1. IInv => CompletionClaimHasReceipt
  BY DEF IInv
<1> QED BY <1>1, InitIInv, NextIInv, PTL DEF Spec

-----------------------------------------------------------------------------
(* What the proofs about PHASES.md say of the documents of this module. *)

\* (No document is built here: with no lines and no bounds that module's
\* assumption holds, and only its lemmas about documents are used, and about a
\* document that was sent to the gate.)
Gate == INSTANCE CompletionGateProofs WITH
  Lines <- {}, MaxLines <- 0, MaxTests <- 0,
  passed <- Evidence.count, structural <- (skip = "structural"), ledger <- {}, pc <- "sent"

RouterAt(d, i) == ScopeAt(EnterRouter, d, i)
CoverAt(d, i)  == ScopeAt(EnterCover, d, i)
ParseAt(d, i)  == ScopeAt(EnterParse, d, i)

\* The lemmas of that module are about these lines and these scopes.
LEMMA SameScanners ==
  /\ Gate!Line = Line
  /\ \A d, i : Gate!RouterAt(d, i) = RouterAt(d, i) /\ Gate!CoverAt(d, i) = CoverAt(d, i)
<1>1. Gate!Line = Line
  BY DEF Gate!Line, Line, Gate!Text, Text
<1>2. ASSUME NEW d, NEW i PROVE Gate!RouterAt(d, i) = RouterAt(d, i)
  BY DEF Gate!RouterAt, RouterAt, Gate!ScopeAt, ScopeAt, Gate!EnterRouter, EnterRouter,
     Gate!NoScope, NoScope, Gate!Names, Names, Gate!Titled, Titled,
     Gate!Supersedes, Supersedes, Gate!PlainBold, PlainBold
<1>3. ASSUME NEW d, NEW i PROVE Gate!CoverAt(d, i) = CoverAt(d, i)
  BY DEF Gate!CoverAt, CoverAt, Gate!ScopeAt, ScopeAt, Gate!EnterCover, EnterCover,
     Gate!NoScope, NoScope, Gate!Names, Names, Gate!Titled, Titled,
     Gate!Supersedes, Supersedes, Gate!PlainBold, PlainBold
<1> QED BY <1>1, <1>2, <1>3

\* The verification rows that this host could test.
Testable(d) == collect_uncovered(d).rows \ collect_uncovered(d).host

\* The sets of rows, by the scope of each.
LEMMA Rows ==
  ASSUME NEW d
  PROVE  /\ collect_uncovered(d).rows = {i \in OpenRows(d) : Collects(CoverAt(d, i), d[i])}
         /\ collect_uncovered(d).shim \subseteq collect_uncovered(d).rows
         /\ Testable(d) = {i \in OpenRows(d) : /\ Collects(CoverAt(d, i), d[i])
                                               /\ ~(CoverAt(d, i).host \/ d[i].host)}
         /\ Scan(EnterRouter, ExemptForRouter, d)
              = {i \in OpenRows(d) : ExemptForRouter(RouterAt(d, i), d[i])}
BY Zenon DEF collect_uncovered, Scan, CoverAt, RouterAt, Testable

\* What the cover collects the router holds for verification.
LEMMA CollectedIsExempt ==
  ASSUME NEW d \in Seq(Line), NEW i \in collect_uncovered(d).rows
  PROVE  i \in Scan(EnterRouter, ExemptForRouter, d)
<1>1. i \in OpenRows(d) /\ Collects(CoverAt(d, i), d[i])
  BY Rows
<1>2. i \in 0 .. Len(d)
  BY <1>1 DEF OpenRows
<1> DEFINE r == RouterAt(d, i)
           c == CoverAt(d, i)
<1>3. (c.superseded <=> r.superseded) /\ (c.verification <=> r.verification) /\ (c.shim => r.shim)
  <2>1. Gate!Agree(Gate!RouterAt(d, i), Gate!AutotickAt(d, i), Gate!LedgerAt(d, i),
                   Gate!ParseAt(d, i), Gate!CoverAt(d, i))
    <3>1. d \in Seq(Gate!Line)
      BY SameScanners
    <3> QED BY <1>2, <3>1, Gate!ScannersAgree
  <2>2. Gate!RouterAt(d, i) = r /\ Gate!CoverAt(d, i) = c
    BY SameScanners
  <2> HIDE DEF r, c
  <2> QED BY <2>1, <2>2, Zenon DEF Gate!Agree
<1>4. ExemptForRouter(r, d[i])
  BY <1>1, <1>3, Zenon DEF Collects, CanonicalRow, ExemptForRouter
<1> QED BY <1>1, <1>4, Rows

\* So a worker, who ticks and drops other rows only, leaves what is testable.
LEMMA WorkKeepsTestable ==
  ASSUME NEW d \in Seq(Line), NEW i \in OpenRows(d),
         i \notin Scan(EnterRouter, ExemptForRouter, d),
         NEW e, \/ e = [d EXCEPT ![i] = Ticked(@)]
                \/ e = [d EXCEPT ![i] = Descoped(@)]
  PROVE  e \in Seq(Line) /\ Testable(d) \subseteq Testable(e)
<1>1. i \in 1 .. Len(d) /\ d[i] \in Line /\ d[i].is = "row" /\ d[i].section = "none" /\ Len(d) \in Nat
  BY DEF OpenRows, OpenRow, Line
<1>2. PICK y : e = [d EXCEPT ![i] = y] /\ (y = Ticked(d[i]) \/ y = Descoped(d[i]))
  OBVIOUS
<1>3. y \in Line /\ y.is = "row"
  <2>1. CASE y = [d[i] EXCEPT !.value = "ticked"]
    BY <1>1, <2>1 DEF Line, Text
  <2>2. CASE y = [d[i] EXCEPT !.descoped = TRUE]
    BY <1>1, <2>2 DEF Line
  <2> QED BY <1>2, <2>1, <2>2 DEF Ticked, Descoped
<1>4. e \in Seq(Line) /\ Len(e) = Len(d) /\ e[i] = y /\ \A j \in 1 .. Len(d) : j # i => e[j] = d[j]
  BY <1>1, <1>2, <1>3
<1>5. ASSUME NEW j \in Testable(d) PROVE j \in Testable(e)
  <2>1. /\ j \in OpenRows(d) /\ Collects(CoverAt(d, j), d[j])
        /\ ~(CoverAt(d, j).host \/ d[j].host)
    BY Rows
  <2>2. j # i
    BY CollectedIsExempt DEF Testable
  <2>3. j \in 1 .. Len(d) /\ e[j] = d[j] /\ OpenRow(d[j])
    BY <1>4, <2>1, <2>2 DEF OpenRows
  <2>4. j \in OpenRows(e)
    BY <1>4, <2>3 DEF OpenRows
  <2>5. CoverAt(e, j) = CoverAt(d, j)
    <3>1. d \in Seq(Gate!Line) /\ e \in Seq(Gate!Line) /\ j \in 0 .. Len(d)
      BY <1>4, <2>3, SameScanners
    <3>2. \A k \in 1 .. Len(d) : Gate!Alike(d[k], e[k])
      BY <1>1, <1>3, <1>4 DEF Gate!Alike
    <3>3. Gate!CoverAt(e, j) = Gate!CoverAt(d, j)
      BY <1>4, <3>1, <3>2, Gate!TicksKeepScopes
    <3> QED BY <3>3, SameScanners
  <2> QED BY <2>1, <2>3, <2>4, <2>5, Rows
<1> QED BY <1>4, <1>5

\* The router asks for them when no passed test counts, and only for them.
LEMMA TestableRemain ==
  ASSUME NEW d \in Seq(Line)
  PROVE  /\ \A n : uncovered_verification_rows_remain(d, n) => Testable(d) # {}
         /\ Testable(d) # {} => uncovered_verification_rows_remain(d, 0)
<1> DEFINE c == collect_uncovered(d)
           canonical == c.rows \ c.shim
<1>1. c.shim \subseteq c.rows /\ c.rows \subseteq OpenRows(d)
  BY Rows
<1>2. ASSUME NEW n, uncovered_verification_rows_remain(d, n) PROVE Testable(d) # {}
  BY <1>1, <1>2 DEF uncovered_verification_rows_remain, Testable
<1>3. IsFiniteSet(canonical)
  <2>1. OpenRows(d) \in SUBSET (1 .. Len(d)) /\ IsFiniteSet(1 .. Len(d))
    BY FS_Interval DEF OpenRows
  <2>2. canonical \in SUBSET (1 .. Len(d))
    BY <1>1, <2>1
  <2> HIDE DEF canonical
  <2> QED BY <2>1, <2>2, FS_Subset
<1>4. Cardinality(canonical) <= 0 => canonical = {}
  <2> HIDE DEF canonical
  <2> QED BY <1>3, FS_CardinalityType, FS_EmptySet
<1>5. ASSUME Testable(d) # {} PROVE uncovered_verification_rows_remain(d, 0)
  <2>1. CASE Cardinality(canonical) <= 0
    <3>1. c.shim = c.rows
      BY <1>1, <1>4, <2>1
    <3> QED BY <1>5, <2>1, <3>1 DEF uncovered_verification_rows_remain, Testable
  <2>2. CASE ~(Cardinality(canonical) <= 0)
    BY <1>5, <2>2 DEF uncovered_verification_rows_remain, Testable
  <2> QED BY <2>1, <2>2
<1> QED BY <1>2, <1>5

\* A document stays one whatever the gate and the testers write into it.
LEMMA WritesKeepLines ==
  ASSUME NEW d \in Seq(Line)
  PROVE  /\ \A n : autotick_verification_rows(d, n) \in Seq(Line)
         /\ \A S : FlipPhases(d, S) \in Seq(Line)
         /\ \A v \in Text : FlipTop(d, v) \in Seq(Line)
         /\ \A S \in SUBSET OpenRows(d) :
              [i \in DOMAIN d |-> IF i \in S THEN Marked(d[i]) ELSE d[i]] \in Seq(Line)
<1> DEFINE Put(S, f) == [i \in DOMAIN d |-> IF i \in S THEN f[i] ELSE d[i]]
<1>1. ASSUME NEW S, NEW f, \A i \in S \cap DOMAIN d : f[i] \in Line
      PROVE  Put(S, f) \in Seq(Line)
  <2>1. DOMAIN d = 1 .. Len(d) /\ Len(d) \in Nat /\ \A i \in DOMAIN d : d[i] \in Line
    OBVIOUS
  <2>2. Put(S, f) \in [1 .. Len(d) -> Line]
    BY <1>1, <2>1
  <2> HIDE DEF Put
  <2> QED BY <2>1, <2>2, SeqDef
<1>2. \A i \in DOMAIN d : d[i] \in Line
  OBVIOUS
<1>3. ASSUME NEW x \in Line, NEW v \in Text PROVE [x EXCEPT !.value = v] \in Line
  BY DEF Line
<1>4. "audited" \in Text /\ "Complete" \in Text
  BY DEF Text
<1>5. ASSUME NEW n PROVE autotick_verification_rows(d, n) \in Seq(Line)
  <2> DEFINE f == [i \in DOMAIN d |-> Audited(d[i])]
  <2>1. Put(Tickable(d), f) \in Seq(Line)
    <3>1. \A i \in DOMAIN d : f[i] \in Line
      BY <1>2, <1>3, <1>4 DEF Audited
    <3> HIDE DEF f, Put
    <3> QED BY <1>1, <3>1
  <2>2. Put(Tickable(d), f) = [i \in DOMAIN d |-> IF i \in Tickable(d) THEN Audited(d[i]) ELSE d[i]]
    OBVIOUS
  <2> HIDE DEF f, Put
  <2> QED BY <2>1, <2>2 DEF autotick_verification_rows
<1>6. ASSUME NEW S, NEW v \in Text
      PROVE  [i \in DOMAIN d |-> IF i \in S THEN [d[i] EXCEPT !.value = v] ELSE d[i]] \in Seq(Line)
  <2> DEFINE g == [i \in DOMAIN d |-> [d[i] EXCEPT !.value = v]]
  <2>1. \A i \in DOMAIN d : g[i] \in Line
    BY <1>2, <1>3
  <2>2. Put(S, g) = [i \in DOMAIN d |-> IF i \in S THEN [d[i] EXCEPT !.value = v] ELSE d[i]]
    OBVIOUS
  <2>3. Put(S, g) \in Seq(Line)
    <3> HIDE DEF g, Put
    <3> QED BY <1>1, <2>1
  <2> QED BY <2>2, <2>3
<1> HIDE DEF Put
<1>7. ASSUME NEW S PROVE FlipPhases(d, S) \in Seq(Line)
  <2> DEFINE lines == UNION {FirstOf(d, p, "status") : p \in Namesakes(d, S)}
  <2>1. FlipPhases(d, S)
          = [i \in DOMAIN d |-> IF i \in lines THEN [d[i] EXCEPT !.value = "Complete"] ELSE d[i]]
    BY Zenon DEF FlipPhases
  <2> HIDE DEF lines
  <2> QED BY <1>4, <1>6, <2>1
<1>8. ASSUME NEW v \in Text PROVE FlipTop(d, v) \in Seq(Line)
  BY <1>6 DEF FlipTop
<1>9. ASSUME NEW S \in SUBSET OpenRows(d)
       PROVE  [i \in DOMAIN d |-> IF i \in S THEN Marked(d[i]) ELSE d[i]] \in Seq(Line)
  <2> DEFINE m == [i \in DOMAIN d |-> Marked(d[i])]
  <2>1. \A i \in S \cap DOMAIN d : m[i] \in Line
    <3>1. ASSUME NEW i \in OpenRows(d) PROVE Marked(d[i]) \in Line
      <4>1. d[i] \in Line /\ d[i].is = "row" /\ d[i].section = "none"
        BY <1>2 DEF OpenRows, OpenRow, Line
      <4> QED BY <4>1 DEF Marked, Line
    <3> QED BY <3>1
  <2>2. Put(S, m) \in Seq(Line)
    <3> HIDE DEF m, Put
    <3> QED BY <1>1, <2>1
  <2>3. Put(S, m) = [i \in DOMAIN d |-> IF i \in S THEN Marked(d[i]) ELSE d[i]]
    BY DEF Put
  <2> QED BY <2>2, <2>3
<1> QED BY <1>5, <1>7, <1>8, <1>9

-----------------------------------------------------------------------------
(* The router: which test decides. *)

Orders == {"skip", "halt", "block", "defer", "apply", "ask", "run"}

Steps ==
  {"complete", "completion-unverified", "cloud-saturated", "device-saturated",
   "unknown-host-capability", "host-saturated", "operator-deferred", "parked",
   "provisional_accept", "stale-upstream", "spike cap", "spike", "blocked",
   "blocked-misnamed", "needs-input", "needs-ratification", "needs-spec-input", "spec",
   "realign-spec", "needs-research", "plan-feature", "write-plan", "flip_plan_complete",
   "plan-structural-invalid", "execute-plan", "mcp-test", "device-queue-exhausted",
   "write_deferred_non_cloud", "write_validated_from_skip", "write_validated_from_results",
   "grant_skip_no_mcp_surface", "unexpected state", "cloud-queue-exhausted",
   "mark_complete", "fixed-unreconciled"}

Test == [when : BOOLEAN, do : Orders, what : Steps]

\* r is the first test of s that holds; none holds.
Decides(s, r) ==
  \E i \in DOMAIN s : s[i].when /\ r = s[i] /\ \A j \in 1 .. i - 1 : ~s[j].when

Silent(s) == \A i \in DOMAIN s : ~s[i].when

\* A set of numbers has a least one.
LEMMA Least ==
  ASSUME NEW S \in SUBSET Nat, S # {}
  PROVE  \E m \in S : \A n \in S : m <= n
<1> DEFINE T == {n \in Nat : \A k \in 0 .. n : k \notin S}
<1>1. SUFFICES ASSUME \A m \in S : \E n \in S : ~(m <= n) PROVE FALSE
  OBVIOUS
<1>2. 0 \in T
  BY <1>1
<1>3. ASSUME NEW n \in Nat, n \in T PROVE n + 1 \in T
  <2>1. ASSUME n + 1 \in S PROVE FALSE
    <3>1. PICK m \in S : ~(n + 1 <= m)
      BY <1>1, <2>1
    <3>2. m \in 0 .. n
      BY <3>1
    <3> QED BY <1>3, <3>2
  <2>2. \A k \in 0 .. n + 1 : k = n + 1 \/ k \in 0 .. n
    OBVIOUS
  <2> QED BY <1>3, <2>1, <2>2
<1>4. Nat \subseteq T
  <2> HIDE DEF T
  <2> QED BY <1>2, <1>3, Gate!SetInduction
<1>5. \A n \in Nat : n \notin S
  BY <1>4
<1> QED BY <1>5

\* The first of two lists decides, or it is silent and the second one does.
LEMMA InOrder ==
  ASSUME NEW s \in Seq(Test), NEW t \in Seq(Test)
  PROVE  /\ s \o t \in Seq(Test)
         /\ \A r : Decides(s \o t, r) => Decides(s, r) \/ (Silent(s) /\ Decides(t, r))
         /\ Silent(s \o t) => Silent(s) /\ Silent(t)
<1> DEFINE u == s \o t
           m == Len(s)
           n == Len(t)
<1>1. /\ u \in Seq(Test) /\ Len(u) = m + n
      /\ \A i \in 1 .. m + n : u[i] = IF i <= m THEN s[i] ELSE t[i - m]
  BY ConcatProperties, Zenon
<1>2. /\ m \in Nat /\ n \in Nat /\ DOMAIN s = 1 .. m /\ DOMAIN t = 1 .. n
      /\ DOMAIN u = 1 .. m + n
  BY <1>1, LenProperties
<1> HIDE DEF u, m, n
<1>3. \A i \in 1 .. m : i \in 1 .. m + n /\ u[i] = s[i]
  BY <1>1, <1>2
<1>4. \A i \in 1 .. n : i + m \in 1 .. m + n /\ u[i + m] = t[i]
  BY <1>1, <1>2
<1>5. ASSUME NEW r, Decides(u, r) PROVE Decides(s, r) \/ (Silent(s) /\ Decides(t, r))
  <2>1. PICK i \in 1 .. m + n : u[i].when /\ r = u[i] /\ \A j \in 1 .. i - 1 : ~u[j].when
    BY <1>2, <1>5 DEF Decides
  <2>2. CASE i <= m
    <3>1. i \in 1 .. m /\ \A j \in 1 .. i - 1 : j \in 1 .. m
      BY <1>2, <2>2
    <3> QED BY <1>2, <1>3, <2>1, <3>1 DEF Decides
  <2>3. CASE ~(i <= m)
    <3>1. i - m \in 1 .. n /\ (i - m) + m = i /\ (\A j \in 1 .. m : j \in 1 .. i - 1)
      BY <1>2, <2>3
    <3>2. \A j \in 1 .. (i - m) - 1 : j \in 1 .. n /\ j + m \in 1 .. i - 1
      BY <1>2, <2>3
    <3>3. u[i] = t[i - m]
      BY <1>4, <3>1
    <3>4. \A j \in 1 .. (i - m) - 1 : ~t[j].when
      BY <1>4, <2>1, <3>2
    <3>5. Silent(s)
      BY <1>2, <1>3, <2>1, <3>1 DEF Silent
    <3> QED BY <1>2, <2>1, <3>1, <3>3, <3>4, <3>5 DEF Decides
  <2> QED BY <2>2, <2>3
<1>6. Silent(u) => Silent(s) /\ Silent(t)
  BY <1>2, <1>3, <1>4 DEF Silent
<1> QED BY <1>1, <1>5, <1>6 DEF u

\* Where the last test holds, the first that holds decides.
LEMMA SomeTestDecides ==
  ASSUME NEW s \in Seq(Test), s # <<>>, s[Len(s)].when
  PROVE  Decides(s, s[CHOOSE i \in DOMAIN s : s[i].when /\ \A j \in 1 .. i - 1 : ~s[j].when])
<1>1. Len(s) \in Nat /\ DOMAIN s = 1 .. Len(s) /\ Len(s) \in DOMAIN s
  BY EmptySeq, LenProperties
<1> DEFINE S == {i \in DOMAIN s : s[i].when}
<1>2. PICK m \in S : \A n \in S : m <= n
  <2>1. S \in SUBSET Nat /\ S # {}
    BY <1>1
  <2> HIDE DEF S
  <2> QED BY <2>1, Least
<1>3. m \in DOMAIN s /\ s[m].when
  OBVIOUS
<1>4. \A j \in 1 .. m - 1 : ~s[j].when
  <2>1. ASSUME NEW j \in 1 .. m - 1, s[j].when PROVE FALSE
    <3>1. j \in S /\ ~(m <= j)
      BY <1>1, <1>3, <2>1
    <3> QED BY <1>2, <3>1
  <2> QED BY <2>1
<1> DEFINE first == CHOOSE i \in DOMAIN s : s[i].when /\ \A j \in 1 .. i - 1 : ~s[j].when
<1>5. first \in DOMAIN s /\ s[first].when /\ \A j \in 1 .. first - 1 : ~s[j].when
  BY <1>3, <1>4, Zenon
<1> QED BY <1>5, Zenon DEF Decides

\* The feature waits for a device, and the tests with it.
Waits == Has("DEFERRED_REQUIRES_DEVICE")

\* Nothing is left but verification.
OnlyChecks == Unchecked(doc) > 0 => remaining_unchecked_are_verification_only(doc)

\* What an answer of the router takes for granted.
Grounded(r) ==
  /\ r.what = "plan-feature" => doc = <<>>
  /\ r.what = "mcp-test" /\ Has("VALIDATED") => Waits \/ Uncovered
  /\ r.what = "mcp-test" => Waits \/ Passing \/ ~StructurallySkipped
  /\ r.what = "mcp-test" => Waits \/ Has("VALIDATED") \/ env.host # "cloud"
  /\ r.what = "grant_skip_no_mcp_surface" => StructurallySkipped /\ env.host # "cloud"
  /\ r.what = "write_validated_from_skip" => skip # "none" /\ Waived
  /\ r.what = "write_validated_from_results" => Passing /\ results.age # "other"
  /\ r.what = "mark_complete" =>
       /\ Has("VALIDATED") /\ ~Has("PROVISIONAL") /\ ~Waits /\ ~Uncovered /\ doc # <<>>
       /\ env.host = "cloud" \/ OnlyChecks

\* The answers it takes something for granted for.
Weighty == {"plan-feature", "mcp-test", "grant_skip_no_mcp_surface",
            "write_validated_from_skip", "write_validated_from_results", "mark_complete"}

\* The steps before the tests and the gate name neither.
LEMMA EarlySteps ==
  /\ Step2 \in Seq(Test) /\ \A r : Decides(Step2, r) => Grounded(r)
  /\ Step3 \in Seq(Test) /\ \A r : Decides(Step3, r) => Grounded(r)
  /\ Step4 \in Seq(Test) /\ \A r : Decides(Step4, r) => Grounded(r)
  /\ Step5 \in Seq(Test) /\ \A r : Decides(Step5, r) => Grounded(r)
  /\ Step6 \in Seq(Test) /\ \A r : Decides(Step6, r) => Grounded(r)
  /\ Silent(Step6) => doc # <<>>
  /\ Step7 \in Seq(Test) /\ \A r : Decides(Step7, r) => Grounded(r)
  /\ Silent(Step7) => env.host = "cloud" \/ OnlyChecks
<1> DEFINE Early(s) == \A i \in DOMAIN s : s[i].what \notin Weighty
<1>1. \A s : Early(s) => \A r : Decides(s, r) => Grounded(r)
  BY DEF Decides, Grounded, Weighty
<1> USE DEF To, Test, Orders, Steps, Weighty
<1>3. Step2 \in Seq(Test)
  BY DEF Step2, Has, Claimed, EffectivelyComplete
<1>4. Early(Step2)
  BY DEF Step2
<1>5. Step3 \in Seq(Test)
  BY DEF Step3, Has, Exhausted
<1>6. Early(Step3)
  <2>1. DOMAIN Step3 = 1 .. 7
    BY DEF Step3
  <2>2. \A i \in 1 .. 7 : i \in {1, 2, 3, 4, 5, 6, 7}
    OBVIOUS
  <2>3. /\ Step3[1].what = "stale-upstream" /\ Step3[2].what = "spike cap"
        /\ Step3[3].what = "spike" /\ Step3[4].what = "blocked"
        /\ Step3[5].what = "blocked-misnamed" /\ Step3[6].what = "needs-input"
        /\ Step3[7].what = "needs-ratification"
    BY DEF Step3
  <2> QED BY <2>1, <2>2, <2>3
<1>7. Step4 \in Seq(Test)
  BY DEF Step4, Has
<1>8. Early(Step4)
  BY DEF Step4
<1>9. Step5 \in Seq(Test) /\ Early(Step5)
  BY DEF Step5
<1>10. Step7 \in Seq(Test) /\ Early(Step7)
  BY DEF Step7
<1>11. Step6 \in Seq(Test)
  BY DEF Step6
<1>12. ASSUME NEW r, Decides(Step6, r) PROVE Grounded(r)
  <2>1. r = Step6[1] /\ Step6[1].when
    BY <1>12 DEF Decides, Step6
  <2>2. r.what = "plan-feature" /\ doc = <<>>
    BY <2>1 DEF Step6
  <2> QED BY <2>2 DEF Grounded
<1>13. Silent(Step6) => doc # <<>>
  <2>1. 1 \in DOMAIN Step6
    BY DEF Step6
  <2>2. Step6[1].when = (doc = <<>>)
    BY DEF Step6
  <2> QED BY <2>1, <2>2, Zenon DEF Silent
<1>14. Silent(Step7) => env.host = "cloud" \/ OnlyChecks
  <2>1. 5 \in DOMAIN Step7
    BY DEF Step7
  <2>2. Step7[5].when = (Unchecked(doc) > 0 /\ ~Bypass)
    BY DEF Step7
  <2>3. Silent(Step7) => ~(Unchecked(doc) > 0 /\ ~Bypass)
    BY <2>1, <2>2, Zenon DEF Silent
  <2> QED BY <2>3, Zenon DEF Bypass, OnlyChecks
<1> HIDE DEF Early
<1> QED BY <1>1, <1>3, <1>4, <1>5, <1>6, <1>7, <1>8, <1>9, <1>10, <1>11, <1>12, <1>13, <1>14

\* Step 9 tests what is not validated, or what waits for a device, and is
\* silent about neither.
LEMMA TestStep ==
  /\ Step9 \in Seq(Test) /\ \A r : Decides(Step9, r) => Grounded(r)
  /\ Silent(Step9) => ~Waits /\ (Has("VALIDATED") \/ env.host = "cloud")
<1>1. Step9 \in Seq(Test)
  BY DEF Step9, To, Test, Orders, Steps, Has, Waived, Passing, StructurallySkipped, Exhausted
<1>2. DOMAIN Step9 = 1 .. 11
  BY DEF Step9
<1>3. \A i \in 1 .. 11 : i \in {1, 2, 3, 4, 5, 6, 7, 8, 9, 10, 11}
  OBVIOUS
<1>4. /\ Step9[1].when => Waits
      /\ Step9[4].when <=> ~Has("VALIDATED") /\ skip # "none" /\ ~Waived
      /\ Step9[5].when <=> ~Has("VALIDATED") /\ skip # "none"
      /\ Step9[6].when <=> Step9[7].when /\ results.age = "other"
      /\ Step9[7].when <=> ~Has("VALIDATED") /\ ~(env.host = "cloud") /\ Passing
  BY DEF Step9, To, Waits
<1>5. Step9[2].when <=> Waits
  BY DEF Step9, To, Waits
<1>6. /\ Step9[9].when <=> ~Has("VALIDATED") /\ ~(env.host = "cloud")
      /\ Step9[8].when <=> Step9[9].when /\ StructurallySkipped
  BY DEF Step9, To
<1>7. /\ Step9[1].what = "mcp-test" /\ Step9[2].what = "device-queue-exhausted"
      /\ Step9[3].what = "write_deferred_non_cloud" /\ Step9[4].what = "needs-input"
      /\ Step9[5].what = "write_validated_from_skip" /\ Step9[6].what = "mcp-test"
      /\ Step9[7].what = "write_validated_from_results"
      /\ Step9[8].what = "grant_skip_no_mcp_surface" /\ Step9[9].what = "mcp-test"
      /\ Step9[10].what = "spike cap" /\ Step9[11].what = "spike"
  BY DEF Step9, To
<1>8. ASSUME NEW r, Decides(Step9, r) PROVE Grounded(r)
  <2>1. PICK i \in 1 .. 11 : Step9[i].when /\ r = Step9[i] /\ \A j \in 1 .. i - 1 : ~Step9[j].when
    BY <1>2, <1>8 DEF Decides
  <2>2. (i = 9 => ~Step9[8].when) /\ (i = 5 => ~Step9[4].when) /\ (i = 7 => ~Step9[6].when)
    BY <2>1
  <2>3. CASE i \in {2, 3, 4, 10, 11}
    BY <1>7, <2>1, <2>3 DEF Grounded
  <2>4. CASE i \in {1, 6, 9}
    BY <1>4, <1>6, <1>7, <2>1, <2>2, <2>4 DEF Grounded
  <2>5. CASE i \in {5, 7, 8}
    BY <1>4, <1>6, <1>7, <2>1, <2>2, <2>5 DEF Grounded
  <2> QED BY <1>3, <2>3, <2>4, <2>5
<1>9. Silent(Step9) => ~Step9[2].when /\ ~Step9[9].when
  BY <1>2 DEF Silent
<1> QED BY <1>1, <1>5, <1>6, <1>8, <1>9

\* After it, the gate is named for what is validated and covered.
LEMMA GateStep ==
  /\ Step10 \in Seq(Test) /\ Step10 # <<>> /\ Step10[Len(Step10)].when
  /\ Silent(Step9) /\ doc # <<>> /\ (env.host = "cloud" \/ OnlyChecks) =>
       \A r : Decides(Step10, r) => Grounded(r)
<1>1. Step10 \in Seq(Test) /\ Len(Step10) = 5
  BY DEF Step10, To, Test, Orders, Steps, Has, Uncovered, StructurallySkipped
<1>2. Step10 # <<>> /\ Step10[5].when
  BY DEF Step10, To
<1>3. DOMAIN Step10 = 1 .. 5 /\ \A i \in 1 .. 5 : i \in {1, 2, 3, 4, 5}
  BY DEF Step10
<1>4. /\ Step10[2].when = ~Has("VALIDATED") /\ Step10[4].when = Uncovered
      /\ Step10[3].when = Has("PROVISIONAL")
  BY DEF Step10, To
<1>5. /\ Step10[1].what = "unexpected state" /\ Step10[2].what = "cloud-queue-exhausted"
      /\ Step10[3].what = "needs-ratification" /\ Step10[4].what = "mcp-test"
      /\ Step10[5].what = "mark_complete"
  BY DEF Step10, To
<1>6. ASSUME Silent(Step9), doc # <<>>, env.host = "cloud" \/ OnlyChecks,
             NEW r, Decides(Step10, r)
      PROVE  Grounded(r)
  <2>1. PICK i \in 1 .. 5 : Step10[i].when /\ r = Step10[i] /\ \A j \in 1 .. i - 1 : ~Step10[j].when
    BY <1>3, <1>6 DEF Decides
  <2>2. CASE i \in {1, 2, 3}
    BY <1>5, <2>1, <2>2 DEF Grounded
  <2>3. CASE i = 4
    <3>1. ~Step10[2].when
      BY <2>1, <2>3
    <3> QED BY <1>4, <1>5, <2>1, <2>3, <3>1 DEF Grounded, Uncovered
  <2>4. CASE i = 5
    <3>1. ~Step10[2].when /\ ~Step10[3].when /\ ~Step10[4].when
      BY <2>1, <2>4
    <3> QED BY <1>4, <1>5, <1>6, <2>1, <2>4, <3>1, TestStep DEF Grounded
  <2> QED BY <1>3, <2>2, <2>3, <2>4
<1> QED BY <1>1, <1>2, <1>6

\* The same of the steps of a bug that are its own.
LEMMA BugSteps ==
  /\ BugStep4 \in Seq(Test) /\ \A r : Decides(BugStep4, r) => Grounded(r)
  /\ Silent(BugStep4) => doc # <<>>
  /\ BugStep7 \in Seq(Test) /\ \A r : Decides(BugStep7, r) => Grounded(r)
  /\ Silent(BugStep7) => env.host = "cloud" \/ OnlyChecks
  /\ BugStep10 \in Seq(Test) /\ BugStep10 # <<>> /\ BugStep10[Len(BugStep10)].when
  /\ Silent(Step9) /\ doc # <<>> /\ (env.host = "cloud" \/ OnlyChecks) =>
       \A r : Decides(BugStep10, r) => Grounded(r)
<1>1. BugStep4 \in Seq(Test)
  BY DEF BugStep4, To, Test, Orders, Steps, Has
<1>2. ASSUME NEW r, Decides(BugStep4, r) PROVE Grounded(r)
  <2>1. DOMAIN BugStep4 = 1 .. 3 /\ \A i \in 1 .. 3 : i \in {1, 2, 3}
    BY DEF BugStep4
  <2>2. BugStep4[2].when => doc = <<>>
    BY DEF BugStep4, To
  <2>3. /\ BugStep4[1].what = "fixed-unreconciled" /\ BugStep4[2].what = "plan-feature"
        /\ BugStep4[3].what = "spec"
    BY DEF BugStep4, To
  <2>4. PICK i \in 1 .. 3 : BugStep4[i].when /\ r = BugStep4[i]
    BY <1>2, <2>1 DEF Decides
  <2> QED BY <2>1, <2>2, <2>3, <2>4 DEF Grounded
<1>3. BugStep7 \in Seq(Test)
  BY DEF BugStep7, To, Test, Orders, Steps
<1>4. ASSUME NEW r, Decides(BugStep7, r) PROVE Grounded(r)
  <2>1. \A i \in DOMAIN BugStep7 : BugStep7[i].what \notin Weighty
    BY DEF BugStep7, To, Weighty
  <2> QED BY <1>4, <2>1 DEF Decides, Grounded, Weighty
<1>5. BugStep10 \in Seq(Test) /\ Len(BugStep10) = 4
  BY DEF BugStep10, To, Test, Orders, Steps, Has, Uncovered, StructurallySkipped
<1>6. BugStep10 # <<>> /\ BugStep10[4].when
  BY DEF BugStep10, To
<1>7. DOMAIN BugStep10 = 1 .. 4 /\ \A i \in 1 .. 4 : i \in {1, 2, 3, 4}
  BY DEF BugStep10
<1>8. /\ BugStep10[1].when = (env.host = "cloud" /\ ~Has("VALIDATED"))
      /\ BugStep10[2].when = Has("PROVISIONAL") /\ BugStep10[3].when = Uncovered
  BY DEF BugStep10, To
<1>9. /\ \A i \in {1, 2} : BugStep10[i].what \notin Weighty
      /\ BugStep10[3].what = "mcp-test" /\ BugStep10[4].what = "mark_complete"
  BY DEF BugStep10, To, Weighty
<1>10. ASSUME Silent(Step9), doc # <<>>, env.host = "cloud" \/ OnlyChecks,
              NEW r, Decides(BugStep10, r)
       PROVE  Grounded(r)
  <2>1. PICK i \in 1 .. 4 :
          BugStep10[i].when /\ r = BugStep10[i] /\ \A j \in 1 .. i - 1 : ~BugStep10[j].when
    BY <1>7, <1>10 DEF Decides
  <2>2. CASE i \in {1, 2}
    BY <1>9, <2>1, <2>2 DEF Grounded, Weighty
  <2>3. CASE i = 3
    <3>1. ~BugStep10[1].when
      BY <2>1, <2>3
    <3> QED BY <1>8, <1>9, <2>1, <2>3, <3>1 DEF Grounded, Uncovered
  <2>4. CASE i = 4
    <3>1. ~BugStep10[1].when /\ ~BugStep10[2].when /\ ~BugStep10[3].when
      BY <2>1, <2>4
    <3> QED BY <1>8, <1>9, <1>10, <2>1, <2>4, <3>1, TestStep DEF Grounded
  <2> QED BY <1>7, <2>2, <2>3, <2>4
<1>11. Silent(BugStep4) => doc # <<>>
  <2>1. 3 \in DOMAIN BugStep4
    BY DEF BugStep4
  <2>2. BugStep4[3].when = (doc = <<>>)
    BY DEF BugStep4, To
  <2> QED BY <2>1, <2>2, Zenon DEF Silent
<1>12. Silent(BugStep7) => env.host = "cloud" \/ OnlyChecks
  <2>1. 4 \in DOMAIN BugStep7
    BY DEF BugStep7
  <2>2. BugStep7[4].when = (Unchecked(doc) > 0 /\ ~Bypass)
    BY DEF BugStep7, To
  <2>3. Silent(BugStep7) => ~(Unchecked(doc) > 0 /\ ~Bypass)
    BY <2>1, <2>2, Zenon DEF Silent
  <2> QED BY <2>3, Zenon DEF Bypass, OnlyChecks
<1> QED BY <1>1, <1>2, <1>3, <1>4, <1>5, <1>6, <1>10, <1>11, <1>12

\* Tests of which each answer is grounded, asked before others that are
\* grounded once the last of the former is silent.
LEMMA Then ==
  ASSUME NEW s \in Seq(Test), NEW t \in Seq(Test), \A r : Decides(s, r) => Grounded(r),
         Silent(s) => \A r : Decides(t, r) => Grounded(r)
  PROVE  /\ s \o t \in Seq(Test) /\ \A r : Decides(s \o t, r) => Grounded(r)
         /\ Silent(s \o t) => Silent(s) /\ Silent(t)
         /\ t # <<>> /\ t[Len(t)].when =>
              (s \o t) # <<>> /\ (s \o t)[Len(s \o t)].when
<1>1. /\ s \o t \in Seq(Test) /\ \A r : Decides(s \o t, r) => Grounded(r)
      /\ Silent(s \o t) => Silent(s) /\ Silent(t)
  BY InOrder
<1>2. ASSUME t # <<>>, t[Len(t)].when PROVE (s \o t) # <<>> /\ (s \o t)[Len(s \o t)].when
  <2> DEFINE u == s \o t
  <2>1. /\ Len(u) = Len(s) + Len(t) /\ u \in Seq(Test)
        /\ \A i \in 1 .. Len(s) + Len(t) : u[i] = IF i <= Len(s) THEN s[i] ELSE t[i - Len(s)]
    BY ConcatProperties, Zenon
  <2>2. Len(s) \in Nat /\ Len(t) \in Nat /\ Len(t) # 0
    BY <1>2, EmptySeq
  <2> HIDE DEF u
  <2>3. Len(u) \in 1 .. Len(s) + Len(t) /\ ~(Len(u) <= Len(s)) /\ Len(u) - Len(s) = Len(t)
    BY <2>1, <2>2
  <2>4. u[Len(u)] = t[Len(t)] /\ u # <<>>
    BY <2>1, <2>2, <2>3
  <2> QED BY <1>2, <2>4 DEF u
<1> QED BY <1>1, <1>2

\* The router's answer is one of the tests, and grounded.
LEMMA RouteIsGrounded == Route \in Test /\ Grounded(Route)
<1>1. /\ FeatureTests \in Seq(Test) /\ FeatureTests # <<>> /\ FeatureTests[Len(FeatureTests)].when
      /\ \A r : Decides(FeatureTests, r) => Grounded(r)
  <2> DEFINE a == Step2 \o Step3
             b == a \o Step4
             c == b \o Step5
             d == c \o Step6
             e == d \o Step7
             f == e \o Step9
             g == f \o Step10
  <2>1. a \in Seq(Test) /\ \A r : Decides(a, r) => Grounded(r)
    BY EarlySteps, Then
  <2> HIDE DEF a
  <2>2. b \in Seq(Test) /\ \A r : Decides(b, r) => Grounded(r)
    BY <2>1, EarlySteps, Then
  <2> HIDE DEF b
  <2>3. c \in Seq(Test) /\ \A r : Decides(c, r) => Grounded(r)
    BY <2>2, EarlySteps, Then
  <2> HIDE DEF c
  <2>4. /\ d \in Seq(Test) /\ \A r : Decides(d, r) => Grounded(r)
        /\ Silent(d) => doc # <<>>
    BY <2>3, EarlySteps, Then
  <2> HIDE DEF d
  <2>5. /\ e \in Seq(Test) /\ \A r : Decides(e, r) => Grounded(r)
        /\ Silent(e) => doc # <<>> /\ (env.host = "cloud" \/ OnlyChecks)
    BY <2>4, EarlySteps, Then
  <2> HIDE DEF e
  <2>6. /\ f \in Seq(Test) /\ \A r : Decides(f, r) => Grounded(r)
        /\ Silent(f) => Silent(Step9) /\ doc # <<>> /\ (env.host = "cloud" \/ OnlyChecks)
    BY <2>5, TestStep, Then
  <2> HIDE DEF f
  <2>7. /\ g \in Seq(Test) /\ \A r : Decides(g, r) => Grounded(r)
        /\ g # <<>> /\ g[Len(g)].when
    BY <2>6, GateStep, Then
  <2> QED BY <2>7 DEF FeatureTests, a, b, c, d, e, f
<1>2. /\ BugTests \in Seq(Test) /\ BugTests # <<>> /\ BugTests[Len(BugTests)].when
      /\ \A r : Decides(BugTests, r) => Grounded(r)
  <2> DEFINE a == Step2 \o Step3
             b == a \o BugStep4
             c == b \o BugStep7
             d == c \o Step9
             e == d \o BugStep10
  <2>1. a \in Seq(Test) /\ \A r : Decides(a, r) => Grounded(r)
    BY EarlySteps, Then
  <2> HIDE DEF a
  <2>2. /\ b \in Seq(Test) /\ \A r : Decides(b, r) => Grounded(r)
        /\ Silent(b) => doc # <<>>
    BY <2>1, BugSteps, Then
  <2> HIDE DEF b
  <2>3. /\ c \in Seq(Test) /\ \A r : Decides(c, r) => Grounded(r)
        /\ Silent(c) => doc # <<>> /\ (env.host = "cloud" \/ OnlyChecks)
    BY <2>2, BugSteps, Then
  <2> HIDE DEF c
  <2>4. /\ d \in Seq(Test) /\ \A r : Decides(d, r) => Grounded(r)
        /\ Silent(d) => Silent(Step9) /\ doc # <<>> /\ (env.host = "cloud" \/ OnlyChecks)
    BY <2>3, TestStep, Then
  <2> HIDE DEF d
  <2>5. /\ e \in Seq(Test) /\ \A r : Decides(e, r) => Grounded(r)
        /\ e # <<>> /\ e[Len(e)].when
    BY <2>4, BugSteps, Then
  <2> QED BY <2>5 DEF BugTests, BugStep2, BugStep3, BugStep9, a, b, c, d
<1> DEFINE tests == IF env.bug THEN BugTests ELSE FeatureTests
<1>3. /\ tests \in Seq(Test) /\ tests # <<>> /\ tests[Len(tests)].when
      /\ \A r : Decides(tests, r) => Grounded(r)
  BY <1>1, <1>2
<1> HIDE DEF tests
<1>4. Decides(tests, tests[CHOOSE i \in DOMAIN tests :
                             tests[i].when /\ \A j \in 1 .. i - 1 : ~tests[j].when])
  BY <1>3, SomeTestDecides
<1>5. Route = tests[CHOOSE i \in DOMAIN tests :
                      tests[i].when /\ \A j \in 1 .. i - 1 : ~tests[j].when]
  BY Zenon DEF Route, tests
<1>6. Decides(tests, Route)
  BY <1>4, <1>5, Zenon
<1> QED BY <1>3, <1>6 DEF Decides

-----------------------------------------------------------------------------
(* Receipts are earned. *)

\* What a receipt stands for: tests that passed, or an excuse of someone else's.
Earned == results.result \in {"passing", "gap"} \/ skip \notin {"none", "pipeline"}

\* The feature has verification rows that this host could test.
Owing == ~StructurallySkipped /\ Testable(doc) # {}

PipelineTypes ==
  /\ doc \in Seq(Line) /\ env \in Env
  /\ results \in [result : {"none", "passing", "gap", "partial"}, count : Nat,
                  age : {"current", "other"}]
  /\ route \in [do : Orders \cup {"none", "refused"}, what : Steps \cup {"none"}, fresh : BOOLEAN]

\* A validation whose tests no longer pass still owes them, or waits.
ValidationStands ==
  Has("VALIDATED") /\ ~Has("COMPLETED") /\ ~Earned => Waits \/ Owing

\* What the router said is still grounded when it is done.
AnswerStands ==
  /\ Running("plan-feature") => doc = <<>>
  /\ Running("mcp-test") /\ Has("VALIDATED") => Has("COMPLETED") \/ Waits \/ Owing
  /\ Applying("mark_complete") => Has("COMPLETED") \/ Earned

\* A completion under way is one that may be.
WritingStands == todo # <<>> => route.do = "apply" /\ (Has("COMPLETED") \/ Earned)

EarnedInv == PipelineTypes /\ ValidationStands /\ AnswerStands /\ WritingStands

\* No rows, nothing to test.
LEMMA EmptyOwesNothing == doc = <<>> => ~Owing
<1>1. Testable(doc) \subseteq OpenRows(doc)
  BY Rows
<1>2. doc = <<>> => OpenRows(doc) = {}
  BY DEF OpenRows
<1> QED BY <1>1, <1>2 DEF Owing

\* The router sends to the tests what owes them; and all that owes them, as
\* long as no passed test counts.
LEMMA UncoveredOwes ==
  ASSUME doc \in Seq(Line)
  PROVE  (Uncovered => Owing) /\ (Owing /\ ~Earned => Uncovered)
<1>1. ASSUME Uncovered PROVE Owing
  BY <1>1, TestableRemain DEF Uncovered, Owing
<1>2. ASSUME Owing, ~Earned PROVE Uncovered
  <2>1. results.result # "gap" /\ Evidence.count = 0
    BY <1>2 DEF Earned, Evidence, Passing
  <2>2. uncovered_verification_rows_remain(doc, Evidence.count)
    BY <1>2, <2>1, TestableRemain DEF Owing
  <2> QED BY <1>2, <2>1, <2>2 DEF Uncovered, Owing
<1> QED BY <1>1, <1>2

\* The invariant from its parts when the step leaves no completion under way
\* and no order of the router.
LEMMA Returned ==
  ASSUME PipelineTypes', ValidationStands', todo' = <<>>, route'.do \notin {"run", "apply"}
  PROVE  EarnedInv'
BY DEF EarnedInv, AnswerStands, WritingStands, Running, Applying

LEMMA EarnedInit == Init => EarnedInv
<1> SUFFICES ASSUME Init PROVE EarnedInv
  OBVIOUS
<1>1. PipelineTypes
  BY FeaturePipelineAssumption DEF Init, PipelineTypes, NoResults, Idle
<1>2. ~Has("VALIDATED")
  BY FeaturePipelineAssumption DEF Init, Has, Env
<1>3. todo = <<>> /\ route.do = "none"
  BY DEF Init, Idle
<1> QED BY <1>1, <1>2, <1>3 DEF EarnedInv, ValidationStands, AnswerStands, WritingStands, Running, Applying

\* A probe says what is grounded.
LEMMA ProbeStep == EarnedInv /\ Probe => EarnedInv'
<1> SUFFICES ASSUME EarnedInv, Probe PROVE EarnedInv'
  OBVIOUS
<1> USE DEF EarnedInv
<1>1. /\ route' = [do |-> Route.do, what |-> Route.what, fresh |-> TRUE]
      /\ todo = <<>> /\ UNCHANGED <<env, doc, skip, results, todo>>
  BY DEF Probe
<1>2. \A f \in {"VALIDATED", "COMPLETED", "DEFERRED_REQUIRES_DEVICE"} : f \in files' <=> f \in files
  BY DEF Probe
<1>3. /\ (Has("VALIDATED")' <=> Has("VALIDATED")) /\ (Has("COMPLETED")' <=> Has("COMPLETED"))
      /\ (Waits' <=> Waits)
  BY <1>2 DEF Has, Waits
<1>4. (Earned' <=> Earned) /\ (Owing' <=> Owing)
  BY <1>1 DEF Earned, Owing, StructurallySkipped
<1>5. Route \in Test /\ Grounded(Route)
  BY RouteIsGrounded
<1>6. PipelineTypes'
  BY <1>1, <1>5 DEF PipelineTypes, Test
<1>7. ValidationStands'
  BY <1>3, <1>4 DEF ValidationStands
<1>8. (Uncovered => Owing) /\ (Owing /\ ~Earned => Uncovered)
  BY UncoveredOwes DEF PipelineTypes
<1>9. AnswerStands'
  <2>1. (Running("plan-feature") => doc = <<>>)'
    BY <1>1, <1>5 DEF Running, Grounded
  <2>2. (Running("mcp-test") /\ Has("VALIDATED") => Has("COMPLETED") \/ Waits \/ Owing)'
    BY <1>1, <1>3, <1>4, <1>5, <1>8 DEF Running, Grounded
  <2>3. (Applying("mark_complete") => Has("COMPLETED") \/ Earned)'
    BY <1>1, <1>3, <1>4, <1>5, <1>8 DEF Applying, Grounded, ValidationStands
  <2> QED BY <2>1, <2>2, <2>3 DEF AnswerStands
<1>10. WritingStands'
  BY <1>1 DEF WritingStands
<1> QED BY <1>6, <1>7, <1>9, <1>10

\* The calls of skills end: what they leave is judged by the next probe.
LEMMA SkillStep == EarnedInv /\ Skills => EarnedInv'
<1> SUFFICES ASSUME EarnedInv, Skills PROVE EarnedInv'
  OBVIOUS
<1> USE DEF EarnedInv
<1>1. Done /\ todo = <<>>
  BY DEF Skills, SpecSkill, RealignSkill, PlanFeature, WritePlan, ExecutePlan, McpTest,
     McpPasses, McpFallsShort, SpikeSkill, Running
<1>2. todo' = <<>> /\ route' = Idle /\ env' = env
  BY <1>1 DEF Done
<1>3. ASSUME doc' \in Seq(Line),
             results' \in [result : {"none", "passing", "gap", "partial"}, count : Nat,
                           age : {"current", "other"}],
             ValidationStands'
      PROVE  EarnedInv'
  <2>1. PipelineTypes'
    BY <1>2, <1>3 DEF PipelineTypes, Idle
  <2> QED BY <1>2, <1>3, <2>1, Returned DEF Idle
<1>4. ASSUME UNCHANGED <<doc, results, skip>>,
             Has("VALIDATED")' => Has("VALIDATED"),
             Has("COMPLETED") => Has("COMPLETED")', Waits => Waits'
      PROVE  EarnedInv'
  <2>1. (Earned' <=> Earned) /\ (Owing' <=> Owing)
    BY <1>2, <1>4 DEF Earned, Owing, StructurallySkipped
  <2>2. ValidationStands'
    BY <1>4, <2>1 DEF ValidationStands
  <2> QED BY <1>3, <1>4, <2>2 DEF PipelineTypes
<1>5. CASE SpecSkill \/ RealignSkill \/ WritePlan \/ SpikeSkill
  <2>1. UNCHANGED <<doc, results, skip>>
    BY <1>5 DEF SpecSkill, RealignSkill, WritePlan, SpikeSkill
  <2>2. \A f \in {"VALIDATED", "COMPLETED", "DEFERRED_REQUIRES_DEVICE"} : f \in files' <=> f \in files
    BY <1>5 DEF SpecSkill, RealignSkill, WritePlan, SpikeSkill, Remove
  <2> QED BY <1>4, <2>1, <2>2 DEF Has, Waits
<1>6. CASE PlanFeature
  <2>1. doc' \in Seq(Line) /\ UNCHANGED <<files, results, skip>>
    BY <1>6, FeaturePipelineAssumption DEF PlanFeature
  <2>2. ~Owing
    BY <1>6, EmptyOwesNothing DEF PlanFeature, AnswerStands
  <2>3. ValidationStands'
    BY <2>1, <2>2 DEF ValidationStands, Has, Waits, Earned
  <2> QED BY <1>3, <2>1, <2>3 DEF PipelineTypes
<1>7. CASE ExecutePlan
  <2>1. /\ skip' = skip /\ (results' = Aged \/ results' = results)
        /\ \/ doc' = doc
           \/ \E i \in OpenRows(doc) : /\ i \notin Scan(EnterRouter, ExemptForRouter, doc)
                                       /\ \/ doc' = [doc EXCEPT ![i] = Ticked(@)]
                                          \/ doc' = [doc EXCEPT ![i] = Descoped(@)]
    BY <1>7 DEF ExecutePlan
  <2>2. \A f \in {"VALIDATED", "COMPLETED", "DEFERRED_REQUIRES_DEVICE"} : f \in files' <=> f \in files
    BY <1>7 DEF ExecutePlan
  <2>3. /\ results' \in [result : {"none", "passing", "gap", "partial"}, count : Nat,
                          age : {"current", "other"}]
        /\ results'.result = results.result
    BY <2>1 DEF Aged, PipelineTypes
  <2>4. doc' \in Seq(Line) /\ Testable(doc) \subseteq Testable(doc')
    BY <2>1, WorkKeepsTestable DEF PipelineTypes
  <2>5. (Earned' <=> Earned) /\ (Owing => Owing')
    BY <1>2, <2>1, <2>3, <2>4 DEF Earned, Owing, StructurallySkipped
  <2>6. ValidationStands'
    BY <2>2, <2>5 DEF ValidationStands, Has, Waits
  <2> QED BY <1>3, <2>3, <2>4, <2>6
<1>8. ASSUME NEW n \in 0 .. MaxTests, McpPasses(n) PROVE EarnedInv'
  <2>1. results' = [result |-> "passing", count |-> n, age |-> "current"] /\ doc' = Migrated
    BY <1>8 DEF McpPasses
  <2>2. n \in Nat
    BY <1>8, FeaturePipelineAssumption
  <2>3. collect_uncovered(doc).shim \in SUBSET OpenRows(doc)
    BY Rows
  <2>4. doc' \in Seq(Line)
    BY <2>1, <2>3, WritesKeepLines DEF Migrated, PipelineTypes
  <2>5. ValidationStands'
    BY <2>1 DEF ValidationStands, Earned
  <2> QED BY <1>3, <2>1, <2>2, <2>4, <2>5
<1>9. CASE McpFallsShort
  <2>1. doc' = doc /\ (Owing' <=> Owing) /\ Running("mcp-test")
    BY <1>2, <1>9 DEF McpFallsShort, Owing, StructurallySkipped
  <2>2. \A f \in {"VALIDATED", "COMPLETED"} : f \in files' <=> f \in files
    BY <1>9 DEF McpFallsShort
  <2>3. "DEFERRED_REQUIRES_DEVICE" \in files => "DEFERRED_REQUIRES_DEVICE" \in files'
    BY <1>9 DEF McpFallsShort
  <2>4. ValidationStands'
    BY <2>1, <2>2, <2>3 DEF ValidationStands, AnswerStands, Has, Waits
  <2>5. results' \in [result : {"none", "passing", "gap", "partial"}, count : Nat,
                      age : {"current", "other"}]
    BY <1>9 DEF McpFallsShort, PipelineTypes
  <2> QED BY <1>3, <2>1, <2>4, <2>5 DEF PipelineTypes
<1> QED BY <1>5, <1>6, <1>7, <1>8, <1>9 DEF Skills, McpTest

\* People and other work do not touch what a validation stands on.
LEMMA OthersStep == EarnedInv /\ (Operator \/ Handover \/ Drift) => EarnedInv'
<1> SUFFICES ASSUME EarnedInv, Operator \/ Handover \/ Drift PROVE EarnedInv'
  OBVIOUS
<1> USE DEF EarnedInv
<1>1. CASE Operator
  <2>1. /\ todo' = <<>> /\ route' = Idle /\ UNCHANGED <<env, doc, results>>
        /\ skip' = skip \/ skip' = "operator"
    BY <1>1 DEF Operator, Done
  <2>2. \A f \in {"VALIDATED", "COMPLETED", "DEFERRED_REQUIRES_DEVICE"} : f \in files' <=> f \in files
    BY <1>1 DEF Operator, Remove, Halts
  <2>3. (Earned => Earned') /\ (Owing' <=> Owing)
    BY <2>1 DEF Earned, Owing, StructurallySkipped
  <2>4. ValidationStands'
    BY <2>2, <2>3 DEF ValidationStands, Has, Waits
  <2>5. PipelineTypes'
    BY <2>1 DEF PipelineTypes, Idle
  <2> QED BY <2>1, <2>4, <2>5, Returned DEF Idle
<1>2. CASE Handover
  <2>1. /\ route' = Idle /\ UNCHANGED <<doc, results, skip, files, todo>>
        /\ env' = [env EXCEPT !.host = Awaits]
    BY <1>2 DEF Handover, content
  <2>2. todo = <<>>
    BY <1>2 DEF Handover, WritingStands
  <2>3. Awaits \in {"cloud", "workstation", "device"} /\ env \in Env
    BY DEF Awaits, PipelineTypes, Env
  <2>4. env' \in Env /\ env'.notRequired = env.notRequired /\ env'.surface = env.surface
    BY <2>1, <2>3 DEF Env
  <2>5. PipelineTypes'
    BY <2>1, <2>4 DEF PipelineTypes, Idle
  <2>6. ValidationStands'
    BY <2>1, <2>4 DEF ValidationStands, Has, Waits, Earned, Owing, StructurallySkipped
  <2> QED BY <2>1, <2>2, <2>5, <2>6, Returned DEF Idle
<1>3. CASE Drift
  <2>1. /\ UNCHANGED <<env, doc, skip, files, todo>> /\ todo = <<>>
        /\ results' = Aged /\ route' = [route EXCEPT !.fresh = FALSE]
    BY <1>3 DEF Drift
  <2>2. /\ results' \in [result : {"none", "passing", "gap", "partial"}, count : Nat,
                          age : {"current", "other"}]
        /\ results'.result = results.result
    BY <2>1 DEF Aged, PipelineTypes
  <2>3. /\ route'.do = route.do /\ route'.what = route.what
        /\ route' \in [do : Orders \cup {"none", "refused"}, what : Steps \cup {"none"},
                        fresh : BOOLEAN]
    BY <2>1 DEF PipelineTypes
  <2>4. (Earned' <=> Earned) /\ (Owing' <=> Owing)
    BY <2>1, <2>2 DEF Earned, Owing, StructurallySkipped
  <2> QED BY <2>1, <2>2, <2>3, <2>4 DEF PipelineTypes, ValidationStands, AnswerStands,
             WritingStands, Has, Waits, Running, Applying
<1> QED BY <1>1, <1>2, <1>3

\* A pseudo-skill writes VALIDATED.md for a feature that earned it.
LEMMA PseudoStep ==
  /\ EarnedInv
  /\ \/ ProvisionalAccept \/ FlipPlan \/ WriteDeferred \/ GrantSkip
     \/ WriteFromSkip \/ WriteFromResults
  => EarnedInv'
<1> SUFFICES ASSUME EarnedInv, \/ ProvisionalAccept \/ FlipPlan \/ WriteDeferred \/ GrantSkip
                               \/ WriteFromSkip \/ WriteFromResults
             PROVE  EarnedInv'
  OBVIOUS
<1> USE DEF EarnedInv
<1>1. /\ todo' = <<>> /\ UNCHANGED <<env, doc, results>>
      /\ route' = Idle \/ route' = [route EXCEPT !.do = "refused"]
  BY DEF ProvisionalAccept, FlipPlan, WriteDeferred, GrantSkip, WriteFromSkip,
     WriteFromResults, Done, Refused, Applying
<1>2. PipelineTypes' /\ route'.do \notin {"run", "apply"}
  <2> DEFINE Routes == [do : Orders \cup {"none", "refused"}, what : Steps \cup {"none"},
                        fresh : BOOLEAN]
  <2>1. route' \in Routes /\ route'.do \in {"none", "refused"}
    <3>1. CASE route' = Idle
      BY <3>1 DEF Idle
    <3>2. CASE route' = [route EXCEPT !.do = "refused"]
      BY <3>2 DEF PipelineTypes
    <3> QED BY <1>1, <3>1, <3>2
  <2> QED BY <1>1, <2>1 DEF PipelineTypes
<1>3. Owing' <=> Owing
  BY <1>1 DEF Owing, StructurallySkipped
<1>4. CASE ProvisionalAccept \/ FlipPlan \/ WriteDeferred
  <2>1. /\ UNCHANGED skip
        /\ \A f \in {"VALIDATED", "COMPLETED", "DEFERRED_REQUIRES_DEVICE"} : f \in files' <=> f \in files
    BY <1>4 DEF ProvisionalAccept, FlipPlan, WriteDeferred
  <2>2. ValidationStands'
    BY <1>1, <1>3, <2>1 DEF ValidationStands, Has, Waits, Earned
  <2> QED BY <1>1, <1>2, <2>2, Returned
<1>5. CASE GrantSkip
  <2>1. UNCHANGED files /\ (skip' = skip \/ skip' = "structural")
    BY <1>5 DEF GrantSkip
  <2>2. ValidationStands'
    BY <1>1, <1>3, <2>1 DEF ValidationStands, Has, Waits, Earned
  <2> QED BY <1>1, <1>2, <2>2, Returned
<1>6. CASE WriteFromSkip \/ WriteFromResults
  <2>1. UNCHANGED skip /\ (UNCHANGED files \/ Earned)
    BY <1>6 DEF WriteFromSkip, WriteFromResults, Waived, MayValidate, Passing, Earned
  <2>2. Earned' <=> Earned
    BY <1>1, <2>1 DEF Earned
  <2>3. ValidationStands'
    BY <1>3, <2>1, <2>2 DEF ValidationStands, Has, Waits
  <2> QED BY <1>1, <1>2, <2>3, Returned
<1> QED BY <1>4, <1>5, <1>6

\* __mark_complete__ goes on as it began.
LEMMA CompletionStep ==
  EarnedInv /\ (MarkComplete \/ AutoTick \/ FlipOrRefuse \/ WriteTail \/ Crash) => EarnedInv'
<1> SUFFICES ASSUME EarnedInv, MarkComplete \/ AutoTick \/ FlipOrRefuse \/ WriteTail \/ Crash
             PROVE  EarnedInv'
  OBVIOUS
<1> USE DEF EarnedInv
<1>1. Has("COMPLETED") \/ Earned \/ Crash
  <2>1. MarkComplete => Applying("mark_complete")
    BY DEF MarkComplete
  <2>2. AutoTick \/ FlipOrRefuse \/ WriteTail => todo # <<>>
    BY DEF AutoTick, FlipOrRefuse, WriteTail, Writing
  <2> QED BY <2>1, <2>2 DEF AnswerStands, WritingStands
<1>2. /\ UNCHANGED <<env, results, skip>>
      /\ Has("COMPLETED") => Has("COMPLETED")'
  <2>1. CASE MarkComplete \/ Crash
    BY <2>1 DEF MarkComplete, Crash, content, Refused, Has
  <2>2. CASE AutoTick \/ FlipOrRefuse
    BY <2>2 DEF AutoTick, FlipOrRefuse, Has
  <2>3. CASE WriteTail
    <3>1. CASE Head(todo) \in DOMAIN FileOf
      <4>1. FileOf[Head(todo)] # "COMPLETED" /\ ~Writing("receipt")
        BY <3>1 DEF FileOf, Writing
      <4> QED BY <2>3, <3>1, <4>1 DEF WriteTail, Has
    <3>2. CASE Head(todo) \notin DOMAIN FileOf
      BY <2>3, <3>2 DEF WriteTail, Has
    <3> QED BY <2>3, <3>1, <3>2 DEF WriteTail
  <2> QED BY <2>1, <2>2, <2>3
<1>3. doc' \in Seq(Line)
  <2>1. CASE MarkComplete \/ Crash
    BY <2>1 DEF MarkComplete, Crash, content, Refused, PipelineTypes
  <2>2. CASE AutoTick
    BY <2>2, WritesKeepLines DEF AutoTick, PipelineTypes
  <2>3. CASE FlipOrRefuse
    BY <2>3, WritesKeepLines DEF FlipOrRefuse, PipelineTypes
  <2>4. CASE WriteTail
    <3>1. Claim \in Text
      BY DEF Claim, Text
    <3> QED BY <2>4, <3>1, WritesKeepLines DEF WriteTail, PipelineTypes
  <2> QED BY <2>1, <2>2, <2>3, <2>4
<1>4. \/ todo' = <<>> /\ (route' = Idle \/ route' = [route EXCEPT !.do = "refused"])
      \/ todo' # <<>> /\ route' = route
  <2>1. CASE MarkComplete
    <3>1. Tail(CompletionTail) # <<>>
      BY MoreFollows
    <3>2. <<"tick", "phases">> \o CompletionTail # <<>>
      <4>1. /\ <<"tick", "phases">> \in Seq(Writes) /\ Len(<<"tick", "phases">>) = 2
            /\ CompletionTail \in Seq(Writes) /\ Len(CompletionTail) \in Nat
        BY TheTail DEF Writes
      <4>2. Len(<<"tick", "phases">> \o CompletionTail) = 2 + Len(CompletionTail)
        BY <4>1, ConcatProperties
      <4> QED BY <4>1, <4>2, EmptySeq
    <3> QED BY <2>1, <3>1, <3>2 DEF MarkComplete, Refused, Applying
  <2>2. CASE AutoTick \/ FlipOrRefuse \/ WriteTail
    BY <2>2 DEF AutoTick, FlipOrRefuse, WriteTail, Wrote
  <2>3. CASE Crash
    BY <2>3 DEF Crash
  <2> QED BY <2>1, <2>2, <2>3
<1>5. PipelineTypes' /\ (todo' = <<>> => route'.do \notin {"run", "apply"})
  <2>1. route \in [do : Orders \cup {"none", "refused"}, what : Steps \cup {"none"}, fresh : BOOLEAN]
    BY DEF PipelineTypes
  <2>2. /\ route' \in [do : Orders \cup {"none", "refused"}, what : Steps \cup {"none"},
                        fresh : BOOLEAN]
        /\ todo' = <<>> => route'.do \notin {"run", "apply"}
    <3>1. CASE route' = Idle
      BY <3>1 DEF Idle
    <3>2. CASE route' = [route EXCEPT !.do = "refused"]
      BY <2>1, <3>2
    <3>3. CASE todo' # <<>> /\ route' = route
      BY <2>1, <3>3
    <3> QED BY <1>4, <3>1, <3>2, <3>3
  <2> QED BY <1>2, <1>3, <2>2 DEF PipelineTypes
<1>6. Earned' <=> Earned
  BY <1>2 DEF Earned
<1>7. ValidationStands'
  <2>1. CASE Has("COMPLETED") \/ Earned
    BY <1>2, <1>6, <2>1 DEF ValidationStands
  <2>2. CASE Crash
    BY <2>2 DEF Crash, content, ValidationStands, Has, Waits, Earned, Owing, StructurallySkipped
  <2> QED BY <1>1, <2>1, <2>2
<1>8. CASE todo' = <<>>
  BY <1>5, <1>7, <1>8, Returned
<1>9. CASE todo' # <<>>
  <2>1. route.do = "apply" /\ ~Crash
    BY <1>4, <1>9 DEF MarkComplete, AutoTick, FlipOrRefuse, WriteTail, Writing, Crash,
       Applying, WritingStands
  <2>2. WritingStands'
    BY <1>1, <1>2, <1>4, <1>6, <1>9, <2>1 DEF WritingStands
  <2>3. AnswerStands'
    BY <1>9 DEF AnswerStands, Running, Applying
  <2> QED BY <1>5, <1>7, <2>2, <2>3
<1> QED BY <1>8, <1>9

LEMMA EarnedStep == EarnedInv /\ [Next]_vars => EarnedInv'
<1>1. ASSUME EarnedInv, UNCHANGED vars PROVE EarnedInv'
  BY <1>1 DEF vars, content, EarnedInv, PipelineTypes, ValidationStands, AnswerStands, WritingStands,
     Has, Waits, Earned, Owing, StructurallySkipped, Running, Applying
<1> QED BY <1>1, ProbeStep, SkillStep, OthersStep, PseudoStep, CompletionStep DEF Next, Pseudo

\* A receipt is written only for a feature that passed its tests or was excused
\* from them by someone other than the pipeline, for every environment and every
\* PHASES.md, whatever becomes of the evidence on the way from VALIDATED.md to
\* the receipt.
THEOREM ReceiptsAreEarned == Spec => ReceiptEarned
<1>1. EarnedInv /\ [Next]_vars =>
        [Has("COMPLETED") \/ "COMPLETED" \notin files'
           \/ results.result \in {"passing", "gap"} \/ skip \notin {"none", "pipeline"}]_vars
  <2> SUFFICES ASSUME EarnedInv, [Next]_vars, ~Has("COMPLETED"), "COMPLETED" \in files' PROVE Earned
    BY DEF Earned
  <2>1. CASE WriteTail
    <3>1. todo # <<>>
      BY <2>1 DEF WriteTail
    <3> QED BY <3>1 DEF EarnedInv, WritingStands
  <2>2. CASE ~WriteTail
    <3>1. CASE Probe
      BY <3>1 DEF Probe, Has
    <3>2. CASE Skills
      BY <3>2 DEF Skills, SpecSkill, RealignSkill, PlanFeature, WritePlan, ExecutePlan,
         McpTest, McpPasses, McpFallsShort, SpikeSkill, Remove, Has
    <3>3. CASE Operator \/ Handover \/ Drift \/ Crash \/ UNCHANGED vars
      BY <3>3 DEF Operator, Handover, Drift, Crash, Remove, Has, content, vars
    <3>4. CASE Pseudo
      BY <2>2, <3>4 DEF Pseudo, ProvisionalAccept, FlipPlan, WriteDeferred, GrantSkip,
         WriteFromSkip, WriteFromResults, MarkComplete, AutoTick, FlipOrRefuse, Refused,
         content, Has
    <3> QED BY <3>1, <3>2, <3>3, <3>4 DEF Next
  <2> QED BY <2>1, <2>2
<1> QED BY <1>1, EarnedInit, EarnedStep, PTL DEF Spec, ReceiptEarned
-----------------------------------------------------------------------------
(* A closed feature owes nothing. *)

\* What is asked of the documents that planners write: a phase states its status
\* below its header or not at all; no two phases have the same heading, by which
\* the gate finds what it flips; the first status line is not that of a Superseded
\* phase, which the gate would take for the document's own and revive; no row is
\* dropped and for verification as well, which the gate counts twice.
Templated == \A d \in Docs : Gate!Shaped(d) /\ Gate!OwnLines(d) /\ Gate!NoDouble(d)

\* They stay so; rows that are both come only from testers, who do not run where
\* the structural skip is granted.
DocumentStands ==
  /\ Gate!Shaped(doc) /\ Gate!OwnLines(doc)
  /\ StructurallySkipped => Gate!NoDouble(doc)

SkipStands ==
  /\ skip = "structural" => StructurallySkipped
  /\ StructurallySkipped => ~Waits /\ results.result = "none" /\ ~Running("mcp-test")

\* The ticks are followed by the flip of the phases.
TicksFirst ==
  \A i \in DOMAIN todo : todo[i] = "tick" => i + 1 \in DOMAIN todo /\ todo[i + 1] = "phases"

\* The gate closes the document before the receipt is written, and what is
\* closed stays closed.
CompletionStands ==
  /\ Has("COMPLETED") \/ todo # <<>> \/ Applying("mark_complete") => doc # <<>>
  /\ Has("COMPLETED") \/ (todo # <<>> /\ Head(todo) \notin {"tick", "phases"}) =>
       Gate!Closed(doc, Has("RUNTIME_GATES"))
  /\ TicksFirst

ClosedInv == DocumentStands /\ SkipStands /\ CompletionStands

\* The gate's writers and scanners are those of that module as well.
LEMMA SameWriters ==
  ASSUME NEW d
  PROVE  /\ Gate!OpenRows(d) = OpenRows(d)
         /\ \A S : Gate!FlipPhases(d, S) = FlipPhases(d, S)
         /\ \A v : Gate!FlipTop(d, v) = FlipTop(d, v)
         /\ \A y : Gate!phase_completion_plan(d, y) = phase_completion_plan(d, y)
         /\ Gate!enumerate_deferred_verification_rows(d) = enumerate_deferred_verification_rows(d)
         /\ Gate!Let_go(d) = Scan(EnterRouter, LAMBDA s, l : s.superseded \/ s.descoped \/ l.descoped, d)
<1>1. Gate!OpenRows(d) = OpenRows(d)
  BY DEF Gate!OpenRows, OpenRows, Gate!OpenRow, OpenRow
<1>2. ASSUME NEW S PROVE Gate!FlipPhases(d, S) = FlipPhases(d, S)
  BY DEF Gate!FlipPhases, FlipPhases, Gate!Namesakes, Namesakes, Gate!FirstOf, FirstOf, Gate!LinesOf, LinesOf,
     Gate!PhaseStarts, PhaseStarts, Gate!Names, Names
<1>3. ASSUME NEW v PROVE Gate!FlipTop(d, v) = FlipTop(d, v)
  BY DEF Gate!FlipTop, FlipTop, Gate!TopStatus, TopStatus, Gate!Names, Names
<1>4. Gate!parse_phases(d) = parse_phases(d)
  <2> DEFINE stated(at, default) == IF at = {} THEN default ELSE d[CHOOSE i \in at : TRUE].value
             dropped == {i \in OpenRows(d) : d[i].descoped \/ ParseAt(d, i).descoped}
             checks == {i \in OpenRows(d) : d[i].verification \/ ParseAt(d, i).verification}
             record(p) ==
               [status |-> stated(FirstOf(d, p, "status"), "none"),
                kind |-> stated(FirstOf(d, p, "kind"), "design"),
                checked |-> Cardinality(DoneRows(d) \cap LinesOf(d, p)),
                unchecked |-> Cardinality(OpenRows(d) \cap LinesOf(d, p)),
                descoped |-> Cardinality(dropped \cap LinesOf(d, p)),
                verification |-> Cardinality(checks \cap LinesOf(d, p))]
             gdropped == {i \in Gate!OpenRows(d) : d[i].descoped \/ Gate!ParseAt(d, i).descoped}
             gchecks == {i \in Gate!OpenRows(d) : d[i].verification \/ Gate!ParseAt(d, i).verification}
             grecord(p) ==
               [status |-> stated(Gate!FirstOf(d, p, "status"), "none"),
                kind |-> stated(Gate!FirstOf(d, p, "kind"), "design"),
                checked |-> Gate!Cardinality(Gate!DoneRows(d) \cap Gate!LinesOf(d, p)),
                unchecked |-> Gate!Cardinality(Gate!OpenRows(d) \cap Gate!LinesOf(d, p)),
                descoped |-> Gate!Cardinality(gdropped \cap Gate!LinesOf(d, p)),
                verification |-> Gate!Cardinality(gchecks \cap Gate!LinesOf(d, p))]
  <2>1. parse_phases(d) = [p \in PhaseStarts(d) |-> record(p)]
    BY Zenon DEF parse_phases, Scan, ParseAt
  <2>2. Gate!parse_phases(d) = [p \in Gate!PhaseStarts(d) |-> grecord(p)]
    BY Zenon DEF Gate!parse_phases, Gate!Scan, Gate!ParseAt
  <2>3. /\ Gate!PhaseStarts(d) = PhaseStarts(d) /\ \A p : Gate!LinesOf(d, p) = LinesOf(d, p)
        /\ \A p, section : Gate!FirstOf(d, p, section) = FirstOf(d, p, section)
    BY DEF Gate!FirstOf, FirstOf, Gate!LinesOf, LinesOf, Gate!PhaseStarts, PhaseStarts, Gate!Names, Names
  <2>4. Gate!DoneRows(d) = DoneRows(d)
    BY DEF Gate!DoneRows, DoneRows, Gate!DoneRow, DoneRow
  <2>5. \A i : Gate!ParseAt(d, i) = ParseAt(d, i)
    BY DEF Gate!ParseAt, ParseAt, Gate!ScopeAt, ScopeAt, Gate!EnterParse, EnterParse,
       Gate!NoScope, NoScope, Gate!Titled, Titled
  <2>6. \A S : Gate!Cardinality(S) = Cardinality(S)
    BY DEF Gate!Cardinality, Cardinality
  <2>7. gdropped = dropped /\ gchecks = checks
    BY <1>1, <2>5
  <2> HIDE DEF stated, dropped, checks, gdropped, gchecks
  <2>8. ASSUME NEW p PROVE grecord(p) = record(p)
    <3>1. /\ Gate!LinesOf(d, p) = LinesOf(d, p)
          /\ Gate!FirstOf(d, p, "status") = FirstOf(d, p, "status")
          /\ Gate!FirstOf(d, p, "kind") = FirstOf(d, p, "kind")
      BY <2>3
    <3>2. /\ Gate!Cardinality(Gate!DoneRows(d) \cap Gate!LinesOf(d, p)) = Cardinality(DoneRows(d) \cap LinesOf(d, p))
          /\ Gate!Cardinality(Gate!OpenRows(d) \cap Gate!LinesOf(d, p)) = Cardinality(OpenRows(d) \cap LinesOf(d, p))
          /\ Gate!Cardinality(gdropped \cap Gate!LinesOf(d, p)) = Cardinality(dropped \cap LinesOf(d, p))
          /\ Gate!Cardinality(gchecks \cap Gate!LinesOf(d, p)) = Cardinality(checks \cap LinesOf(d, p))
      BY <1>1, <2>4, <2>6, <2>7, <3>1
    <3> QED BY <3>1, <3>2
  <2> HIDE DEF record, grecord
  <2> QED BY <2>1, <2>2, <2>3, <2>8
<1>5. ASSUME NEW y PROVE Gate!phase_completion_plan(d, y) = phase_completion_plan(d, y)
  BY <1>4 DEF Gate!phase_completion_plan, phase_completion_plan,
     Gate!EffectiveUnchecked, EffectiveUnchecked, Gate!Monus, Monus
<1>6. Gate!enumerate_deferred_verification_rows(d) = enumerate_deferred_verification_rows(d)
  BY DEF Gate!enumerate_deferred_verification_rows, enumerate_deferred_verification_rows,
     Gate!Scan, Scan, Gate!ScopeAt, ScopeAt, Gate!EnterLedger, EnterLedger, Gate!MarkedRow, MarkedRow,
     Gate!OpenRows, OpenRows, Gate!OpenRow, OpenRow, Gate!NoScope, NoScope, Gate!Names, Names,
     Gate!Supersedes, Supersedes, Gate!PlainBold, PlainBold
<1>7. Gate!Let_go(d) = Scan(EnterRouter, LAMBDA s, l : s.superseded \/ s.descoped \/ l.descoped, d)
  <2> DEFINE rows == {i \in OpenRows(d) : \/ RouterAt(d, i).superseded \/ RouterAt(d, i).descoped
                                          \/ d[i].descoped}
  <2>1. Gate!Let_go(d) = {i \in Gate!OpenRows(d) : \/ Gate!RouterAt(d, i).superseded
                                                   \/ Gate!RouterAt(d, i).descoped \/ d[i].descoped}
    BY Zenon DEF Gate!Let_go, Gate!Scan, Gate!RouterAt
  <2>2. Gate!Let_go(d) = rows
    BY <1>1, <2>1, SameScanners
  <2>3. Scan(EnterRouter, LAMBDA s, l : s.superseded \/ s.descoped \/ l.descoped, d) = rows
    BY Zenon DEF Scan, RouterAt
  <2> HIDE DEF rows
  <2> QED BY <2>2, <2>3, Zenon
<1> QED BY <1>1, <1>2, <1>3, <1>5, <1>6, <1>7

\* Where a probe follows, this is left of the invariant.
LEMMA ClosedReturned ==
  ASSUME DocumentStands', todo' = <<>>, route'.do \notin {"run", "apply"},
         skip' = "structural" => StructurallySkipped',
         StructurallySkipped' => ~Waits' /\ results'.result = "none",
         Has("COMPLETED")' => doc' # <<>> /\ Gate!Closed(doc', Has("RUNTIME_GATES")')
  PROVE  ClosedInv'
BY DEF ClosedInv, SkipStands, CompletionStands, TicksFirst, Running, Applying

LEMMA ClosedInit == Init => ClosedInv
<1> SUFFICES ASSUME Init PROVE ClosedInv
  OBVIOUS
<1>1. /\ doc = <<>> /\ todo = <<>> /\ route.do = "none" /\ skip = "none" /\ results.result = "none"
  BY DEF Init, Idle, NoResults
<1>2. ~Waits /\ ~Has("COMPLETED")
  BY FeaturePipelineAssumption DEF Init, Waits, Has, Env
<1>3. DOMAIN doc = {}
  BY <1>1
<1>4. DocumentStands
  BY <1>3 DEF DocumentStands, Gate!Shaped, Gate!OwnLines, Gate!Distinct, Gate!NoDouble, Gate!PhaseStarts,
     Gate!Dropped, Gate!OpenRows
<1> QED BY <1>1, <1>2, <1>4 DEF ClosedInv, SkipStands, CompletionStands, TicksFirst, Running, Applying

\* What a probe says of the gate and of the tests.
LEMMA ClosedProbe == ClosedInv /\ Probe => ClosedInv'
<1> SUFFICES ASSUME ClosedInv, Probe PROVE ClosedInv'
  OBVIOUS
<1> USE DEF ClosedInv
<1>1. /\ route' = [do |-> Route.do, what |-> Route.what, fresh |-> TRUE]
      /\ todo = <<>> /\ UNCHANGED <<env, doc, skip, results, todo>>
  BY DEF Probe
<1>2. \A f \in {"COMPLETED", "RUNTIME_GATES", "DEFERRED_REQUIRES_DEVICE"} : f \in files' <=> f \in files
  BY DEF Probe
<1>3. /\ (Has("COMPLETED")' <=> Has("COMPLETED")) /\ (Waits' <=> Waits)
      /\ Has("RUNTIME_GATES")' = Has("RUNTIME_GATES")
  BY <1>2 DEF Has, Waits
<1>4. StructurallySkipped' <=> StructurallySkipped
  BY <1>1 DEF StructurallySkipped
<1>5. Grounded(Route)
  BY RouteIsGrounded
<1>6. DocumentStands'
  BY <1>1, <1>4 DEF DocumentStands
<1>7. SkipStands'
  <2>1. StructurallySkipped /\ Running("mcp-test")' => FALSE
    BY <1>1, <1>5 DEF Running, Grounded, SkipStands, Passing
  <2> QED BY <1>1, <1>3, <1>4, <2>1 DEF SkipStands
<1>8. CompletionStands'
  <2>1. Applying("mark_complete")' => doc # <<>>
    BY <1>1, <1>5 DEF Applying, Grounded
  <2> QED BY <1>1, <1>3, <2>1 DEF CompletionStands, TicksFirst
<1> QED BY <1>6, <1>7, <1>8

\* Work on the rows of the document keeps it as it should be.
LEMMA ClosedWork ==
  ASSUME ClosedInv, doc \in Seq(Line), doc' \in Seq(Line), Len(doc') = Len(doc),
         StructurallySkipped' <=> StructurallySkipped,
         \A j \in 1 .. Len(doc) : Gate!Worked(doc[j], doc'[j]),
         StructurallySkipped =>
           \A j \in Gate!OpenRows(doc') :
             \/ doc'[j] = doc[j]
             \/ j \notin Gate!Checks(doc) /\ (doc'[j].verification <=> doc[j].verification)
  PROVE  /\ DocumentStands'
         /\ \A y : Gate!Closed(doc, y) => Gate!Closed(doc', y)
         /\ doc # <<>> => doc' # <<>>
<1>1. doc \in Seq(Gate!Line) /\ doc' \in Seq(Gate!Line)
  BY SameScanners
<1> DEFINE d == doc
           e == doc'
<1>2. /\ Gate!Shaped(d) /\ Gate!OwnLines(d)
      /\ StructurallySkipped => Gate!NoDouble(d)
  BY DEF ClosedInv, DocumentStands
<1>3. /\ Gate!Shaped(d) => Gate!Shaped(e)
      /\ Gate!OwnLines(d) => Gate!OwnLines(e)
      /\ \A y : Gate!Closed(d, y) => Gate!Closed(e, y)
      /\ Gate!NoDouble(d) /\ (\A j \in Gate!OpenRows(e) : e[j] = d[j]
              \/ (j \notin Gate!Checks(d) /\ (e[j].verification <=> d[j].verification)))
           => Gate!NoDouble(e)
  <2>1. d \in Seq(Gate!Line) /\ e \in Seq(Gate!Line) /\ Len(e) = Len(d)
        /\ \A j \in 1 .. Len(d) : Gate!Worked(d[j], e[j])
    BY <1>1
  <2> HIDE DEF d, e
  <2> QED BY <2>1, Gate!WorkKeeps
<1>4. doc # <<>> => doc' # <<>>
  BY EmptySeq
<1> QED BY <1>2, <1>3, <1>4 DEF DocumentStands
\* A worker ticks or drops a row that is not for verification.
LEMMA WorkIsWork ==
  ASSUME NEW d \in Seq(Line), NEW i \in OpenRows(d),
         i \notin Scan(EnterRouter, ExemptForRouter, d),
         NEW e, \/ e = [d EXCEPT ![i] = Ticked(@)]
                \/ e = [d EXCEPT ![i] = Descoped(@)]
  PROVE  /\ e \in Seq(Line) /\ Len(e) = Len(d)
         /\ \A j \in 1 .. Len(d) : Gate!Worked(d[j], e[j])
         /\ \A j \in Gate!OpenRows(e) :
              e[j] = d[j] \/ (j \notin Gate!Checks(d) /\ (e[j].verification <=> d[j].verification))
<1>1. i \in 1 .. Len(d) /\ d[i] \in Line /\ d[i].is = "row" /\ d[i].section = "none" /\ Len(d) \in Nat
  BY DEF OpenRows, OpenRow, Line
<1>2. e \in Seq(Line)
  BY WorkKeepsTestable
<1>3. PICK y : e = [d EXCEPT ![i] = y] /\ (y = Ticked(d[i]) \/ y = Descoped(d[i]))
  OBVIOUS
<1>4. Len(e) = Len(d) /\ e[i] = y /\ \A j \in 1 .. Len(d) : j # i => e[j] = d[j]
  BY <1>1, <1>2, <1>3
<1>5. Gate!Worked(d[i], y) /\ (y.verification <=> d[i].verification)
  <2>1. Gate!OpenRow(d[i])
    BY DEF OpenRows, OpenRow, Gate!OpenRow
  <2>2. CASE y = [d[i] EXCEPT !.value = "ticked"]
    <3>1. /\ y.is = d[i].is /\ y.section = d[i].section /\ y.descoped = d[i].descoped
          /\ y.verification = d[i].verification /\ ~Gate!OpenRow(y)
      BY <1>1, <2>2 DEF Line, Gate!OpenRow
    <3> QED BY <1>1, <2>1, <3>1, Zenon DEF Gate!Worked
  <2>3. CASE y = [d[i] EXCEPT !.descoped = TRUE]
    <3>1. /\ y.is = d[i].is /\ y.section = d[i].section /\ y.descoped
          /\ y.verification = d[i].verification /\ y.value = d[i].value
      BY <1>1, <2>3 DEF Line
    <3> QED BY <1>1, <2>1, <3>1, Zenon DEF Gate!Worked
  <2> QED BY <1>3, <2>2, <2>3 DEF Ticked, Descoped
<1>6. i \notin Gate!Checks(d)
  <2>1. SUFFICES ASSUME d[i].verification \/ Gate!ParseAt(d, i).verification PROVE FALSE
    BY Zenon DEF Gate!Checks
  <2>2. Gate!Agree(Gate!RouterAt(d, i), Gate!AutotickAt(d, i), Gate!LedgerAt(d, i),
                   Gate!ParseAt(d, i), Gate!CoverAt(d, i))
    <3>1. d \in Seq(Gate!Line) /\ i \in 0 .. Len(d)
      BY <1>1, SameScanners
    <3> QED BY <3>1, Gate!ScannersAgree
  <2>3. d[i].verification \/ RouterAt(d, i).verification
    BY <2>1, <2>2, SameScanners, Zenon DEF Gate!Agree
  <2>4. ExemptForRouter(RouterAt(d, i), d[i])
    BY <2>3, Zenon DEF ExemptForRouter
  <2> QED BY <2>4, Rows
<1>7. ASSUME NEW j \in 1 .. Len(d) PROVE Gate!Worked(d[j], e[j])
  BY <1>4, <1>5 DEF Gate!Worked
<1>8. ASSUME NEW j \in Gate!OpenRows(e)
      PROVE  e[j] = d[j] \/ (j \notin Gate!Checks(d) /\ (e[j].verification <=> d[j].verification))
  <2>1. j \in 1 .. Len(d)
    BY <1>2, <1>4, <1>8 DEF Gate!OpenRows
  <2> QED BY <1>4, <1>5, <1>6, <2>1
<1> QED BY <1>2, <1>4, <1>7, <1>8

\* A test marks rows, which are work as well.
LEMMA MarkIsWork ==
  ASSUME NEW d \in Seq(Line), NEW S \in SUBSET OpenRows(d),
         NEW e, e = [i \in DOMAIN d |-> IF i \in S THEN Marked(d[i]) ELSE d[i]]
  PROVE  /\ e \in Seq(Line) /\ Len(e) = Len(d)
         /\ \A j \in 1 .. Len(d) : Gate!Worked(d[j], e[j])
<1>1. DOMAIN d = 1 .. Len(d) /\ Len(d) \in Nat /\ \A j \in DOMAIN d : d[j] \in Line
  OBVIOUS
<1>2. e \in Seq(Line)
  BY WritesKeepLines
<1>3. DOMAIN e = DOMAIN d /\ \A j \in DOMAIN d : e[j] = IF j \in S THEN Marked(d[j]) ELSE d[j]
  BY Zenon
<1>4. Len(e) = Len(d)
  BY <1>1, <1>2, <1>3
<1>5. ASSUME NEW j \in 1 .. Len(d) PROVE Gate!Worked(d[j], e[j])
  <2>1. CASE j \in S
    <3>1. e[j] = [d[j] EXCEPT !.verification = TRUE] /\ d[j] \in Line /\ d[j].is = "row"
      BY <1>1, <1>3, <2>1 DEF Marked, OpenRows, OpenRow
    <3>2. /\ e[j].is = d[j].is /\ e[j].section = d[j].section /\ e[j].descoped = d[j].descoped
          /\ e[j].verification /\ e[j].value = d[j].value
      BY <3>1 DEF Line
    <3> QED BY <3>1, <3>2, Zenon DEF Gate!Worked, Gate!OpenRow
  <2>2. CASE j \notin S
    BY <1>1, <1>3, <2>2 DEF Gate!Worked
  <2> QED BY <2>1, <2>2
<1> QED BY <1>2, <1>4, <1>5

\* The gate's ticks are work.
LEMMA TickIsWork ==
  ASSUME NEW d \in Seq(Line), NEW n, NEW e, e = autotick_verification_rows(d, n)
  PROVE  /\ e \in Seq(Line) /\ Len(e) = Len(d)
         /\ \A j \in 1 .. Len(d) : Gate!Worked(d[j], e[j])
         /\ \A j \in Gate!OpenRows(e) : e[j] = d[j]
<1> DEFINE S == Tickable(d)
<1>1. DOMAIN d = 1 .. Len(d) /\ Len(d) \in Nat /\ \A j \in DOMAIN d : d[j] \in Line
  OBVIOUS
<1>2. e \in Seq(Line)
  BY WritesKeepLines
<1>3. S \subseteq OpenRows(d)
  BY Zenon DEF Tickable, Scan
<1> HIDE DEF S
<1>4. e = d \/ e = [i \in DOMAIN d |-> IF i \in S THEN Audited(d[i]) ELSE d[i]]
  BY Zenon DEF autotick_verification_rows, S
<1>5. CASE e = d
  BY <1>5 DEF Gate!Worked
<1>6. CASE e = [i \in DOMAIN d |-> IF i \in S THEN Audited(d[i]) ELSE d[i]]
  <2>1. DOMAIN e = DOMAIN d /\ \A j \in DOMAIN d : e[j] = IF j \in S THEN Audited(d[j]) ELSE d[j]
    BY <1>6, Zenon
  <2>2. Len(e) = Len(d)
    BY <1>1, <1>2, <2>1
  <2>3. ASSUME NEW j \in 1 .. Len(d)
        PROVE  Gate!Worked(d[j], e[j]) /\ (e[j] = d[j] \/ ~Gate!OpenRow(e[j]))
    <3>1. CASE j \in S
      <4>1. e[j] = [d[j] EXCEPT !.value = "audited"] /\ d[j] \in Line /\ d[j].is = "row"
        BY <1>1, <1>3, <2>1, <3>1 DEF Audited, OpenRows, OpenRow
      <4>2. /\ e[j].is = d[j].is /\ e[j].section = d[j].section /\ e[j].descoped = d[j].descoped
            /\ e[j].verification = d[j].verification /\ e[j].value = "audited"
        BY <4>1 DEF Line
      <4>3. ~Gate!OpenRow(e[j])
        BY <4>2 DEF Gate!OpenRow
      <4> QED BY <4>1, <4>2, <4>3, Zenon DEF Gate!Worked
    <3>2. CASE j \notin S
      BY <1>1, <2>1, <3>2 DEF Gate!Worked
    <3> QED BY <3>1, <3>2
  <2>4. ASSUME NEW j \in Gate!OpenRows(e) PROVE e[j] = d[j]
    <3>1. j \in 1 .. Len(d) /\ Gate!OpenRow(e[j])
      BY <1>2, <2>2, <2>4 DEF Gate!OpenRows
    <3> QED BY <2>3, <3>1
  <2> QED BY <1>2, <2>2, <2>3, <2>4
<1> QED BY <1>4, <1>5, <1>6
\* The skills: the plan of a feature is written before anything is closed, and
\* the rest is work on rows.
LEMMA ClosedSkill == Templated /\ EarnedInv /\ ClosedInv /\ Skills => ClosedInv'
<1> SUFFICES ASSUME Templated, EarnedInv, ClosedInv, Skills PROVE ClosedInv'
  OBVIOUS
<1>1. Done /\ todo = <<>>
  BY DEF Skills, SpecSkill, RealignSkill, PlanFeature, WritePlan, ExecutePlan, McpTest,
     McpPasses, McpFallsShort, SpikeSkill, Running
<1>2. todo' = <<>> /\ route' = Idle /\ env' = env /\ route'.do \notin {"run", "apply"}
  BY <1>1 DEF Done, Idle
<1>3. StructurallySkipped' <=> StructurallySkipped
  BY <1>2 DEF StructurallySkipped
<1>4. /\ doc \in Seq(Line) /\ DocumentStands /\ SkipStands
      /\ Has("COMPLETED") => doc # <<>> /\ Gate!Closed(doc, Has("RUNTIME_GATES"))
  BY DEF EarnedInv, PipelineTypes, ClosedInv, CompletionStands
<1>5. ASSUME UNCHANGED doc, StructurallySkipped => ~Waits' /\ results'.result = "none",
             skip' = "structural" => skip = "structural",
             Has("COMPLETED")' = Has("COMPLETED"), Has("RUNTIME_GATES")' = Has("RUNTIME_GATES")
      PROVE  ClosedInv'
  <2>1. DocumentStands'
    BY <1>3, <1>4, <1>5 DEF DocumentStands
  <2> QED BY <1>2, <1>3, <1>4, <1>5, <2>1, ClosedReturned DEF SkipStands
<1>6. CASE SpecSkill \/ RealignSkill \/ WritePlan \/ SpikeSkill
  <2>1. UNCHANGED <<doc, results, skip>>
    BY <1>6 DEF SpecSkill, RealignSkill, WritePlan, SpikeSkill
  <2>2. \A f \in {"COMPLETED", "RUNTIME_GATES", "DEFERRED_REQUIRES_DEVICE"} : f \in files' <=> f \in files
    BY <1>6 DEF SpecSkill, RealignSkill, WritePlan, SpikeSkill, Remove
  <2> QED BY <1>4, <1>5, <2>1, <2>2 DEF Has, Waits, SkipStands
<1>7. CASE PlanFeature
  <2>1. doc' \in Docs /\ UNCHANGED <<files, results, skip>>
    BY <1>7 DEF PlanFeature
  <2>2. doc = <<>>
    BY <1>7 DEF PlanFeature, EarnedInv, AnswerStands
  <2>3. ~Has("COMPLETED")'
    BY <1>4, <2>1, <2>2 DEF Has
  <2>4. DocumentStands'
    BY <2>1 DEF Templated, DocumentStands
  <2> QED BY <1>2, <1>3, <1>4, <2>1, <2>3, <2>4, ClosedReturned DEF SkipStands, Waits, Has
<1>8. CASE ExecutePlan
  <2>1. /\ skip' = skip /\ (results' = Aged \/ results' = results)
        /\ \/ doc' = doc
           \/ \E i \in OpenRows(doc) : /\ i \notin Scan(EnterRouter, ExemptForRouter, doc)
                                       /\ \/ doc' = [doc EXCEPT ![i] = Ticked(@)]
                                          \/ doc' = [doc EXCEPT ![i] = Descoped(@)]
    BY <1>8 DEF ExecutePlan
  <2>2. \A f \in {"COMPLETED", "RUNTIME_GATES", "DEFERRED_REQUIRES_DEVICE"} : f \in files' <=> f \in files
    BY <1>8 DEF ExecutePlan
  <2>3. results'.result = results.result
    BY <2>1 DEF Aged, EarnedInv, PipelineTypes
  <2>4. CASE doc' = doc
    BY <1>4, <1>5, <2>1, <2>2, <2>3, <2>4 DEF Has, Waits, SkipStands
  <2>5. CASE doc' # doc
    <3>1. /\ doc' \in Seq(Line) /\ Len(doc') = Len(doc)
          /\ \A j \in 1 .. Len(doc) : Gate!Worked(doc[j], doc'[j])
          /\ \A j \in Gate!OpenRows(doc') :
               \/ doc'[j] = doc[j]
               \/ j \notin Gate!Checks(doc) /\ (doc'[j].verification <=> doc[j].verification)
      BY <1>4, <2>1, <2>5, WorkIsWork
    <3>2. /\ DocumentStands' /\ \A y : Gate!Closed(doc, y) => Gate!Closed(doc', y)
          /\ doc # <<>> => doc' # <<>>
      BY <1>3, <1>4, <3>1, ClosedWork
    <3> QED BY <1>2, <1>3, <1>4, <2>1, <2>2, <2>3, <3>2, ClosedReturned DEF Has, Waits, SkipStands
  <2> QED BY <2>4, <2>5
<1>9. ASSUME NEW n, McpPasses(n) PROVE ClosedInv'
  <2>1. ~StructurallySkipped
    BY <1>9 DEF McpPasses, ClosedInv, SkipStands
  <2>2. doc' = Migrated /\ skip' = skip
    BY <1>9 DEF McpPasses
  <2>3. \A f \in {"COMPLETED", "RUNTIME_GATES"} : f \in files' <=> f \in files
    BY <1>9 DEF McpPasses
  <2>4. collect_uncovered(doc).shim \in SUBSET OpenRows(doc)
    BY Rows
  <2>5. /\ doc' \in Seq(Line) /\ Len(doc') = Len(doc)
        /\ \A j \in 1 .. Len(doc) : Gate!Worked(doc[j], doc'[j])
    BY <1>4, <2>2, <2>4, MarkIsWork DEF Migrated
  <2>6. /\ DocumentStands' /\ \A y : Gate!Closed(doc, y) => Gate!Closed(doc', y)
        /\ doc # <<>> => doc' # <<>>
    BY <1>3, <1>4, <2>1, <2>5, ClosedWork
  <2> QED BY <1>2, <1>3, <1>4, <2>1, <2>2, <2>3, <2>6, ClosedReturned DEF Has, SkipStands
<1>10. CASE McpFallsShort
  <2>1. ~StructurallySkipped
    BY <1>10 DEF McpFallsShort, ClosedInv, SkipStands
  <2>2. doc' = doc /\ (skip' = skip \/ skip' \in {"mcp-test", "pipeline"})
    BY <1>10 DEF McpFallsShort
  <2>3. \A f \in {"COMPLETED", "RUNTIME_GATES"} : f \in files' <=> f \in files
    BY <1>10 DEF McpFallsShort
  <2> QED BY <1>5, <2>1, <2>2, <2>3 DEF Has
<1> QED BY <1>6, <1>7, <1>8, <1>9, <1>10 DEF Skills, McpTest

\* People and other work leave the document and what closed it alone.
LEMMA ClosedOthers == EarnedInv /\ ClosedInv /\ (Operator \/ Handover \/ Drift) => ClosedInv'
<1> SUFFICES ASSUME EarnedInv, ClosedInv, Operator \/ Handover \/ Drift PROVE ClosedInv'
  OBVIOUS
<1> USE DEF ClosedInv
<1>1. UNCHANGED doc /\ todo = <<>> /\ todo' = <<>>
  BY DEF Operator, Handover, Drift, Done, content, EarnedInv, WritingStands
<1>2. \A f \in {"COMPLETED", "RUNTIME_GATES", "DEFERRED_REQUIRES_DEVICE"} : f \in files' <=> f \in files
  BY DEF Operator, Handover, Drift, Remove, Halts, content
<1>3. StructurallySkipped' <=> StructurallySkipped
  <2>1. env' = env \/ env' = [env EXCEPT !.host = Awaits]
    BY DEF Operator, Handover, Drift, Done
  <2>2. env \in Env
    BY DEF EarnedInv, PipelineTypes
  <2>3. env'.notRequired = env.notRequired /\ env'.surface = env.surface
    BY <2>1, <2>2 DEF Env
  <2> QED BY <2>3 DEF StructurallySkipped
<1>4. results'.result = results.result /\ (skip' = skip \/ skip' = "operator")
  BY DEF Operator, Handover, Drift, content, Aged, EarnedInv, PipelineTypes
<1>5. route' = Idle \/ route' = [route EXCEPT !.fresh = FALSE]
  BY DEF Operator, Handover, Drift, Done
<1>6. (Running("mcp-test")' => Running("mcp-test")) /\ (Applying("mark_complete")' => Applying("mark_complete"))
  <2>1. CASE route' = Idle
    BY <2>1 DEF Idle, Running, Applying
  <2>2. CASE route' = [route EXCEPT !.fresh = FALSE]
    BY <1>1, <2>2 DEF Running, Applying, EarnedInv, PipelineTypes
  <2> QED BY <1>5, <2>1, <2>2
<1>7. DocumentStands'
  BY <1>1, <1>3 DEF DocumentStands
<1>8. SkipStands'
  BY <1>2, <1>3, <1>4, <1>6 DEF SkipStands, Waits, Has
<1>9. CompletionStands'
  BY <1>1, <1>2, <1>6 DEF CompletionStands, TicksFirst, Has
<1> QED BY <1>7, <1>8, <1>9

\* The pseudo-skills but the last one write sentinels.
LEMMA ClosedPseudo ==
  /\ EarnedInv /\ ClosedInv
  /\ \/ ProvisionalAccept \/ FlipPlan \/ WriteDeferred \/ GrantSkip
     \/ WriteFromSkip \/ WriteFromResults
  => ClosedInv'
<1> SUFFICES ASSUME EarnedInv, ClosedInv,
                    \/ ProvisionalAccept \/ FlipPlan \/ WriteDeferred \/ GrantSkip
                    \/ WriteFromSkip \/ WriteFromResults
             PROVE  ClosedInv'
  OBVIOUS
<1>1. /\ todo' = <<>> /\ UNCHANGED <<env, doc, results>>
      /\ route' = Idle \/ route' = [route EXCEPT !.do = "refused"]
  BY DEF ProvisionalAccept, FlipPlan, WriteDeferred, GrantSkip, WriteFromSkip,
     WriteFromResults, Done, Refused, Applying
<1>2. route'.do \notin {"run", "apply"}
  <2>1. CASE route' = Idle
    BY <2>1 DEF Idle
  <2>2. CASE route' = [route EXCEPT !.do = "refused"]
    BY <2>2 DEF EarnedInv, PipelineTypes
  <2> QED BY <1>1, <2>1, <2>2
<1>3. StructurallySkipped' <=> StructurallySkipped
  BY <1>1 DEF StructurallySkipped
<1>4. \A f \in {"COMPLETED", "RUNTIME_GATES", "DEFERRED_REQUIRES_DEVICE"} : f \in files' <=> f \in files
  BY DEF ProvisionalAccept, FlipPlan, WriteDeferred, GrantSkip, WriteFromSkip, WriteFromResults
<1>5. skip' = skip \/ (skip' = "structural" /\ StructurallySkipped)
  BY DEF ProvisionalAccept, FlipPlan, WriteDeferred, GrantSkip, WriteFromSkip, WriteFromResults
<1>6. DocumentStands'
  BY <1>1, <1>3 DEF ClosedInv, DocumentStands
<1> QED BY <1>1, <1>2, <1>3, <1>4, <1>5, <1>6, ClosedReturned
        DEF ClosedInv, SkipStands, CompletionStands, Waits, Has
\* The tail has no ticks; the whole sequence has them right before the flip.
LEMMA TailHasNoTick ==
  /\ \A i \in DOMAIN Tail(CompletionTail) : Tail(CompletionTail)[i] # "tick"
  /\ LET all == <<"tick", "phases">> \o CompletionTail
     IN  /\ all # <<>> /\ Head(all) = "tick"
         /\ \A i \in DOMAIN all : all[i] = "tick" => i + 1 \in DOMAIN all /\ all[i + 1] = "phases"
<1> DEFINE Others == Writes \ {"tick"}
           first == <<"tick", "phases">>
           all == first \o CompletionTail
<1>1. CompletionTail \in Seq(Others)
  <2> DEFINE bug == <<"receipt", "spec", "top", "validated", "retro", "deferred">>
             feature == <<"receipt", "spec", "top", "validated", "retro", "deferred", "queue", "roadmap">>
  <2>1. bug \in Seq(Others) /\ feature \in Seq(Others)
    BY DEF Writes
  <2>2. CompletionTail = bug \/ CompletionTail = feature
    BY DEF CompletionTail
  <2> HIDE DEF bug, feature, Others
  <2> QED BY <2>1, <2>2
<1>2. CompletionTail # <<>> /\ Len(CompletionTail) \in Nat
  BY <1>1, TheTail
<1>3. Tail(CompletionTail) \in Seq(Others)
  BY <1>1, <1>2, HeadTailProperties
<1>4. \A i \in DOMAIN Tail(CompletionTail) : Tail(CompletionTail)[i] # "tick"
  BY <1>3
<1>5. first \in Seq(Writes) /\ Len(first) = 2 /\ first[1] = "tick" /\ first[2] = "phases"
  BY DEF Writes
<1>6. /\ all \in Seq(Writes) /\ Len(all) = 2 + Len(CompletionTail)
      /\ \A i \in 1 .. 2 + Len(CompletionTail) :
           all[i] = IF i <= 2 THEN first[i] ELSE CompletionTail[i - 2]
  <2>1. CompletionTail \in Seq(Writes)
    BY TheTail
  <2> HIDE DEF first
  <2>2. /\ all \in Seq(Writes) /\ Len(all) = Len(first) + Len(CompletionTail)
        /\ \A i \in 1 .. Len(first) + Len(CompletionTail) :
             all[i] = IF i <= Len(first) THEN first[i] ELSE CompletionTail[i - Len(first)]
    BY <1>5, <2>1, ConcatProperties, Zenon
  <2> HIDE DEF all
  <2> QED BY <1>5, <2>2
<1> HIDE DEF first, all
<1>7. DOMAIN all = 1 .. 2 + Len(CompletionTail)
  BY <1>6, LenProperties
<1>8. all # <<>> /\ Head(all) = "tick"
  BY <1>2, <1>5, <1>6
<1>9. ASSUME NEW i \in DOMAIN all, all[i] = "tick" PROVE i + 1 \in DOMAIN all /\ all[i + 1] = "phases"
  <2>1. i = 1
    <3>1. CASE i > 2
      <4>1. i - 2 \in 1 .. Len(CompletionTail) /\ CompletionTail[i - 2] = "tick"
        BY <1>2, <1>6, <1>7, <1>9, <3>1
      <4> QED BY <1>1, <4>1
    <3>2. CASE ~(i > 2)
      BY <1>2, <1>5, <1>6, <1>7, <1>9, <3>2
    <3> QED BY <3>1, <3>2
  <2> QED BY <1>2, <1>5, <1>6, <1>7, <2>1
<1> QED BY <1>4, <1>8, <1>9 DEF all, first

LEMMA FirstIsHead ==
  ASSUME NEW s \in Seq(Writes), 1 \in DOMAIN s
  PROVE  s # <<>> /\ Head(s) = s[1]
OBVIOUS

\* A write is made and the rest is left.
LEMMA NextWrite ==
  ASSUME todo \in Seq(Writes), todo # <<>>, todo' = Tail(todo), TicksFirst
  PROVE  /\ TicksFirst'
         /\ Head(todo) = "tick" => todo' # <<>> /\ Head(todo') = "phases"
<1>1. /\ todo' \in Seq(Writes) /\ Len(todo') = Len(todo) - 1
      /\ \A i \in 1 .. Len(todo') : todo'[i] = todo[i + 1]
  BY HeadTailProperties
<1>2. Len(todo) \in Nat /\ DOMAIN todo = 1 .. Len(todo) /\ DOMAIN todo' = 1 .. Len(todo')
  BY <1>1, LenProperties
<1>3. Head(todo) = todo[1] /\ 1 \in DOMAIN todo
  BY <1>2, EmptySeq
<1>4. TicksFirst'
  <2>1. SUFFICES ASSUME NEW i \in DOMAIN todo', todo'[i] = "tick"
                 PROVE  i + 1 \in DOMAIN todo' /\ todo'[i + 1] = "phases"
    BY DEF TicksFirst
  <2>2. i + 1 \in DOMAIN todo /\ todo[i + 1] = "tick"
    BY <1>1, <1>2, <2>1
  <2>3. (i + 1) + 1 \in DOMAIN todo /\ todo[(i + 1) + 1] = "phases"
    BY <2>2 DEF TicksFirst
  <2> QED BY <1>1, <1>2, <2>1, <2>3
<1>5. ASSUME Head(todo) = "tick" PROVE todo' # <<>> /\ Head(todo') = "phases"
  <2>1. 2 \in DOMAIN todo /\ todo[2] = "phases"
    BY <1>3, <1>5 DEF TicksFirst
  <2>2. 1 \in 1 .. Len(todo') /\ todo'[1] = "phases"
    BY <1>1, <1>2, <2>1
  <2> QED BY <1>1, <1>2, <2>2, FirstIsHead
<1> QED BY <1>4, <1>5

\* What each write of the sequence leaves alone.
LEMMA ClosedWriting ==
  ASSUME ClosedInv, todo # <<>>, todo \in Seq(Writes), EarnedInv,
         UNCHANGED <<env, results, skip>>,
         todo' = Tail(todo) /\ (route' = IF todo' = <<>> THEN Idle ELSE route),
         Waits' <=> Waits,
         DocumentStands', doc' # <<>>,
         Has("COMPLETED")' \/ Head(todo) # "tick" => Gate!Closed(doc', Has("RUNTIME_GATES")')
  PROVE  ClosedInv'
<1>1. TicksFirst' /\ (Head(todo) = "tick" => todo' # <<>> /\ Head(todo') = "phases")
  BY NextWrite DEF ClosedInv, CompletionStands
<1>2. StructurallySkipped' <=> StructurallySkipped
  BY DEF StructurallySkipped
<1>3. ~Running("mcp-test")'
  <2>1. route.do = "apply" /\ (route' = Idle \/ route' = route)
    BY DEF EarnedInv, WritingStands
  <2>2. CASE route' = Idle
    BY <2>2 DEF Running, Idle
  <2>3. CASE route' = route
    BY <2>1, <2>3 DEF Running
  <2> QED BY <2>1, <2>2, <2>3
<1>4. SkipStands'
  BY <1>2, <1>3 DEF ClosedInv, SkipStands
<1>5. CompletionStands'
  BY <1>1 DEF CompletionStands
<1> QED BY <1>4, <1>5 DEF ClosedInv

\* What is closed with no ledger is closed with one.
LEMMA ClosedMore ==
  ASSUME NEW d, NEW x \in BOOLEAN, NEW y \in BOOLEAN, x => y, Gate!Closed(d, x)
  PROVE  Gate!Closed(d, y)
BY DEF Gate!Closed
\* What the gate does not refuse it closes, and the ledger it needs for that is
\* written.
LEMMA ClosedByGate ==
  EarnedInv /\ ClosedInv /\ todo \in Seq(Writes) /\ FlipOrRefuse => ClosedInv'
<1> SUFFICES ASSUME EarnedInv, ClosedInv, todo \in Seq(Writes), FlipOrRefuse PROVE ClosedInv'
  OBVIOUS
<1> DEFINE deferred == IF DeferredRuntime THEN enumerate_deferred_verification_rows(doc) ELSE {}
           y == deferred # {}
           decided == phase_completion_plan(doc, y)
<1>1. /\ todo # <<>> /\ Head(todo) = "phases" /\ UNCHANGED <<env, skip, results>>
      /\ files' = files \cup (IF deferred = {} THEN {} ELSE {"RUNTIME_GATES"})
      /\ IF decided.refused = {}
           THEN Wrote /\ doc' = FlipPhases(doc, decided.flip)
           ELSE todo' = <<>> /\ route' = [route EXCEPT !.do = "refused"] /\ UNCHANGED doc
  BY DEF FlipOrRefuse, Writing
<1>2. y => StructurallySkipped
  BY DEF DeferredRuntime, ClosedInv, SkipStands
<1> HIDE DEF deferred
<1>3. /\ Has("COMPLETED")' = Has("COMPLETED") /\ (Waits' <=> Waits)
      /\ y => Has("RUNTIME_GATES")'
      /\ Has("RUNTIME_GATES") => Has("RUNTIME_GATES")'
  BY <1>1 DEF Has, Waits
<1>4. /\ doc \in Seq(Gate!Line) /\ Gate!Shaped(doc) /\ Gate!OwnLines(doc) /\ doc # <<>>
      /\ StructurallySkipped => Gate!NoDouble(doc)
      /\ StructurallySkipped' <=> StructurallySkipped
  BY <1>1, SameScanners DEF EarnedInv, PipelineTypes, ClosedInv, DocumentStands, CompletionStands,
     StructurallySkipped
<1> HIDE DEF y, decided
<1>5. CASE decided.refused = {}
  <2> DEFINE e == Gate!FlipPhases(doc, Gate!phase_completion_plan(doc, y).flip)
  <2>1. y \in BOOLEAN
    BY DEF y
  <2>2. Gate!phase_completion_plan(doc, y) = decided
    BY SameWriters DEF decided
  <2>3. /\ e \in Seq(Gate!Line) /\ Gate!Shaped(e) /\ Len(e) = Len(doc) /\ Gate!Closed(e, y)
        /\ Gate!OwnLines(e)
        /\ Gate!NoDouble(doc) => Gate!NoDouble(e)
    <3>1. Gate!phase_completion_plan(doc, y).refused = {} /\ (y => Gate!NoDouble(doc))
      BY <1>2, <1>4, <1>5, <2>2
    <3> QED BY <1>4, <2>1, <3>1, Gate!GateCloses
  <2>4. doc' = e
    BY <1>1, <1>5, <2>2, SameWriters
  <2> HIDE DEF e
  <2>5. DocumentStands' /\ doc' # <<>>
    <3>1. Len(doc') = Len(doc) /\ doc' \in Seq(Gate!Line)
      BY <2>3, <2>4
    <3>2. doc' # <<>>
      BY <1>4, <3>1, EmptySeq
    <3> QED BY <1>4, <2>3, <2>4, <3>2 DEF DocumentStands
  <2>6. Gate!Closed(doc', Has("RUNTIME_GATES")')
    <3>1. Has("RUNTIME_GATES")' \in BOOLEAN
      BY DEF Has
    <3> QED BY <1>3, <2>1, <2>3, <2>4, <3>1, ClosedMore
  <2> QED BY <1>1, <1>3, <1>5, <2>5, <2>6, ClosedWriting DEF Wrote
<1>6. CASE decided.refused # {}
  <2>1. todo' = <<>> /\ route' = [route EXCEPT !.do = "refused"] /\ UNCHANGED doc
    BY <1>1, <1>6
  <2>2. route'.do = "refused"
    BY <2>1 DEF EarnedInv, PipelineTypes
  <2>3. DocumentStands'
    BY <1>4, <2>1 DEF DocumentStands
  <2>4. Has("COMPLETED")' => Gate!Closed(doc', Has("RUNTIME_GATES")')
    <3>1. Has("RUNTIME_GATES")' \in BOOLEAN /\ Has("RUNTIME_GATES") \in BOOLEAN
      BY DEF Has
    <3> QED BY <1>3, <2>1, <3>1, ClosedMore DEF ClosedInv, CompletionStands
  <2> QED BY <1>1, <1>3, <1>4, <2>1, <2>2, <2>3, <2>4, ClosedReturned DEF ClosedInv, SkipStands
<1> QED BY <1>5, <1>6

\* __mark_complete__ closes the document before its receipt and keeps it closed.
LEMMA ClosedCompletion ==
  EarnedInv /\ ClosedInv /\ todo \in Seq(Writes)
    /\ (MarkComplete \/ AutoTick \/ FlipOrRefuse \/ WriteTail \/ Crash) => ClosedInv'
<1> SUFFICES ASSUME EarnedInv, ClosedInv, todo \in Seq(Writes),
                    MarkComplete \/ AutoTick \/ FlipOrRefuse \/ WriteTail \/ Crash
             PROVE  ClosedInv'
  OBVIOUS
<1>1. CASE MarkComplete
  <2>1. /\ UNCHANGED <<env, content>> /\ Applying("mark_complete")
        /\ \/ route' = [route EXCEPT !.do = "refused"] /\ todo' = todo
           \/ Has("COMPLETED") /\ todo' = Tail(CompletionTail) /\ route' = route
           \/ route' = Idle /\ todo' = todo
           \/ todo' = <<"tick", "phases">> \o CompletionTail /\ route' = route
    BY <1>1 DEF MarkComplete, Refused
  <2>2. /\ UNCHANGED <<env, doc, files, skip, results>> /\ todo = <<>> /\ route.do = "apply"
        /\ StructurallySkipped' <=> StructurallySkipped
    BY <2>1 DEF content, Applying, StructurallySkipped
  <2>3. /\ Has("COMPLETED")' = Has("COMPLETED") /\ (Waits' <=> Waits)
        /\ Has("RUNTIME_GATES")' = Has("RUNTIME_GATES")
    BY <2>2 DEF Has, Waits
  <2>4. doc # <<>>
    BY <2>1 DEF ClosedInv, CompletionStands
  <2>5. DocumentStands'
    BY <2>2 DEF ClosedInv, DocumentStands
  <2>6. SkipStands'
    <3>1. ~Running("mcp-test")'
      <4>1. CASE route' = [route EXCEPT !.do = "refused"]
        BY <4>1 DEF Running, EarnedInv, PipelineTypes
      <4>2. CASE route' = Idle
        BY <4>2 DEF Running, Idle
      <4>3. CASE route' = route
        BY <2>2, <4>3 DEF Running
      <4> QED BY <2>1, <4>1, <4>2, <4>3
    <3> QED BY <2>2, <2>3, <3>1 DEF ClosedInv, SkipStands
  <2>7. CompletionStands'
    <3>1. TicksFirst'
      <4>1. CASE todo' = todo
        BY <4>1 DEF TicksFirst, ClosedInv, CompletionStands
      <4>2. CASE todo' = Tail(CompletionTail)
        BY <4>2, TailHasNoTick DEF TicksFirst
      <4>3. CASE todo' = <<"tick", "phases">> \o CompletionTail
        BY <4>3, TailHasNoTick DEF TicksFirst
      <4> QED BY <2>1, <4>1, <4>2, <4>3
    <3>2. Has("COMPLETED")' \/ todo' = <<>> \/ Head(todo') = "tick"
      BY <2>1, <2>2, <2>3, TailHasNoTick
    <3> QED BY <2>2, <2>3, <2>4, <3>1, <3>2 DEF ClosedInv, CompletionStands
  <2> QED BY <2>5, <2>6, <2>7 DEF ClosedInv
<1>2. CASE AutoTick
  <2>1. /\ todo # <<>> /\ Head(todo) = "tick" /\ Wrote /\ UNCHANGED <<env, files, skip, results>>
        /\ doc' = IF Evidence.ok THEN autotick_verification_rows(doc, Evidence.count) ELSE doc
    BY <1>2 DEF AutoTick, Writing
  <2>2. doc \in Seq(Line) /\ doc # <<>>
    BY <2>1 DEF EarnedInv, PipelineTypes, ClosedInv, CompletionStands
  <2>3. StructurallySkipped' <=> StructurallySkipped
    BY <2>1 DEF StructurallySkipped
  <2>4. /\ doc' \in Seq(Line) /\ Len(doc') = Len(doc)
        /\ \A j \in 1 .. Len(doc) : Gate!Worked(doc[j], doc'[j])
        /\ \A j \in Gate!OpenRows(doc') : doc'[j] = doc[j]
    <3>1. CASE Evidence.ok
      BY <2>1, <2>2, <3>1, TickIsWork
    <3>2. CASE ~Evidence.ok
      BY <2>1, <2>2, <3>2 DEF Gate!Worked
    <3> QED BY <3>1, <3>2
  <2>5. /\ DocumentStands' /\ \A y : Gate!Closed(doc, y) => Gate!Closed(doc', y)
        /\ doc # <<>> => doc' # <<>>
    BY <2>2, <2>3, <2>4, ClosedWork
  <2>6. Has("COMPLETED")' => Gate!Closed(doc', Has("RUNTIME_GATES")')
    BY <2>1, <2>5 DEF Has, ClosedInv, CompletionStands
  <2> QED BY <2>1, <2>2, <2>5, <2>6, ClosedWriting DEF Wrote, Waits, Has
<1>3. CASE WriteTail
  <2>1. /\ todo # <<>> /\ Head(todo) \notin {"tick", "phases"} /\ Wrote
        /\ UNCHANGED <<env, skip, results>>
        /\ doc' = IF Writing("top") THEN FlipTop(doc, Claim) ELSE doc
    BY <1>3 DEF WriteTail
  <2>2. /\ doc \in Seq(Gate!Line) /\ doc # <<>> /\ Gate!Shaped(doc) /\ Gate!OwnLines(doc)
        /\ StructurallySkipped => Gate!NoDouble(doc)
        /\ Gate!Closed(doc, Has("RUNTIME_GATES"))
    BY <2>1, SameScanners DEF EarnedInv, PipelineTypes, ClosedInv, DocumentStands, CompletionStands
  <2>3. \A f \in {"RUNTIME_GATES", "DEFERRED_REQUIRES_DEVICE"} : f \in files' <=> f \in files
    <3>1. CASE Head(todo) \in DOMAIN FileOf
      <4>1. FileOf[Head(todo)] \notin {"RUNTIME_GATES", "DEFERRED_REQUIRES_DEVICE"} /\ ~Writing("receipt")
        BY <3>1 DEF FileOf, Writing
      <4> QED BY <1>3, <3>1, <4>1 DEF WriteTail
    <3>2. CASE Head(todo) \notin DOMAIN FileOf
      BY <1>3, <3>2 DEF WriteTail
    <3> QED BY <3>1, <3>2
  <2>4. StructurallySkipped' <=> StructurallySkipped
    BY <2>1 DEF StructurallySkipped
  <2>5. /\ Gate!Shaped(doc') /\ Gate!OwnLines(doc') /\ doc' # <<>>
        /\ Gate!NoDouble(doc) => Gate!NoDouble(doc')
        /\ Gate!Closed(doc', Has("RUNTIME_GATES"))
    <3>1. CASE Writing("top")
      <4> DEFINE e == Gate!FlipTop(doc, Claim)
      <4>0. Claim \in Gate!Final
        BY DEF Claim, Gate!Final
      <4>1. doc' = e
        BY <2>1, <3>1, SameWriters
      <4>2. /\ e \in Seq(Gate!Line) /\ Gate!Shaped(e) /\ Gate!OwnLines(e) /\ Len(e) = Len(doc)
            /\ \A y : Gate!Closed(doc, y) => Gate!Closed(e, y)
            /\ Gate!NoDouble(doc) => Gate!NoDouble(e)
        BY <2>2, <4>0, Gate!FlipTopKeeps
      <4> HIDE DEF e
      <4>3. e # <<>>
        BY <2>2, <4>2, EmptySeq
      <4> QED BY <2>2, <4>1, <4>2, <4>3
    <3>2. CASE ~Writing("top")
      BY <2>1, <2>2, <3>2
    <3> QED BY <3>1, <3>2
  <2>6. DocumentStands'
    BY <2>2, <2>4, <2>5 DEF DocumentStands
  <2>7. Gate!Closed(doc', Has("RUNTIME_GATES")') /\ (Waits' <=> Waits)
    <3>1. Has("RUNTIME_GATES")' = Has("RUNTIME_GATES")
      BY <2>3 DEF Has
    <3> QED BY <2>3, <2>5, <3>1 DEF Has, Waits
  <2> QED BY <2>1, <2>5, <2>6, <2>7, ClosedWriting DEF Wrote
<1>4. CASE Crash
  <2>1. /\ todo' = <<>> /\ route' = Idle /\ UNCHANGED <<env, doc, files, skip, results>>
    BY <1>4 DEF Crash, content
  <2>2. DocumentStands' /\ (StructurallySkipped' <=> StructurallySkipped)
    BY <2>1 DEF ClosedInv, DocumentStands, StructurallySkipped
  <2> QED BY <2>1, <2>2, ClosedReturned DEF ClosedInv, SkipStands, CompletionStands, Idle, Waits, Has
<1> QED BY <1>1, <1>2, <1>3, <1>4, ClosedByGate

LEMMA ClosedStep ==
  Templated /\ IInv /\ EarnedInv /\ ClosedInv /\ [Next]_vars => ClosedInv'
<1>1. ASSUME ClosedInv, UNCHANGED vars PROVE ClosedInv'
  BY <1>1 DEF vars, content, ClosedInv, DocumentStands, SkipStands, CompletionStands, TicksFirst,
     StructurallySkipped, Waits, Has, Running, Applying
<1> QED BY <1>1, ClosedProbe, ClosedSkill, ClosedOthers, ClosedPseudo, ClosedCompletion
        DEF IInv, Next, Pseudo

\* A feature whose SPEC.md says Complete owes no deliverable, and a verification
\* row only to RUNTIME_GATES.md: for every document from the template and every
\* environment, however often __mark_complete__ dies and is resumed and whatever
\* skills, people and testers do to the document after its receipt.
THEOREM ClosedFeaturesOweNothing ==
  ASSUME Templated
  PROVE  Spec => []ClosedOwesNothing
<1>1. IInv /\ EarnedInv /\ ClosedInv => ClosedOwesNothing
  <2> SUFFICES ASSUME IInv, EarnedInv, ClosedInv, spec = "Complete", NEW i \in OpenRows(doc)
               PROVE  \/ i \in Scan(EnterRouter, LAMBDA s, l : s.superseded \/ s.descoped \/ l.descoped, doc)
                      \/ Has("RUNTIME_GATES") /\ i \in enumerate_deferred_verification_rows(doc)
    BY DEF ClosedOwesNothing
  <2>1. Gate!Closed(doc, Has("RUNTIME_GATES")) /\ Gate!Shaped(doc) /\ doc \in Seq(Gate!Line)
    BY SameScanners DEF IInv, CompletionClaimHasReceipt, ClosedInv, CompletionStands, DocumentStands,
       EarnedInv, PipelineTypes
  <2>2. i \in Gate!OpenRows(doc)
    BY SameWriters
  <2>3. \/ i \in Gate!Let_go(doc)
        \/ Has("RUNTIME_GATES") /\ i \in Gate!enumerate_deferred_verification_rows(doc)
    BY <2>1, <2>2, Gate!ClosedRows
  <2> QED BY <2>3, SameWriters
<1>2. Templated /\ IInv /\ EarnedInv /\ ClosedInv /\ [Next]_vars => IInv' /\ EarnedInv' /\ ClosedInv'
  BY NextIInv, EarnedStep, ClosedStep
<1>3. Init => IInv /\ EarnedInv /\ ClosedInv
  BY InitIInv, EarnedInit, ClosedInit
<1>4. IInv /\ EarnedInv /\ ClosedInv /\ [Next]_vars => IInv' /\ EarnedInv' /\ ClosedInv'
  BY <1>2
<1> QED BY <1>1, <1>3, <1>4, PTL DEF Spec

-----------------------------------------------------------------------------
(* What the router names is not refused. *)

\* What is asked of the documents that planners write: a phase states its status
\* below its header or not at all, and has a row if that is not terminal; no row
\* is for another host or dropped and for verification; a status line that says
\* Superseded says it as parse_phases does; an open box is "[ ]", not "[]"; no
\* two phases have the same heading.
GapFree == \A d \in Docs : Gate!Shaped(d) /\ Gate!NoGap(d)

\* Until the receipt is written they stay so.
DocHolds == ~Has("COMPLETED") => Gate!Shaped(doc) /\ Gate!NoGap(doc)

\* No /mcp-test runs for the feature.
Untested == env.host = "cloud" \/ StructurallySkipped

\* Where none runs there are no results and no one's excuse but the structural
\* one, and that is what a feature without a surface is validated by; nothing is
\* validated in the cloud.
HostStands ==
  /\ Untested => results.result = "none" /\ skip \in {"none", "structural"} /\ ~Waits
  /\ skip = "structural" => StructurallySkipped
  /\ env.host = "cloud" => ~Has("VALIDATED") /\ skip = "none"
  /\ StructurallySkipped /\ Has("VALIDATED") => skip = "structural"

\* What sends a feature to the gate.
Sendable ==
  /\ Has("VALIDATED") /\ ~Has("PROVISIONAL") /\ OnlyChecks
  /\ \/ StructurallySkipped \/ results.result = "gap"
     \/ ~uncovered_verification_rows_remain(doc, Evidence.count)

\* What the router read still stands when the pseudo-skill reads it.
AnswerHolds ==
  /\ Running("mcp-test") => ~Untested
  /\ Applying("grant_skip_no_mcp_surface") => StructurallySkipped /\ env.host # "cloud"
  /\ Applying("write_validated_from_skip") => skip # "none" /\ Waived
  /\ Applying("write_validated_from_results") /\ route.fresh => MayValidate
  /\ Applying("mark_complete") => Sendable

\* The gate has nothing left to tick, or results that are of other code.
TickedOut ==
  \/ Tickable(doc) = {} \/ Cardinality(Tickable(doc)) > Evidence.count
  \/ results.age = "other"

Whole == <<"tick", "phases">> \o CompletionTail

\* Ticks and flips are made before the receipt, of what was sent.
WritingHolds ==
  /\ todo # <<>> => route.what = "mark_complete"
  /\ Has("COMPLETED") => \A i \in DOMAIN todo : todo[i] \notin {"tick", "phases"}
  /\ ~Has("COMPLETED") => todo \in {<<>>, CompletionTail, Tail(Whole), Whole}
  /\ todo # <<>> /\ Head(todo) \in {"tick", "phases"} => Sendable
  /\ todo # <<>> /\ Head(todo) = "phases" => TickedOut

AcceptedInv == DocHolds /\ HostStands /\ AnswerHolds /\ WritingHolds /\ RoutedIsAccepted

\* The rest of the gate's readers are those of that module as well.
LEMMA SameReaders ==
  ASSUME NEW d
  PROVE  /\ Gate!DoneRows(d) = DoneRows(d)
         /\ Gate!Tickable(d) = Tickable(d)
         /\ Gate!collect_uncovered(d) = collect_uncovered(d)
         /\ \A n : Gate!autotick_verification_rows(d, n) = autotick_verification_rows(d, n)
         /\ \A n : Gate!uncovered_verification_rows_remain(d, n)
                     <=> uncovered_verification_rows_remain(d, n)
         /\ Gate!ChecksLeft(d) <=> (Unchecked(d) > 0 => remaining_unchecked_are_verification_only(d))
<1>1. Gate!OpenRows(d) = OpenRows(d)
  BY SameWriters
<1>2. Gate!DoneRows(d) = DoneRows(d)
  BY DEF Gate!DoneRows, DoneRows, Gate!DoneRow, DoneRow
<1>3. \A S : Gate!Cardinality(S) = Cardinality(S)
  BY DEF Gate!Cardinality, Cardinality
<1>4. Gate!Tickable(d) = Tickable(d)
  BY DEF Gate!Tickable, Tickable, Gate!Scan, Scan, Gate!ScopeAt, ScopeAt, Gate!EnterAutotick,
     EnterAutotick, Gate!MarkedRow, MarkedRow, Gate!Spaced, Spaced, Gate!OpenRows,
     OpenRows, Gate!OpenRow, OpenRow,
     Gate!NoScope, NoScope, Gate!Supersedes, Supersedes, Gate!PlainBold, PlainBold
<1>5. Gate!collect_uncovered(d) = collect_uncovered(d)
  BY DEF Gate!collect_uncovered, collect_uncovered, Gate!Scan, Scan, Gate!ScopeAt, ScopeAt,
     Gate!EnterCover, EnterCover, Gate!Collects, Collects, Gate!Spaced, Spaced, Gate!CanonicalRow, CanonicalRow,
     Gate!OpenRows, OpenRows, Gate!OpenRow, OpenRow, Gate!NoScope, NoScope, Gate!Names, Names,
     Gate!Titled, Titled, Gate!Supersedes, Supersedes, Gate!PlainBold, PlainBold
<1>6. ASSUME NEW n PROVE Gate!autotick_verification_rows(d, n) = autotick_verification_rows(d, n)
  BY <1>3, <1>4 DEF Gate!autotick_verification_rows, autotick_verification_rows,
     Gate!Audited, Audited
<1>7. ASSUME NEW n
      PROVE  Gate!uncovered_verification_rows_remain(d, n) <=> uncovered_verification_rows_remain(d, n)
  BY <1>3, <1>5, Zenon DEF Gate!uncovered_verification_rows_remain, uncovered_verification_rows_remain
<1>8. Gate!Scan(Gate!EnterRouter, Gate!ExemptForRouter, d) = Scan(EnterRouter, ExemptForRouter, d)
  BY DEF Gate!Scan, Scan, Gate!ScopeAt, ScopeAt, Gate!EnterRouter, EnterRouter,
     Gate!ExemptForRouter, ExemptForRouter, Gate!OpenRows, OpenRows, Gate!OpenRow, OpenRow,
     Gate!NoScope, NoScope, Gate!Names, Names, Gate!Titled, Titled,
     Gate!Supersedes, Supersedes, Gate!PlainBold, PlainBold
<1>9. /\ Gate!remaining_unchecked_are_verification_only(d) <=> remaining_unchecked_are_verification_only(d)
      /\ Gate!Unchecked(d) = Unchecked(d)
  BY <1>1, <1>3, <1>8, Zenon DEF Gate!remaining_unchecked_are_verification_only,
     remaining_unchecked_are_verification_only, Gate!Unchecked, Unchecked
<1>10. Gate!ChecksLeft(d) <=> (Unchecked(d) > 0 => remaining_unchecked_are_verification_only(d))
  BY <1>9 DEF Gate!ChecksLeft
<1> QED BY <1>2, <1>4, <1>5, <1>6, <1>7, <1>10

\* What sends a feature does not depend on the age of its results.
LEMMA SendableKept ==
  ASSUME UNCHANGED <<env, doc>>, results'.result = results.result, results'.count = results.count,
         Has("VALIDATED")' <=> Has("VALIDATED"), Has("PROVISIONAL")' <=> Has("PROVISIONAL")
  PROVE  (Sendable' <=> Sendable) /\ Evidence.count' = Evidence.count
<1>1. (StructurallySkipped' <=> StructurallySkipped) /\ (OnlyChecks' <=> OnlyChecks)
  BY DEF StructurallySkipped, OnlyChecks
<1>2. Evidence.count' = Evidence.count
  BY DEF Evidence, Passing
<1>3. uncovered_verification_rows_remain(doc, Evidence.count)'
        <=> uncovered_verification_rows_remain(doc, Evidence.count)
  BY <1>2
<1> QED BY <1>1, <1>2, <1>3 DEF Sendable

\* The invariant from its parts where a probe follows.
LEMMA AcceptedReturned ==
  ASSUME DocHolds', HostStands', todo' = <<>>, route'.do \notin {"run", "apply"},
         route'.do = "refused" /\ route'.fresh => route'.what = "mark_complete" /\ Gap'
  PROVE  AcceptedInv'
BY DEF AcceptedInv, AnswerHolds, WritingHolds, RoutedIsAccepted, Running, Applying

LEMMA AcceptedInit == Init => AcceptedInv
<1> SUFFICES ASSUME Init PROVE AcceptedInv
  OBVIOUS
<1>1. /\ doc = <<>> /\ todo = <<>> /\ route.do = "none" /\ skip = "none" /\ results.result = "none"
  BY DEF Init, Idle, NoResults
<1>2. ~Waits /\ ~Has("COMPLETED") /\ ~Has("VALIDATED")
  BY FeaturePipelineAssumption DEF Init, Waits, Has, Env
<1>3. DOMAIN doc = {} /\ Gate!OpenRows(doc) = {}
  BY <1>1 DEF Gate!OpenRows
<1>4. Gate!collect_uncovered(doc).host = {} /\ Gate!Tickable(doc) = {}
  BY <1>3, Zenon DEF Gate!collect_uncovered, Gate!Tickable, Gate!Scan
<1>5. Gate!PhaseStarts(doc) = {}
  BY <1>3 DEF Gate!PhaseStarts
<1>6. DocHolds
  BY <1>3, <1>4, <1>5 DEF DocHolds, Gate!Shaped, Gate!NoGap, Gate!Distinct
<1> QED BY <1>1, <1>2, <1>6 DEF AcceptedInv, HostStands, AnswerHolds, WritingHolds,
           RoutedIsAccepted, Running, Applying

\* A probe says what stands.
LEMMA AcceptedProbe == EarnedInv /\ AcceptedInv /\ Probe => AcceptedInv'
<1> SUFFICES ASSUME EarnedInv, AcceptedInv, Probe PROVE AcceptedInv'
  OBVIOUS
<1>1. /\ route' = [do |-> Route.do, what |-> Route.what, fresh |-> TRUE]
      /\ todo = <<>> /\ UNCHANGED <<env, doc, skip, results, todo>>
  BY DEF Probe
<1>2. \A f \in {"COMPLETED", "VALIDATED", "PROVISIONAL", "DEFERRED_REQUIRES_DEVICE"} :
        f \in files' <=> f \in files
  BY DEF Probe
<1>3. /\ (Has("COMPLETED")' <=> Has("COMPLETED")) /\ (Waits' <=> Waits)
      /\ (Has("VALIDATED")' <=> Has("VALIDATED")) /\ (Has("PROVISIONAL")' <=> Has("PROVISIONAL"))
  BY <1>2 DEF Has, Waits
<1>4. (StructurallySkipped' <=> StructurallySkipped) /\ (Untested' <=> Untested)
  BY <1>1 DEF StructurallySkipped, Untested
<1>5. Route \in Test /\ Grounded(Route)
  BY RouteIsGrounded
<1>6. DocHolds'
  BY <1>1, <1>3 DEF AcceptedInv, DocHolds
<1>7. HostStands'
  BY <1>1, <1>3, <1>4 DEF AcceptedInv, HostStands
<1>8. WritingHolds' /\ RoutedIsAccepted'
  BY <1>1, <1>3, <1>5 DEF WritingHolds, RoutedIsAccepted, Test, Orders
<1>9. (Waived' <=> Waived) /\ (Passing' <=> Passing)
  BY <1>1 DEF Waived, Passing
<1>10. (Applying("mark_complete") => Sendable)'
  <2>1. ASSUME Route.what = "mark_complete" PROVE Sendable
    <3>1. /\ Has("VALIDATED") /\ ~Has("PROVISIONAL") /\ ~Uncovered
          /\ env.host = "cloud" \/ OnlyChecks
      BY <1>5, <2>1 DEF Grounded
    <3>2. env.host # "cloud"
      BY <3>1 DEF AcceptedInv, HostStands
    <3> QED BY <3>1, <3>2 DEF Sendable, Uncovered
  <2>2. Sendable' <=> Sendable
    BY <1>1, <1>3, SendableKept
  <2> QED BY <1>1, <2>1, <2>2 DEF Applying
<1>11. (Running("mcp-test") => ~Untested)'
  BY <1>1, <1>4, <1>5 DEF Running, Grounded, AcceptedInv, HostStands, Untested, Passing
<1>12. (/\ Applying("grant_skip_no_mcp_surface") => StructurallySkipped /\ env.host # "cloud"
        /\ Applying("write_validated_from_skip") => skip # "none" /\ Waived)'
  BY <1>1, <1>4, <1>5, <1>9 DEF Applying, Grounded
<1>13. (Applying("write_validated_from_results") /\ route.fresh => MayValidate)'
  BY <1>1, <1>5, <1>9 DEF Applying, Grounded, MayValidate, EarnedInv, PipelineTypes
<1>14. AnswerHolds'
  BY <1>10, <1>11, <1>12, <1>13 DEF AnswerHolds
<1> QED BY <1>6, <1>7, <1>8, <1>14 DEF AcceptedInv

\* Work on the rows of a document that is not closed opens no gap in it.
LEMMA HeldWork ==
  ASSUME DocHolds, doc \in Seq(Line), doc' \in Seq(Line), Len(doc') = Len(doc),
         Has("COMPLETED") => Has("COMPLETED")',
         \A j \in 1 .. Len(doc) : Gate!Worked(doc[j], doc'[j]),
         Gate!OpenRows(doc) \cup Gate!DoneRows(doc)
           \subseteq Gate!OpenRows(doc') \cup Gate!DoneRows(doc'),
         ~Has("COMPLETED") =>
           \A j \in Gate!OpenRows(doc') :
             \/ doc'[j] = doc[j]
             \/ /\ Gate!Collected(doc, j)
                /\ (doc'[j].host <=> doc[j].host) /\ (doc'[j].descoped <=> doc[j].descoped)
                /\ doc[j].verification => doc'[j].verification
             \/ /\ j \notin Gate!Tickable(doc) /\ doc'[j].descoped
                /\ (doc'[j].verification <=> doc[j].verification)
  PROVE  DocHolds'
<1> SUFFICES ASSUME ~Has("COMPLETED")' PROVE Gate!Shaped(doc') /\ Gate!NoGap(doc')
  BY DEF DocHolds
<1> DEFINE d == doc
           e == doc'
<1>1. d \in Seq(Gate!Line) /\ e \in Seq(Gate!Line) /\ Gate!Shaped(d) /\ Gate!NoGap(d)
  BY SameScanners DEF DocHolds
<1>2. Gate!Shaped(e)
  <2>1. Len(e) = Len(d) /\ \A j \in 1 .. Len(d) : Gate!Worked(d[j], e[j])
    OBVIOUS
  <2> HIDE DEF d, e
  <2> QED BY <1>1, <2>1, Gate!WorkKeeps
<1>3. Gate!NoGap(e)
  <2>1. /\ Len(e) = Len(d) /\ \A j \in 1 .. Len(d) : Gate!Worked(d[j], e[j])
        /\ Gate!OpenRows(d) \cup Gate!DoneRows(d) \subseteq Gate!OpenRows(e) \cup Gate!DoneRows(e)
    OBVIOUS
  <2>2. \A j \in Gate!OpenRows(e) :
           \/ e[j] = d[j]
           \/ /\ Gate!Collected(d, j)
              /\ (e[j].host <=> d[j].host) /\ (e[j].descoped <=> d[j].descoped)
              /\ d[j].verification => e[j].verification
           \/ /\ j \notin Gate!Tickable(d) /\ e[j].descoped
              /\ (e[j].verification <=> d[j].verification)
    OBVIOUS
  <2> HIDE DEF d, e
  <2> QED BY <1>1, <2>1, <2>2, Gate!WorkKeepsNoGap
<1> QED BY <1>2, <1>3

\* The row a worker ticks or drops is not one the gate would tick.
LEMMA WorkHolds ==
  ASSUME DocHolds, doc \in Seq(Line), NEW i \in OpenRows(doc),
         i \notin Scan(EnterRouter, ExemptForRouter, doc),
         \/ doc' = [doc EXCEPT ![i] = Ticked(@)]
         \/ doc' = [doc EXCEPT ![i] = Descoped(@)],
         Has("COMPLETED") => Has("COMPLETED")'
  PROVE  DocHolds'
<1>1. /\ doc' \in Seq(Line) /\ Len(doc') = Len(doc)
      /\ \A j \in 1 .. Len(doc) : Gate!Worked(doc[j], doc'[j])
  BY WorkIsWork
<1>2. i \in 1 .. Len(doc) /\ doc[i] \in Line /\ doc[i].is = "row" /\ Len(doc) \in Nat
      /\ doc[i].section = "none"
  BY DEF OpenRows, OpenRow, Line
<1>3. \A j \in 1 .. Len(doc) : j # i => doc'[j] = doc[j]
  BY <1>2
<1>4. \/ doc'[i] = [doc[i] EXCEPT !.value = "ticked"]
      \/ doc'[i] = [doc[i] EXCEPT !.descoped = TRUE]
  <2>1. doc'[i] = Ticked(doc[i]) \/ doc'[i] = Descoped(doc[i])
    BY <1>2
  <2> QED BY <2>1 DEF Ticked, Descoped
<1>5. \/ Gate!DoneRow(doc'[i])
      \/ /\ Gate!OpenRow(doc'[i]) /\ doc'[i].descoped
         /\ (doc'[i].verification <=> doc[i].verification)
  <2>1. Gate!OpenRow(doc[i])
    BY DEF OpenRows, OpenRow, Gate!OpenRow
  <2>2. CASE doc'[i] = [doc[i] EXCEPT !.value = "ticked"]
    <3>1. doc'[i].is = "row" /\ doc'[i].value = "ticked"
      BY <1>2, <2>2 DEF Line
    <3> QED BY <3>1 DEF Gate!DoneRow
  <2>3. CASE doc'[i] = [doc[i] EXCEPT !.descoped = TRUE]
    <3>1. /\ doc'[i].is = doc[i].is /\ doc'[i].value = doc[i].value /\ doc'[i].descoped
          /\ doc'[i].verification = doc[i].verification
      BY <1>2, <2>3 DEF Line
    <3> QED BY <2>1, <3>1 DEF Gate!OpenRow
  <2> QED BY <1>4, <2>2, <2>3
<1>6. Gate!OpenRows(doc) \cup Gate!DoneRows(doc) \subseteq Gate!OpenRows(doc') \cup Gate!DoneRows(doc')
  <2>1. DOMAIN doc' = DOMAIN doc /\ DOMAIN doc = 1 .. Len(doc)
    BY <1>1
  <2> QED BY <1>3, <1>5, <2>1 DEF Gate!OpenRows, Gate!DoneRows
<1>7. ~Has("COMPLETED") => i \notin Gate!Tickable(doc)
  <2>1. ~Has("COMPLETED") => Gate!Tickable(doc) \subseteq Gate!collect_uncovered(doc).rows
    BY DEF DocHolds, Gate!NoGap
  <2>2. i \notin collect_uncovered(doc).rows
    BY CollectedIsExempt
  <2> QED BY <2>1, <2>2, SameReaders
<1>8. ASSUME NEW j \in Gate!OpenRows(doc'), ~Has("COMPLETED")
      PROVE  \/ doc'[j] = doc[j]
             \/ /\ j \notin Gate!Tickable(doc) /\ doc'[j].descoped
                /\ (doc'[j].verification <=> doc[j].verification)
  <2>1. j \in 1 .. Len(doc) /\ Gate!OpenRow(doc'[j])
    BY <1>1, <1>8 DEF Gate!OpenRows
  <2>2. CASE j = i
    <3>1. ~Gate!DoneRow(doc'[i])
      BY <2>1, <2>2 DEF Gate!OpenRow, Gate!DoneRow
    <3> QED BY <1>5, <1>7, <1>8, <2>2, <3>1
  <2> QED BY <1>3, <2>1, <2>2
<1> QED BY <1>1, <1>6, <1>8, HeldWork

\* The rows a tester marks are collected ones.
LEMMA MarkHolds ==
  ASSUME DocHolds, doc \in Seq(Line), doc' = Migrated, Has("COMPLETED") => Has("COMPLETED")'
  PROVE  DocHolds'
<1> DEFINE S == collect_uncovered(doc).shim
<1>1. S \in SUBSET OpenRows(doc)
  BY Rows
<1>2. /\ doc' \in Seq(Line) /\ Len(doc') = Len(doc)
      /\ \A j \in 1 .. Len(doc) : Gate!Worked(doc[j], doc'[j])
  BY <1>1, MarkIsWork DEF Migrated
<1>3. /\ DOMAIN doc = 1 .. Len(doc) /\ DOMAIN doc' = DOMAIN doc /\ \A j \in DOMAIN doc : doc[j] \in Line
      /\ \A j \in DOMAIN doc : doc'[j] = IF j \in S THEN Marked(doc[j]) ELSE doc[j]
  BY DEF Migrated
<1>4. \A j \in S : Gate!Collected(doc, j) /\ j \in DOMAIN doc
  <2>1. S \subseteq Gate!collect_uncovered(doc).rows
    BY Rows, SameReaders
  <2>2. Gate!collect_uncovered(doc).rows = {i \in Gate!OpenRows(doc) : Gate!Collected(doc, i)}
    BY Gate!CoverSets
  <2> QED BY <2>1, <2>2 DEF Gate!OpenRows
<1> HIDE DEF S
<1>5. ASSUME NEW j \in DOMAIN doc, j \in S
      PROVE  /\ doc'[j].is = doc[j].is /\ doc'[j].value = doc[j].value
             /\ doc'[j].host = doc[j].host /\ doc'[j].descoped = doc[j].descoped
             /\ doc'[j].verification
  <2>1. doc'[j] = [doc[j] EXCEPT !.verification = TRUE] /\ doc[j] \in Line
    BY <1>3, <1>5 DEF Marked
  <2> QED BY <2>1 DEF Line
<1>6. \A j \in DOMAIN doc : doc'[j].is = doc[j].is /\ doc'[j].value = doc[j].value
  BY <1>3, <1>5
<1>7. Gate!OpenRows(doc) \cup Gate!DoneRows(doc) \subseteq Gate!OpenRows(doc') \cup Gate!DoneRows(doc')
  BY <1>3, <1>6 DEF Gate!OpenRows, Gate!DoneRows, Gate!OpenRow, Gate!DoneRow
<1>8. ASSUME NEW j \in Gate!OpenRows(doc')
      PROVE  \/ doc'[j] = doc[j]
             \/ /\ Gate!Collected(doc, j)
                /\ (doc'[j].host <=> doc[j].host) /\ (doc'[j].descoped <=> doc[j].descoped)
                /\ doc[j].verification => doc'[j].verification
  <2>1. j \in DOMAIN doc
    BY <1>3, <1>8 DEF Gate!OpenRows
  <2> QED BY <1>3, <1>4, <1>5, <2>1
<1> QED BY <1>2, <1>7, <1>8, HeldWork

\* The skills: what they leave is judged by the next probe.
LEMMA AcceptedSkill == GapFree /\ EarnedInv /\ AcceptedInv /\ Skills => AcceptedInv'
<1> SUFFICES ASSUME GapFree, EarnedInv, AcceptedInv, Skills PROVE AcceptedInv'
  OBVIOUS
<1>1. Done /\ todo = <<>>
  BY DEF Skills, SpecSkill, RealignSkill, PlanFeature, WritePlan, ExecutePlan, McpTest,
     McpPasses, McpFallsShort, SpikeSkill, Running
<1>2. todo' = <<>> /\ route' = Idle /\ env' = env /\ route'.do = "none"
  BY <1>1 DEF Done, Idle
<1>3. (StructurallySkipped' <=> StructurallySkipped) /\ (Untested' <=> Untested)
  BY <1>2 DEF StructurallySkipped, Untested
<1>4. doc \in Seq(Line) /\ DocHolds /\ HostStands
  BY DEF EarnedInv, PipelineTypes, AcceptedInv
<1>5. ASSUME DocHolds', HostStands' PROVE AcceptedInv'
  BY <1>2, <1>5, AcceptedReturned
<1>6. ASSUME results'.result = results.result, skip' = skip,
             \A f \in {"VALIDATED", "DEFERRED_REQUIRES_DEVICE"} : f \in files' <=> f \in files
      PROVE  HostStands'
  <2>1. (Has("VALIDATED")' <=> Has("VALIDATED")) /\ (Waits' <=> Waits)
    BY <1>6 DEF Has, Waits
  <2> QED BY <1>2, <1>3, <1>4, <1>6, <2>1 DEF HostStands
<1>7. CASE SpecSkill \/ RealignSkill \/ WritePlan \/ SpikeSkill
  <2>1. UNCHANGED <<doc, results, skip>>
    BY <1>7 DEF SpecSkill, RealignSkill, WritePlan, SpikeSkill
  <2>2. \A f \in {"COMPLETED", "VALIDATED", "DEFERRED_REQUIRES_DEVICE"} : f \in files' <=> f \in files
    BY <1>7 DEF SpecSkill, RealignSkill, WritePlan, SpikeSkill, Remove
  <2>3. DocHolds'
    BY <1>4, <2>1, <2>2 DEF DocHolds, Has
  <2> QED BY <1>5, <1>6, <2>1, <2>2, <2>3
<1>8. CASE PlanFeature
  <2>1. doc' \in Docs /\ UNCHANGED <<files, results, skip>>
    BY <1>8 DEF PlanFeature
  <2>2. DocHolds'
    BY <2>1 DEF GapFree, DocHolds
  <2> QED BY <1>5, <1>6, <2>1, <2>2
<1>9. CASE ExecutePlan
  <2>1. /\ skip' = skip /\ (results' = Aged \/ results' = results)
        /\ \/ doc' = doc
           \/ \E i \in OpenRows(doc) : /\ i \notin Scan(EnterRouter, ExemptForRouter, doc)
                                       /\ \/ doc' = [doc EXCEPT ![i] = Ticked(@)]
                                          \/ doc' = [doc EXCEPT ![i] = Descoped(@)]
    BY <1>9 DEF ExecutePlan
  <2>2. \A f \in {"COMPLETED", "VALIDATED", "DEFERRED_REQUIRES_DEVICE"} : f \in files' <=> f \in files
    BY <1>9 DEF ExecutePlan
  <2>3. results'.result = results.result
    BY <2>1 DEF Aged, EarnedInv, PipelineTypes
  <2>4. Has("COMPLETED")' <=> Has("COMPLETED")
    BY <2>2 DEF Has
  <2>5. DocHolds'
    BY <1>4, <2>1, <2>4, WorkHolds DEF DocHolds
  <2> QED BY <1>5, <1>6, <2>1, <2>2, <2>3, <2>5
<1>10. ASSUME NEW n, McpPasses(n) PROVE AcceptedInv'
  <2>1. ~Untested /\ doc' = Migrated /\ skip' = skip
    BY <1>10 DEF McpPasses, AcceptedInv, AnswerHolds
  <2>2. "COMPLETED" \in files => "COMPLETED" \in files'
    BY <1>10 DEF McpPasses
  <2>3. DocHolds'
    BY <1>4, <2>1, <2>2, MarkHolds DEF Has
  <2>4. HostStands'
    BY <1>2, <1>3, <1>4, <2>1 DEF HostStands, Untested
  <2> QED BY <1>5, <2>3, <2>4
<1>11. CASE McpFallsShort
  <2>1. ~Untested /\ doc' = doc /\ (skip' = skip \/ skip' \in {"mcp-test", "pipeline"})
    BY <1>11 DEF McpFallsShort, AcceptedInv, AnswerHolds
  <2>2. "COMPLETED" \in files' <=> "COMPLETED" \in files
    BY <1>11 DEF McpFallsShort
  <2>3. DocHolds'
    BY <1>4, <2>1, <2>2 DEF DocHolds, Has
  <2>4. HostStands'
    BY <1>2, <1>3, <1>4, <2>1 DEF HostStands, Untested
  <2> QED BY <1>5, <2>3, <2>4
<1> QED BY <1>7, <1>8, <1>9, <1>10, <1>11 DEF Skills, McpTest

\* People do not take back what was validated; a feature that leaves the cloud
\* has nothing validated; results that age are no longer fresh.
LEMMA AcceptedOthers ==
  EarnedInv /\ AcceptedInv /\ (Operator \/ Handover \/ Drift) => AcceptedInv'
<1> SUFFICES ASSUME EarnedInv, AcceptedInv, Operator \/ Handover \/ Drift PROVE AcceptedInv'
  OBVIOUS
<1>1. \A f \in {"COMPLETED", "VALIDATED", "DEFERRED_REQUIRES_DEVICE"} : f \in files' <=> f \in files
  BY DEF Operator, Handover, Drift, Remove, Halts, content
<1>2. /\ (Has("COMPLETED")' <=> Has("COMPLETED")) /\ (Waits' <=> Waits)
      /\ (Has("VALIDATED")' <=> Has("VALIDATED"))
  BY <1>1 DEF Has, Waits
<1>3. DocHolds'
  BY <1>2 DEF AcceptedInv, DocHolds, Operator, Handover, Drift, content
<1>4. CASE Operator
  <2>1. /\ todo' = <<>> /\ route' = Idle /\ UNCHANGED <<env, results>>
        /\ skip' = skip \/ (skip = "pipeline" /\ skip' = "operator")
    BY <1>4 DEF Operator, Done
  <2>2. (StructurallySkipped' <=> StructurallySkipped) /\ (Untested' <=> Untested)
    BY <2>1 DEF StructurallySkipped, Untested
  <2>3. StructurallySkipped => Untested
    BY DEF Untested
  <2>4. env.host = "cloud" => Untested
    BY DEF Untested
  <2>5. HostStands'
    BY <1>2, <2>1, <2>2, <2>3, <2>4 DEF AcceptedInv, HostStands
  <2> QED BY <1>3, <2>1, <2>5, AcceptedReturned DEF Idle
<1>5. CASE Handover
  <2>1. /\ route' = Idle /\ UNCHANGED <<results, skip, todo>>
        /\ env' = [env EXCEPT !.host = Awaits] /\ Awaits # env.host
    BY <1>5 DEF Handover, content
  <2>2. todo = <<>>
    BY <1>5 DEF Handover, EarnedInv, WritingStands
  <2>3. Awaits # "cloud" /\ env \in Env
    BY <2>1 DEF Awaits, EarnedInv, PipelineTypes
  <2>4. /\ env'.notRequired = env.notRequired /\ env'.surface = env.surface
        /\ env'.host # "cloud"
    BY <2>1, <2>3 DEF Env
  <2>5. (StructurallySkipped' <=> StructurallySkipped) /\ (Untested' => Untested)
    BY <2>4 DEF StructurallySkipped, Untested
  <2>6. HostStands'
    BY <1>2, <2>1, <2>4, <2>5 DEF AcceptedInv, HostStands
  <2> QED BY <1>3, <2>1, <2>2, <2>6, AcceptedReturned DEF Idle
<1>6. CASE Drift
  <2>1. /\ UNCHANGED <<env, doc, skip, files, todo>> /\ todo = <<>>
        /\ results' = Aged /\ route' = [route EXCEPT !.fresh = FALSE]
    BY <1>6 DEF Drift
  <2>2. results'.result = results.result /\ results'.count = results.count
    BY <2>1 DEF Aged, EarnedInv, PipelineTypes
  <2>3. route'.do = route.do /\ route'.what = route.what /\ ~route'.fresh
    BY <2>1 DEF EarnedInv, PipelineTypes
  <2>4. (StructurallySkipped' <=> StructurallySkipped) /\ (Untested' <=> Untested)
    BY <2>1 DEF StructurallySkipped, Untested
  <2>5. Sendable' <=> Sendable
    BY <2>1, <2>2, SendableKept DEF Has
  <2>6. HostStands'
    BY <1>2, <2>1, <2>2, <2>4 DEF AcceptedInv, HostStands
  <2>7. AnswerHolds'
    BY <2>1, <2>3, <2>4, <2>5 DEF AcceptedInv, AnswerHolds, Running, Applying, Waived
  <2>8. WritingHolds' /\ RoutedIsAccepted'
    BY <2>1, <2>3 DEF AcceptedInv, WritingHolds, RoutedIsAccepted
  <2> QED BY <1>3, <2>6, <2>7, <2>8 DEF AcceptedInv
<1> QED BY <1>4, <1>5, <1>6

\* The pseudo-skills but the last one do what they are named for.
LEMMA AcceptedPseudo ==
  /\ EarnedInv /\ AcceptedInv
  /\ \/ ProvisionalAccept \/ FlipPlan \/ WriteDeferred \/ GrantSkip
     \/ WriteFromSkip \/ WriteFromResults
  => AcceptedInv'
<1> SUFFICES ASSUME EarnedInv, AcceptedInv,
                    \/ ProvisionalAccept \/ FlipPlan \/ WriteDeferred \/ GrantSkip
                    \/ WriteFromSkip \/ WriteFromResults
             PROVE  AcceptedInv'
  OBVIOUS
<1>1. /\ todo' = <<>> /\ UNCHANGED <<env, doc, results>>
  BY DEF ProvisionalAccept, FlipPlan, WriteDeferred, GrantSkip, WriteFromSkip,
     WriteFromResults, Done, Refused, Applying
<1>2. \/ route' = Idle
      \/ route' = [route EXCEPT !.do = "refused"] /\ ~route.fresh
  BY DEF ProvisionalAccept, FlipPlan, WriteDeferred, GrantSkip, WriteFromSkip,
     WriteFromResults, Done, Refused, AcceptedInv, AnswerHolds
<1>3. /\ route'.do \notin {"run", "apply"}
      /\ ~(route'.do = "refused" /\ route'.fresh)
  <2>1. CASE route' = Idle
    BY <2>1 DEF Idle
  <2>2. CASE route' = [route EXCEPT !.do = "refused"] /\ ~route.fresh
    BY <2>2 DEF EarnedInv, PipelineTypes
  <2> QED BY <1>2, <2>1, <2>2
<1>4. (StructurallySkipped' <=> StructurallySkipped) /\ (Untested' <=> Untested)
  BY <1>1 DEF StructurallySkipped, Untested
<1>5. \A f \in {"COMPLETED", "DEFERRED_REQUIRES_DEVICE"} : f \in files' <=> f \in files
  BY DEF ProvisionalAccept, FlipPlan, WriteDeferred, GrantSkip, WriteFromSkip, WriteFromResults
<1>6. DocHolds'
  BY <1>1, <1>5 DEF AcceptedInv, DocHolds, Has
<1>7. Waits' <=> Waits
  BY <1>5 DEF Waits, Has
<1>8. CASE ProvisionalAccept \/ FlipPlan \/ WriteDeferred
  <2>1. UNCHANGED skip /\ ("VALIDATED" \in files' <=> "VALIDATED" \in files)
    BY <1>8 DEF ProvisionalAccept, FlipPlan, WriteDeferred
  <2>2. HostStands'
    BY <1>1, <1>4, <1>7, <2>1 DEF AcceptedInv, HostStands, Has
  <2> QED BY <1>1, <1>3, <1>6, <2>2, AcceptedReturned
<1>9. CASE GrantSkip
  <2>1. /\ UNCHANGED files /\ skip' = "structural" /\ StructurallySkipped /\ env.host # "cloud"
    BY <1>9 DEF GrantSkip, AcceptedInv, AnswerHolds
  <2>2. HostStands'
    BY <1>1, <1>4, <1>7, <2>1 DEF AcceptedInv, HostStands
  <2> QED BY <1>1, <1>3, <1>6, <2>2, AcceptedReturned
<1>10. CASE WriteFromSkip
  <2>1. UNCHANGED skip /\ skip # "none"
    BY <1>10 DEF WriteFromSkip, AcceptedInv, AnswerHolds
  <2>2. env.host # "cloud" /\ (StructurallySkipped => skip = "structural")
    BY <2>1 DEF AcceptedInv, HostStands, Untested
  <2>3. HostStands'
    BY <1>1, <1>4, <1>7, <2>1, <2>2 DEF AcceptedInv, HostStands
  <2> QED BY <1>1, <1>3, <1>6, <2>3, AcceptedReturned
<1>11. CASE WriteFromResults
  <2>1. UNCHANGED skip /\ (UNCHANGED files \/ results.result # "none")
    BY <1>11 DEF WriteFromResults, MayValidate, Passing
  <2>2. UNCHANGED files \/ ~Untested
    BY <2>1 DEF AcceptedInv, HostStands
  <2>3. HostStands'
    BY <1>1, <1>4, <1>7, <2>1, <2>2 DEF AcceptedInv, HostStands, Has, Untested
  <2> QED BY <1>1, <1>3, <1>6, <2>3, AcceptedReturned
<1> QED BY <1>8, <1>9, <1>10, <1>11

\* The writes in their order: the ticks, the flip of the phases, the rest.
LEMMA WritesInOrder ==
  /\ Whole # <<>> /\ Head(Whole) = "tick"
  /\ Tail(Whole) # <<>> /\ Head(Tail(Whole)) = "phases" /\ Tail(Tail(Whole)) = CompletionTail
  /\ CompletionTail # <<>> /\ Head(CompletionTail) = "receipt"
  /\ \A i \in DOMAIN CompletionTail : CompletionTail[i] \notin {"tick", "phases"}
  /\ \A i \in DOMAIN Tail(CompletionTail) : Tail(CompletionTail)[i] \notin {"tick", "phases"}
<1> DEFINE Others == Writes \ {"tick", "phases"}
           first == <<"tick", "phases">>
<1>1. CompletionTail \in Seq(Others)
  <2> DEFINE bug == <<"receipt", "spec", "top", "validated", "retro", "deferred">>
             feature == <<"receipt", "spec", "top", "validated", "retro", "deferred", "queue", "roadmap">>
  <2>1. bug \in Seq(Others) /\ feature \in Seq(Others)
    BY DEF Writes
  <2>2. CompletionTail = bug \/ CompletionTail = feature
    BY DEF CompletionTail
  <2> HIDE DEF bug, feature, Others
  <2> QED BY <2>1, <2>2
<1>2. /\ CompletionTail \in Seq(Writes) /\ CompletionTail # <<>> /\ Len(CompletionTail) \in Nat
      /\ CompletionTail[1] = "receipt"
  BY TheTail
<1>3. Tail(CompletionTail) \in Seq(Others)
  BY <1>1, <1>2, HeadTailProperties
<1>4. /\ \A i \in DOMAIN CompletionTail : CompletionTail[i] \in Others
      /\ \A i \in DOMAIN Tail(CompletionTail) : Tail(CompletionTail)[i] \in Others
  <2> HIDE DEF Others
  <2> QED BY <1>1, <1>3
<1>5. first \in Seq(Writes) /\ Len(first) = 2 /\ first[1] = "tick" /\ first[2] = "phases"
  BY DEF Writes
<1> DEFINE n == Len(CompletionTail)
<1>6. /\ Whole \in Seq(Writes) /\ Len(Whole) = 2 + n
      /\ \A i \in 1 .. 2 + n : Whole[i] = IF i <= 2 THEN first[i] ELSE CompletionTail[i - 2]
  <2>1. Whole = first \o CompletionTail
    BY DEF Whole
  <2> HIDE DEF first
  <2>2. /\ Whole \in Seq(Writes) /\ Len(Whole) = Len(first) + Len(CompletionTail)
        /\ \A i \in 1 .. Len(first) + Len(CompletionTail) :
             Whole[i] = IF i <= Len(first) THEN first[i] ELSE CompletionTail[i - Len(first)]
    BY <1>2, <1>5, <2>1, ConcatProperties, Zenon
  <2> QED BY <1>5, <2>2
<1>7. n \in Nat
  BY <1>2
<1> HIDE DEF n
<1>8. Whole # <<>> /\ Whole[1] = "tick" /\ Whole[2] = "phases" /\ 1 \in DOMAIN Whole
  BY <1>5, <1>6, <1>7
<1> DEFINE t == Tail(Whole)
<1>9. t \in Seq(Writes) /\ Len(t) = 1 + n /\ \A i \in 1 .. 1 + n : t[i] = Whole[i + 1]
  BY <1>6, <1>7, <1>8, HeadTailProperties
<1> HIDE DEF t
<1>10. t # <<>> /\ t[1] = "phases" /\ 1 \in DOMAIN t
  BY <1>7, <1>8, <1>9
<1> DEFINE u == Tail(t)
<1>11. u \in Seq(Writes) /\ Len(u) = n /\ \A i \in 1 .. n : u[i] = t[i + 1]
  BY <1>7, <1>9, <1>10, HeadTailProperties
<1> HIDE DEF u
<1>12. u = CompletionTail
  <2>1. \A i \in 1 .. n : u[i] = CompletionTail[i]
    <3>1. SUFFICES ASSUME NEW i \in 1 .. n PROVE u[i] = CompletionTail[i]
      OBVIOUS
    <3>2. i + 1 \in 1 .. 1 + n /\ (i + 1) + 1 \in 1 .. 2 + n /\ ~((i + 1) + 1 <= 2)
          /\ ((i + 1) + 1) - 2 = i
      BY <1>7
    <3>3. u[i] = Whole[(i + 1) + 1]
      BY <1>9, <1>11, <3>2
    <3> QED BY <1>6, <3>2, <3>3
  <2> QED BY <1>2, <1>11, <2>1, SeqEqual DEF n
<1>13. Head(Whole) = "tick" /\ Head(t) = "phases"
  BY <1>6, <1>8, <1>9, <1>10, FirstIsHead
<1>14. Head(CompletionTail) = "receipt"
  <2>1. 1 \in DOMAIN CompletionTail
    BY <1>2, EmptySeq
  <2> QED BY <1>2, <2>1, FirstIsHead
<1> QED BY <1>2, <1>4, <1>8, <1>10, <1>12, <1>13, <1>14 DEF t, u

\* Why the gate refuses what the router sent.
LEMMA RefusalIsGap ==
  ASSUME EarnedInv, AcceptedInv, Sendable, TickedOut, ~Has("COMPLETED"),
         LET deferred == IF DeferredRuntime THEN enumerate_deferred_verification_rows(doc) ELSE {}
         IN  phase_completion_plan(doc, deferred # {}).refused # {}
  PROVE  Gap
<1> SUFFICES ASSUME ~Gap PROVE FALSE
  OBVIOUS
<1> DEFINE n == Evidence.count
           s == skip = "structural"
<1>1. /\ doc \in Seq(Line) /\ doc \in Seq(Gate!Line) /\ Gate!Shaped(doc) /\ Gate!NoGap(doc)
  BY SameScanners DEF EarnedInv, PipelineTypes, AcceptedInv, DocHolds
<1>2. n \in Nat /\ s \in BOOLEAN
  BY DEF Evidence, EarnedInv, PipelineTypes
<1>3. s <=> StructurallySkipped
  BY DEF AcceptedInv, HostStands, Sendable
<1>4. DeferredRuntime <=> s
  BY <1>3 DEF DeferredRuntime, Waived, StructurallySkipped, Sendable
<1>5. autotick_verification_rows(doc, n) = doc
  <2>1. Tickable(doc) = {} \/ Cardinality(Tickable(doc)) > n
    BY DEF TickedOut, Gap
  <2>2. CASE Tickable(doc) = {}
    <3>1. doc = [i \in DOMAIN doc |-> doc[i]]
      BY <1>1
    <3> QED BY <2>2, <3>1 DEF autotick_verification_rows
  <2>3. CASE Cardinality(Tickable(doc)) > n
    BY <2>3 DEF autotick_verification_rows
  <2> QED BY <2>1, <2>2, <2>3
<1>6. s \/ ~uncovered_verification_rows_remain(doc, n)
  BY <1>3 DEF Sendable, Gap
<1>7. Gate!ImplementationDone /\ Gate!Covered
  <2>1. Gate!ChecksLeft(doc)
    BY SameReaders DEF Sendable, OnlyChecks
  <2>2. Gate!Covered
    BY <1>6, SameReaders DEF Gate!Covered
  <2> QED BY <2>1, <2>2 DEF Gate!ImplementationDone, Gate!ChecksLeft
<1>8. Gate!GateInv
  BY <1>1, <1>2, <1>7 DEF Gate!GateInv
<1>9. Gate!AfterTicks = doc
  BY <1>5, SameReaders DEF Gate!AfterTicks
<1>10. Gate!Plan.refused # {}
  <2> DEFINE deferred == IF DeferredRuntime THEN enumerate_deferred_verification_rows(doc) ELSE {}
  <2>1. Gate!Deferred = deferred
    BY <1>4, SameWriters DEF Gate!Deferred
  <2> HIDE DEF deferred
  <2>2. Gate!Plan = phase_completion_plan(doc, deferred # {})
    BY <1>9, <2>1, SameWriters DEF Gate!Plan
  <2> QED BY <2>2 DEF deferred
<1>11. Gate!Gaps(doc, s)
  BY <1>8, <1>9, <1>10, Gate!RefusedByGap
<1>12. s /\ Gate!collect_uncovered(doc).shim # {}
  BY <1>1, <1>11, Gate!OnlyUnmarked
<1> QED BY <1>3, <1>12, SameReaders DEF Gap

\* What the writes of __mark_complete__ leave alone.
LEMMA HostKept ==
  ASSUME EarnedInv, AcceptedInv, UNCHANGED <<env, results, skip>>, Waits' <=> Waits,
         Has("VALIDATED")' => Has("VALIDATED")
  PROVE  HostStands'
<1>1. (StructurallySkipped' <=> StructurallySkipped) /\ (Untested' <=> Untested)
  BY DEF StructurallySkipped, Untested
<1> QED BY <1>1 DEF AcceptedInv, HostStands

\* A completion under way asks for nothing and refuses nothing.
LEMMA AcceptedWriting ==
  ASSUME EarnedInv, AcceptedInv, DocHolds', HostStands', WritingHolds',
         todo # <<>>, route' = IF todo' = <<>> THEN Idle ELSE route
  PROVE  AcceptedInv'
<1>1. route.do = "apply" /\ (route' = Idle \/ (todo' # <<>> /\ route' = route))
  BY DEF EarnedInv, WritingStands
<1>2. RoutedIsAccepted' /\ AnswerHolds'
  <2>1. CASE route' = Idle
    BY <2>1 DEF RoutedIsAccepted, AnswerHolds, Running, Applying, Idle
  <2>2. CASE todo' # <<>> /\ route' = route
    BY <1>1, <2>2 DEF RoutedIsAccepted, AnswerHolds, Running, Applying
  <2> QED BY <1>1, <2>1, <2>2
<1> QED BY <1>2 DEF AcceptedInv

LEMMA SameOrder ==
  ASSUME UNCHANGED env
  PROVE  Whole' = Whole /\ CompletionTail' = CompletionTail /\ Tail(Whole)' = Tail(Whole)
<1>1. CompletionTail' = CompletionTail
  BY DEF CompletionTail
<1>2. Whole' = Whole
  BY <1>1 DEF Whole
<1> QED BY <1>1, <1>2

\* A completion begins with the ticks, or takes up what is left after the receipt.
LEMMA WritingFromStart ==
  ASSUME UNCHANGED env, route'.what = "mark_complete", Sendable',
         \/ todo' = Whole /\ ~Has("COMPLETED")'
         \/ todo' = Tail(CompletionTail) /\ Has("COMPLETED")'
  PROVE  WritingHolds' /\ todo' # <<>>
<1>1. CASE todo' = Whole /\ ~Has("COMPLETED")'
  <2>1. todo' # <<>> /\ Head(todo') = "tick" /\ "tick" # "phases"
    BY <1>1, WritesInOrder
  <2>2. todo' \in {<<>>, CompletionTail', Tail(Whole)', Whole'}
    BY <1>1, SameOrder, Zenon
  <2> QED BY <1>1, <2>1, <2>2, Zenon DEF WritingHolds
<1>2. CASE todo' = Tail(CompletionTail) /\ Has("COMPLETED")'
  <2>1. \A i \in DOMAIN todo' : todo'[i] \notin {"tick", "phases"}
    BY <1>2, WritesInOrder
  <2>2. todo' \in Seq(Writes) /\ todo' # <<>>
    BY <1>2, TheTail, MoreFollows
  <2>3. Head(todo') \notin {"tick", "phases"}
    BY <2>1, <2>2, EmptySeq, FirstIsHead
  <2> QED BY <1>2, <2>1, <2>2, <2>3, Zenon DEF WritingHolds
<1> QED BY <1>1, <1>2

LEMMA AcceptedStart == EarnedInv /\ AcceptedInv /\ MarkComplete => AcceptedInv'
<1> SUFFICES ASSUME EarnedInv, AcceptedInv, MarkComplete PROVE AcceptedInv'
  OBVIOUS
<1>1. /\ UNCHANGED <<env, content>> /\ Applying("mark_complete") /\ Sendable
  BY DEF MarkComplete, Refused, AcceptedInv, AnswerHolds
<1>2. UNCHANGED <<env, files, doc, results, skip>> /\ todo = <<>> /\ route.what = "mark_complete"
  BY <1>1 DEF content, Applying
<1>3. DocHolds' /\ HostStands'
  <2>1. DocHolds'
    BY <1>2 DEF AcceptedInv, DocHolds, Has
  <2> QED BY <1>2, <2>1, HostKept DEF Has, Waits
<1>4. Sendable' /\ (Has("COMPLETED")' <=> Has("COMPLETED"))
  BY <1>1, <1>2, SendableKept DEF Has
<1>5. \/ /\ ~Has("COMPLETED") /\ (RetroStale \/ Has("GATE_DUE"))
         /\ todo' = todo /\ route' = [route EXCEPT !.do = "refused"]
      \/ Has("COMPLETED") /\ todo' = Tail(CompletionTail) /\ route' = route
      \/ Has("COMPLETED") /\ todo' = todo /\ route' = Idle
      \/ ~Has("COMPLETED") /\ todo' = Whole /\ route' = route
  BY <1>1 DEF MarkComplete, Refused, Unevidenced, Sendable, Whole
<1>6. CASE /\ ~Has("COMPLETED") /\ (RetroStale \/ Has("GATE_DUE"))
            /\ todo' = todo /\ route' = [route EXCEPT !.do = "refused"]
  <2>1. Gap'
    BY <1>2, <1>6 DEF Gap, RetroStale, Has
  <2>2. route'.do = "refused" /\ route'.what = "mark_complete"
    BY <1>2, <1>6 DEF EarnedInv, PipelineTypes
  <2> QED BY <1>2, <1>3, <1>6, <2>1, <2>2, AcceptedReturned
<1>7. CASE route' = Idle /\ todo' = todo
  BY <1>2, <1>3, <1>7, AcceptedReturned DEF Idle
<1>8. CASE /\ route' = route
           /\ \/ todo' = Whole /\ ~Has("COMPLETED")
              \/ todo' = Tail(CompletionTail) /\ Has("COMPLETED")
  <2>1. WritingHolds' /\ todo' # <<>>
    BY <1>2, <1>4, <1>8, WritingFromStart
  <2>2. AnswerHolds' /\ RoutedIsAccepted'
    BY <1>1, <1>8, <2>1 DEF AnswerHolds, RoutedIsAccepted, Running, Applying
  <2> QED BY <1>3, <2>1, <2>2 DEF AcceptedInv
<1> QED BY <1>5, <1>6, <1>7, <1>8

\* What was sent is sent as well after the ticks.
LEMMA AcceptedTick ==
  EarnedInv /\ AcceptedInv /\ todo \in Seq(Writes) /\ AutoTick => AcceptedInv'
<1> SUFFICES ASSUME EarnedInv, AcceptedInv, todo \in Seq(Writes), AutoTick PROVE AcceptedInv'
  OBVIOUS
<1> DEFINE n == Evidence.count
<1>1. /\ todo # <<>> /\ Head(todo) = "tick" /\ todo' = Tail(todo)
      /\ route' = IF todo' = <<>> THEN Idle ELSE route
      /\ UNCHANGED <<env, files, skip, results>>
      /\ doc' = IF Evidence.ok THEN autotick_verification_rows(doc, n) ELSE doc
  BY DEF AutoTick, Writing, Wrote
<1>2. Sendable /\ ~Has("COMPLETED") /\ todo = Whole
  <2>1. 1 \in DOMAIN todo /\ todo[1] = "tick"
    BY <1>1, EmptySeq, FirstIsHead
  <2>2. ~Has("COMPLETED")
    BY <2>1 DEF AcceptedInv, WritingHolds
  <2> QED BY <1>1, <2>2, WritesInOrder DEF AcceptedInv, WritingHolds
<1>3. /\ doc \in Seq(Line) /\ doc \in Seq(Gate!Line) /\ Gate!Shaped(doc) /\ Gate!NoGap(doc)
      /\ n \in Nat
  BY <1>2, SameScanners DEF EarnedInv, PipelineTypes, AcceptedInv, DocHolds, Evidence
<1>4. Evidence' = Evidence
  BY <1>1 DEF Evidence, Passing, Has
<1>5. /\ Gate!Shaped(doc') /\ Gate!NoGap(doc') /\ OnlyChecks'
      /\ ~uncovered_verification_rows_remain(doc, n) => ~uncovered_verification_rows_remain(doc', n)
      /\ Tickable(doc') = {} \/ Cardinality(Tickable(doc')) > n \/ results.age = "other"
  <2>1. CASE Evidence.ok
    <3> DEFINE e == Gate!autotick_verification_rows(doc, n)
    <3>1. /\ Gate!NoGap(e) /\ (Gate!Shaped(doc) => Gate!Shaped(e))
          /\ Gate!ChecksLeft(doc) => Gate!ChecksLeft(e)
          /\ ~Gate!uncovered_verification_rows_remain(doc, n)
               => ~Gate!uncovered_verification_rows_remain(e, n)
          /\ Gate!Tickable(e) = {} \/ Gate!Cardinality(Gate!Tickable(e)) > n
      <4> HIDE DEF n
      <4> QED BY <1>3, Gate!TicksKeepSent
    <3>2. doc' = e
      BY <1>1, <2>1, SameReaders
    <3> HIDE DEF e, n
    <3>3. Gate!ChecksLeft(doc)
      BY <1>2, SameReaders DEF Sendable, OnlyChecks
    <3>4. OnlyChecks'
      BY <3>1, <3>2, <3>3, SameReaders DEF OnlyChecks
    <3>5. Gate!Tickable(e) = Tickable(e)
      BY SameReaders
    <3>6. Gate!Cardinality(Gate!Tickable(e)) = Cardinality(Tickable(e))
      <4>1. \A S : Gate!Cardinality(S) = Cardinality(S)
        BY DEF Gate!Cardinality, Cardinality
      <4> QED BY <3>5, <4>1, Zenon
    <3>7. ~uncovered_verification_rows_remain(doc, n) => ~uncovered_verification_rows_remain(e, n)
      <4>1. /\ Gate!uncovered_verification_rows_remain(doc, n)
                 <=> uncovered_verification_rows_remain(doc, n)
            /\ Gate!uncovered_verification_rows_remain(e, n)
                 <=> uncovered_verification_rows_remain(e, n)
        BY SameReaders, Zenon
      <4> QED BY <3>1, <4>1
    <3> QED BY <1>3, <3>1, <3>2, <3>4, <3>5, <3>6, <3>7
  <2>2. CASE ~Evidence.ok
    <3>1. doc' = doc /\ (n = 0 \/ results.age = "other")
      BY <1>1, <2>2 DEF Evidence, EarnedInv, PipelineTypes
    <3>2. OnlyChecks'
      BY <1>2, <3>1 DEF Sendable, OnlyChecks
    <3>3. Tickable(doc) = {} \/ Cardinality(Tickable(doc)) > 0
      <4>1. IsFiniteSet(Tickable(doc))
        <5>1. Tickable(doc) \subseteq OpenRows(doc)
          BY Zenon DEF Tickable, Scan
        <5>2. OpenRows(doc) \subseteq 1 .. Len(doc)
          BY <1>3 DEF OpenRows
        <5>3. Len(doc) \in Nat
          BY <1>3
        <5>4. IsFiniteSet(1 .. Len(doc))
          BY <5>3, FS_Interval
        <5>5. Tickable(doc) \in SUBSET (1 .. Len(doc))
          BY <5>1, <5>2, Zenon
        <5> QED BY <5>4, <5>5, FS_Subset
      <4> QED BY <4>1, FS_CardinalityType, FS_EmptySet
    <3> QED BY <1>3, <3>1, <3>2, <3>3
  <2> QED BY <2>1, <2>2
<1> HIDE DEF n
<1>6. DocHolds' /\ HostStands'
  <2>1. DocHolds'
    BY <1>5 DEF DocHolds
  <2> QED BY <1>1, <2>1, HostKept DEF Has, Waits
<1>7. Sendable' /\ TickedOut'
  <2>1. StructurallySkipped' <=> StructurallySkipped
    BY <1>1 DEF StructurallySkipped
  <2>2. uncovered_verification_rows_remain(doc, Evidence.count)'
          <=> uncovered_verification_rows_remain(doc', n)
    BY <1>4 DEF n
  <2>3. TickedOut'
    BY <1>1, <1>4, <1>5 DEF TickedOut, n
  <2> QED BY <1>1, <1>2, <1>5, <2>1, <2>2, <2>3 DEF Sendable, Has, n
<1>8. WritingHolds'
  <2>1. todo' = Tail(Whole) /\ ~Has("COMPLETED")' /\ route' = route
    BY <1>1, <1>2, WritesInOrder DEF Has
  <2>2. todo' # <<>> /\ Head(todo') = "phases" /\ route'.what = "mark_complete"
    BY <1>1, <2>1, WritesInOrder DEF AcceptedInv, WritingHolds
  <2>3. todo' \in {<<>>, CompletionTail', Tail(Whole)', Whole'}
    BY <1>1, <2>1, SameOrder, Zenon
  <2> QED BY <1>7, <2>1, <2>2, <2>3, Zenon DEF WritingHolds
<1> QED BY <1>1, <1>6, <1>8, AcceptedWriting

\* The phases are flipped, or refused at a gap.
LEMMA AcceptedGate ==
  EarnedInv /\ AcceptedInv /\ todo \in Seq(Writes) /\ FlipOrRefuse => AcceptedInv'
<1> SUFFICES ASSUME EarnedInv, AcceptedInv, todo \in Seq(Writes), FlipOrRefuse PROVE AcceptedInv'
  OBVIOUS
<1> DEFINE deferred == IF DeferredRuntime THEN enumerate_deferred_verification_rows(doc) ELSE {}
           y == deferred # {}
           decided == phase_completion_plan(doc, y)
<1>1. /\ todo # <<>> /\ Head(todo) = "phases" /\ UNCHANGED <<env, skip, results>>
      /\ files' = files \cup (IF deferred = {} THEN {} ELSE {"RUNTIME_GATES"})
      /\ IF decided.refused = {}
           THEN Wrote /\ doc' = FlipPhases(doc, decided.flip)
           ELSE todo' = <<>> /\ route' = [route EXCEPT !.do = "refused"] /\ UNCHANGED doc
  BY DEF FlipOrRefuse, Writing
<1>2. Sendable /\ TickedOut /\ ~Has("COMPLETED") /\ todo = Tail(Whole)
      /\ route.what = "mark_complete"
  <2>1. 1 \in DOMAIN todo /\ todo[1] = "phases"
    BY <1>1, EmptySeq, FirstIsHead
  <2>2. ~Has("COMPLETED")
    BY <2>1 DEF AcceptedInv, WritingHolds
  <2> QED BY <1>1, <2>2, WritesInOrder DEF AcceptedInv, WritingHolds
<1>3. /\ doc \in Seq(Line) /\ doc \in Seq(Gate!Line) /\ Gate!Shaped(doc) /\ Gate!NoGap(doc)
  BY <1>2, SameScanners DEF EarnedInv, PipelineTypes, AcceptedInv, DocHolds
<1>4. decided.refused # {} => Gap
  BY <1>2, RefusalIsGap
<1> HIDE DEF deferred
<1>5. \A f \in {"COMPLETED", "VALIDATED", "DEFERRED_REQUIRES_DEVICE", "RETRO_DONE", "GATE_DUE"} :
        f \in files' <=> f \in files
  BY <1>1
<1>6. HostStands'
  BY <1>1, <1>5, HostKept DEF Has, Waits
<1>7. CASE decided.refused = {}
  <2> DEFINE flip == Gate!phase_completion_plan(doc, y).flip
             e == Gate!FlipPhases(doc, flip)
  <2>1. doc' = e /\ Wrote
    BY <1>1, <1>7, SameWriters
  <2>2. flip \in SUBSET Gate!PhaseStarts(doc) /\ \A p \in flip : Gate!Status(doc, p) # "Superseded"
    <3>1. y \in BOOLEAN
      OBVIOUS
    <3> HIDE DEF y
    <3> QED BY <1>3, <3>1, Gate!PlanFacts
  <2> HIDE DEF flip
  <2>3. Gate!Shaped(e) /\ Gate!NoGap(e)
    BY <1>3, <2>2, Gate!FlipsKeepNoGap
  <2>4. DocHolds'
    BY <2>1, <2>3 DEF DocHolds
  <2>5. todo' = CompletionTail /\ route' = route /\ (IF todo' = <<>> THEN Idle ELSE route) = route
    BY <1>2, <2>1, WritesInOrder DEF Wrote
  <2>6. WritingHolds'
    <3>1. ~Has("COMPLETED")' /\ route'.what = "mark_complete"
      BY <1>2, <1>5, <2>5 DEF Has
    <3>2. Head(todo') \notin {"tick", "phases"}
      BY <2>5, WritesInOrder
    <3>3. todo' \in {<<>>, CompletionTail', Tail(Whole)', Whole'}
      BY <1>1, <2>5, SameOrder, Zenon
    <3> QED BY <2>5, <3>1, <3>2, <3>3, Zenon DEF WritingHolds
  <2> QED BY <1>1, <1>6, <2>4, <2>5, <2>6, AcceptedWriting
<1>8. CASE decided.refused # {}
  <2>1. todo' = <<>> /\ route' = [route EXCEPT !.do = "refused"] /\ UNCHANGED doc
    BY <1>1, <1>8
  <2>2. route'.do = "refused" /\ route'.what = "mark_complete"
    BY <1>2, <2>1 DEF EarnedInv, PipelineTypes
  <2>3. Evidence' = Evidence /\ (StructurallySkipped' <=> StructurallySkipped)
    BY <1>1, <1>5 DEF Evidence, Passing, Has, StructurallySkipped
  <2>4. Gap'
    BY <1>1, <1>4, <1>5, <1>8, <2>1, <2>3 DEF Gap, RetroStale, Has
  <2>5. DocHolds'
    BY <1>5, <2>1 DEF AcceptedInv, DocHolds, Has
  <2> QED BY <1>6, <2>1, <2>2, <2>4, <2>5, AcceptedReturned
<1> QED BY <1>7, <1>8

\* From the receipt on the document may be whatever it is.
LEMMA AcceptedTail ==
  EarnedInv /\ AcceptedInv /\ todo \in Seq(Writes) /\ WriteTail => AcceptedInv'
<1> SUFFICES ASSUME EarnedInv, AcceptedInv, todo \in Seq(Writes), WriteTail PROVE AcceptedInv'
  OBVIOUS
<1>1. /\ todo # <<>> /\ Head(todo) \notin {"tick", "phases"} /\ todo' = Tail(todo)
      /\ route' = IF todo' = <<>> THEN Idle ELSE route
      /\ UNCHANGED <<env, skip, results>>
  BY DEF WriteTail, Wrote
<1>2. Has("COMPLETED") \/ todo = CompletionTail
  BY <1>1, WritesInOrder DEF AcceptedInv, WritingHolds
<1>3. /\ Has("COMPLETED")'
      /\ Has("VALIDATED")' => Has("VALIDATED")
      /\ Waits' <=> Waits
  <2>1. CASE Writing("receipt")
    <3>1. files' = files \cup {"COMPLETED"}
      <4>1. Head(todo) = "receipt" /\ Head(todo) \notin DOMAIN FileOf
        BY <2>1 DEF Writing, FileOf
      <4> QED BY <2>1, <4>1 DEF WriteTail
    <3> QED BY <3>1 DEF Has, Waits
  <2>2. CASE ~Writing("receipt") /\ Head(todo) \in DOMAIN FileOf
    <3>1. FileOf[Head(todo)] \notin {"COMPLETED", "DEFERRED_REQUIRES_DEVICE"}
      BY <2>2 DEF FileOf
    <3>2. files' = files \ {FileOf[Head(todo)]}
      BY <2>2 DEF WriteTail
    <3>3. Has("COMPLETED")
      BY <1>1, <1>2, <2>2, WritesInOrder DEF Writing
    <3> QED BY <3>1, <3>2, <3>3 DEF Has, Waits
  <2>3. CASE ~Writing("receipt") /\ Head(todo) \notin DOMAIN FileOf
    <3>1. files' = files
      BY <2>3 DEF WriteTail
    <3>2. Has("COMPLETED")
      BY <1>1, <1>2, <2>3, WritesInOrder DEF Writing
    <3> QED BY <3>1, <3>2 DEF Has, Waits
  <2> QED BY <2>1, <2>2, <2>3
<1>4. DocHolds' /\ HostStands'
  BY <1>1, <1>3, HostKept DEF DocHolds
<1>5. \A i \in DOMAIN todo' : todo'[i] \notin {"tick", "phases"}
  <2>1. \A i \in DOMAIN todo : todo[i] \notin {"tick", "phases"}
    BY <1>2, WritesInOrder DEF AcceptedInv, WritingHolds
  <2>2. /\ todo' \in Seq(Writes) /\ Len(todo') = Len(todo) - 1 /\ Len(todo) \in Nat
        /\ \A i \in 1 .. Len(todo') : todo'[i] = todo[i + 1]
    BY <1>1, HeadTailProperties
  <2>3. DOMAIN todo' = 1 .. Len(todo') /\ DOMAIN todo = 1 .. Len(todo)
    BY <2>2, LenProperties
  <2> QED BY <2>1, <2>2, <2>3
<1>6. todo' # <<>> => Head(todo') \notin {"tick", "phases"} /\ route' = route
  <2>1. todo' \in Seq(Writes)
    BY <1>1, HeadTailProperties
  <2>2. todo' # <<>> => 1 \in DOMAIN todo'
    BY <2>1, EmptySeq
  <2> QED BY <1>1, <1>5, <2>1, <2>2, FirstIsHead
<1>7. WritingHolds'
  BY <1>1, <1>3, <1>5, <1>6 DEF AcceptedInv, WritingHolds
<1> QED BY <1>1, <1>4, <1>7, AcceptedWriting

LEMMA AcceptedStep ==
  GapFree /\ IInv /\ EarnedInv /\ AcceptedInv /\ [Next]_vars => AcceptedInv'
<1>1. ASSUME EarnedInv, AcceptedInv, Crash PROVE AcceptedInv'
  <2>1. todo' = <<>> /\ route' = Idle /\ UNCHANGED <<env, doc, files, skip, results>>
    BY <1>1 DEF Crash, content
  <2>2. DocHolds' /\ HostStands'
    BY <1>1, <2>1, HostKept DEF AcceptedInv, DocHolds, Has, Waits
  <2> QED BY <2>1, <2>2, AcceptedReturned DEF Idle
<1>2. ASSUME AcceptedInv, EarnedInv, UNCHANGED vars PROVE AcceptedInv'
  <2>1. UNCHANGED <<env, files, doc, skip, results, route, todo>>
    BY <1>2 DEF vars, content
  <2>2. DocHolds' /\ HostStands'
    BY <1>2, <2>1, HostKept DEF AcceptedInv, DocHolds, Has, Waits
  <2>3. (Sendable' <=> Sendable) /\ Evidence' = Evidence
    BY <2>1, SendableKept DEF Has, Evidence, Passing
  <2>4. (TickedOut' <=> TickedOut) /\ (StructurallySkipped' <=> StructurallySkipped)
    BY <2>1, <2>3 DEF TickedOut, StructurallySkipped
  <2>5. AnswerHolds'
    BY <1>2, <2>1, <2>3, <2>4 DEF AcceptedInv, AnswerHolds, Running, Applying, Untested, Waived,
       MayValidate, Passing
  <2>6. WritingHolds'
    <3> DEFINE all == Whole
               tail == CompletionTail
    <3>1. all' = all /\ tail' = tail
      BY <2>1 DEF Whole, CompletionTail
    <3>2. Has("COMPLETED")' <=> Has("COMPLETED")
      BY <2>1 DEF Has
    <3> HIDE DEF all, tail
    <3> QED BY <1>2, <2>1, <2>3, <2>4, <3>1, <3>2 DEF AcceptedInv, WritingHolds, all, tail
  <2>7. RoutedIsAccepted'
    BY <1>2, <2>1, <2>3, <2>4 DEF AcceptedInv, RoutedIsAccepted, Gap, RetroStale, Has
  <2> QED BY <2>2, <2>5, <2>6, <2>7 DEF AcceptedInv
<1> QED BY <1>1, <1>2, AcceptedProbe, AcceptedSkill, AcceptedOthers, AcceptedPseudo,
           AcceptedStart, AcceptedTick, AcceptedGate, AcceptedTail
        DEF IInv, Next, Pseudo

\* A pseudo-skill that the router names, while nothing has changed in between, is
\* not refused but at the gaps the pipeline names: for every environment and all
\* documents without those of RouterAgreesWithGate, whatever skills, people and
\* testers do to them, and however often __mark_complete__ dies.
THEOREM RoutedStepsAreAccepted ==
  ASSUME GapFree
  PROVE  Spec => []RoutedIsAccepted
<1>1. AcceptedInv => RoutedIsAccepted
  BY DEF AcceptedInv
<1>2. Init => IInv /\ EarnedInv /\ AcceptedInv
  BY InitIInv, EarnedInit, AcceptedInit
<1>3. IInv /\ EarnedInv /\ AcceptedInv /\ [Next]_vars => IInv' /\ EarnedInv' /\ AcceptedInv'
  BY NextIInv, EarnedStep, AcceptedStep
<1> QED BY <1>1, <1>2, <1>3, PTL DEF Spec
=============================================================================
