--------------------------- MODULE DispatchGuard ----------------------------
(***************************************************************************)
(* The validate-deny gate of user/scripts/lazy_guard.py over the prompt    *)
(* registry (lazy_core/dispatch.py), the deny ledger (lazy_core/ledgers.py)*)
(* and the run and cycle markers (lazy_core/markers.py).                   *)
(*                                                                         *)
(* The state script registers every prompt it emits.  A hook fires before  *)
(* every Agent call: it lets the call pass when its prompt is a registered *)
(* one that nobody has dispatched, and consumes it; a denial is a debt,    *)
(* which a dispatch of class hardening pays.                               *)
(*                                                                         *)
(* A hook is a process: firing (its first reads of marker and registry),   *)
(* consuming (load and save of the registry), paying (load and save of the *)
(* ledger), booking and binding are steps of their own.  A command of the  *)
(* state script is one step.                                               *)
(***************************************************************************)
EXTENDS Naturals, FiniteSets, Sequences

CONSTANTS
  Call,          \* tool_use_ids
  NoCall,
  Owner, Other,  \* sessions: the orchestrator's and a bystander's
  NoSession,     \* of a marker that is not bound yet
  Text,          \* prompts the script emits
  Hardening,     \* those of class hardening; the others are of class cycle
  Cap,           \* _REGISTRY_RING_CAP
  Cloud,         \* is the run a cloud run?
  Overlap,       \* may hooks and commands run at the same time?
  MaxRuns, MaxEmissions, MaxDebt,   \* bounds
  MaxWork        \* and one on emissions and debts together

ASSUME DispatchGuardAssumption ==
  /\ NoCall \notin Call
  /\ Owner # Other /\ NoSession \notin {Owner, Other}
  /\ Hardening \subseteq Text
  /\ Cap \in Nat \ {0}
  /\ Cloud \in BOOLEAN /\ Overlap \in BOOLEAN
  /\ MaxRuns \in Nat /\ MaxEmissions \in Nat /\ MaxDebt \in Nat /\ MaxWork \in Nat

VARIABLES
  marker,     \* lazy-run-marker.json
  cycle,      \* lazy-cycle-active.json of a skill with subagent-model
  registry,   \* lazy-prompt-registry.json
  ledger,     \* lazy-deny-ledger.jsonl: the debts
  emitted,    \* emissions so far; they are numbered
  old,        \* those up to this one are past REGISTRY_ENTRY_TTL_SECONDS
  runs,       \* runs started
  asked,      \* session and prompt of each call
  hook,       \* the hook process of each call
  took,       \* ghost: nonces each call was allowed with
  paid        \* ghost: debts its hooks acknowledged

files == <<marker, cycle, registry, ledger>>
world == <<emitted, old, runs>>
calls == <<asked, took, paid>>
vars  == <<files, world, calls, hook>>

NoMarker == [run |-> 0, session |-> NoSession]
NoCycle  == [armed |-> FALSE, nonce |-> 0, run |-> 0]

Nonce == 1 .. MaxEmissions
Entry == [nonce : Nonce, text : Text, run : 1 .. MaxRuns, by : Call \cup {NoCall}]
Debt  == [run : 0 .. MaxRuns, acked : BOOLEAN]

Kinds == {"verbatim", "suffix", "slip"}     \* a registered text, or nearly
Request == [kind : Kinds, text : Text] \cup [kind : {"ref"}, nonce : Nonce]
             \cup [kind : {"other", "guide"}]
NoRequest == [kind |-> "none"]

\* A bystander's prompts are never the script's.
Question == [session : {Owner}, request : Request]
              \cup [session : {Other}, request : [kind : {"other", "guide"}]]
NoQuestion == [session |-> NoSession, request |-> NoRequest]

NoEntry == [nonce |-> 0]

Idle == [pc |-> "idle", bound |-> FALSE, entry |-> NoEntry, reg |-> <<>>,
         debt |-> 0, led |-> <<>>]

Live == marker.run # 0

Unacked(L) == {i \in DOMAIN L : ~L[i].acked}

\* pending_hardening: what the live run owes; with no marker, what anyone owes.
Pending == {i \in Unacked(ledger) : Live => ledger[i].run = marker.run}

\* Mutants: whoever consumed it; whichever run emitted it.
FreshConsumed(e) == e.nonce > old /\ (Live => e.run >= marker.run)
FreshOfAnyRun(e) == e.by = NoCall /\ e.nonce > old

\* Unconsumed, within its TTL and not older than the live run.
Fresh(e) ==
  /\ e.by = NoCall
  /\ e.nonce > old
  /\ Live => e.run >= marker.run

EntriesOf(t) == {i \in DOMAIN registry : registry[i].text = t}

\* The first fresh entry of a text, as a set.
FirstFresh(t) ==
  LET hits == {i \in EntriesOf(t) : Fresh(registry[i])}
  IN  {registry[i] : i \in {h \in hits : \A j \in hits : h <= j}}

Init ==
  /\ marker = NoMarker /\ cycle = NoCycle
  /\ registry = <<>> /\ ledger = <<>>
  /\ emitted = 0 /\ old = 0 /\ runs = 0
  /\ asked = [c \in Call |-> NoQuestion]
  /\ hook = [c \in Call |-> Idle]
  /\ took = [c \in Call |-> {}]
  /\ paid = [c \in Call |-> {}]

-----------------------------------------------------------------------------
(* The commands of the state script.                                       *)
(* They are the orchestrator's, which exports LAZY_ORCHESTRATOR and which  *)
(* refuse_if_cycle_active therefore lets pass in an armed cycle as well.   *)

Alone == Overlap \/ \A c \in Call : hook[c].pc = "idle"

RunStart(s) ==
  /\ Alone /\ runs < MaxRuns
  /\ ~Live                                    \* refuse_run_start_clobber
  /\ runs' = runs + 1
  /\ marker' = [run |-> runs + 1, session |-> s]
  /\ UNCHANGED <<cycle, registry, ledger, emitted, old, calls, hook>>

\* A crashed run: whoever reads its marker after 24 hours deletes it.
DropStaleMarker ==
  /\ Alone /\ Live
  /\ marker' = NoMarker
  /\ UNCHANGED <<cycle, registry, ledger, world, calls, hook>>

\* --run-end; ack is --ack-unhardened.
RunEnd(ack) ==
  /\ Alone
  /\ Pending = {} \/ ack
  /\ ledger' = IF Pending = {} THEN ledger
               ELSE [i \in DOMAIN ledger |-> [ledger[i] EXCEPT !.acked = TRUE]]
  /\ marker' = NoMarker
  /\ registry' = <<>>
  /\ UNCHANGED <<cycle, world, calls, hook>>

\* Mutant: one too many is kept.
RingOffByOne(entries) == IF Len(entries) > Cap + 1 THEN Tail(entries) ELSE entries

Ring(entries) == IF Len(entries) > Cap THEN Tail(entries) ELSE entries

\* Bound.
Room == emitted + Len(ledger) < MaxWork

\* register_emission: append, and drop the oldest beyond the cap.
Register(t) ==
  /\ Live /\ emitted < MaxEmissions /\ Room
  /\ emitted' = emitted + 1
  /\ registry' = Ring(Append(registry,
       [nonce |-> emitted + 1, text |-> t, run |-> marker.run, by |-> NoCall]))
  /\ UNCHANGED <<marker, cycle, ledger, old, runs, calls, hook>>

\* --emit-prompt withholds the forward route while the run owes anything.
EmitPrompt(t) == Alone /\ t \notin Hardening /\ Pending = {} /\ Register(t)

\* --emit-dispatch hardening registers whenever it is run.
EmitHardening(t) == Alone /\ t \in Hardening /\ Register(t)

\* resolve_cycle_worker_nonce: n, 0 for a fresh one, is what the caller passed.
WorkerNonce(n) ==
  LET free == {i \in DOMAIN registry : registry[i].by = NoCall /\ registry[i].text \notin Hardening}
  IN  IF (\E i \in DOMAIN registry : registry[i].nonce = n) \/ free = {} THEN n
      ELSE registry[CHOOSE i \in free : \A j \in free : j <= i].nonce

\* The orchestrator begins cycles under its run, with the nonce of the prompt
\* it was last given or with a fresh one.
CycleBegin(n) ==
  /\ Alone /\ Live
  /\ cycle' = [armed |-> TRUE, nonce |-> WorkerNonce(n), run |-> marker.run]
  /\ UNCHANGED <<marker, registry, ledger, world, calls, hook>>

\* A torn bracket is a debt, and so are commits beyond the cycle's budget.
CycleEnd(friction) ==
  /\ Alone /\ cycle.armed
  /\ cycle.run \notin {0, marker.run} => friction
  /\ friction => Len(ledger) < MaxDebt /\ Room
  /\ ledger' = IF friction THEN Append(ledger, [run |-> marker.run, acked |-> FALSE])
                            ELSE ledger
  /\ cycle' = NoCycle
  /\ UNCHANGED <<marker, registry, world, calls, hook>>

\* The oldest entry that is still within its TTL passes it.
AgeOut ==
  /\ Alone
  /\ \E i \in DOMAIN registry :
       /\ registry[i].nonce > old
       /\ \A j \in 1 .. i - 1 : registry[j].nonce <= old
       /\ old' = registry[i].nonce
  /\ UNCHANGED <<files, emitted, runs, calls, hook>>

-----------------------------------------------------------------------------
(* The hook. *)

At(c, label) == hook[c].pc = label

Req(c) == asked[c].request

\* Once the answer is known, what the hook has read does not matter any more.
Moved(h, label) ==
  IF label \in {"book", "bind", "worker", "deny"} THEN [Idle EXCEPT !.pc = label]
                                                 ELSE [h EXCEPT !.pc = label]

Goto(c, label) == hook' = [hook EXCEPT ![c] = Moved(@, label)]

\* The same tool_use_id may fire again, with the same prompt.  A session that
\* reads no marker, or another session's, is none of the guard's business: its
\* call passes, or is refused if it is a bare reference, and nothing is written.
Asks(c, s, r) ==
  /\ At(c, "idle") /\ Alone
  /\ Live /\ marker.session \in {NoSession, s}
  /\ asked[c] \in {NoQuestion, [session |-> s, request |-> r]}
  /\ asked' = [asked EXCEPT ![c] = [session |-> s, request |-> r]]
  /\ UNCHANGED <<files, world, took, paid>>

\* The hook goes on at label, with the entry e if it found one.
Begin(c, label, e) ==
  hook' = [hook EXCEPT ![c].pc = label, ![c].entry = e,
                       ![c].bound = marker.session # NoSession]

\* Mutant: every denial is a debt.
DenialAlways(bound) == "book"

\* _deny_default: no debt while the marker that was read is unbound.
Denial(bound) == IF bound THEN "book" ELSE "deny"

\* @@lazy-ref nonce=...: resolve_emission_by_nonce.
FireRef(c) ==
  \E n \in 1 .. emitted :
    LET hit == {i \in DOMAIN registry : registry[i].nonce = n /\ Fresh(registry[i])}
    IN  /\ Asks(c, Owner, [kind |-> "ref", nonce |-> n])
        /\ \/ \E i \in hit : Begin(c, "load", registry[i])
           \/ hit = {} /\ Goto(c, "book")

\* Mutant: the newest entry, whoever consumed it.
ByShaNewest(c, t) ==
  registry[CHOOSE i \in EntriesOf(t) : \A j \in EntriesOf(t) : j <= i]

\* _find_entry_by_sha: the caller's own entry first, then the newest.
BySha(c, t) ==
  LET own == {i \in EntriesOf(t) : registry[i].by = c}
  IN  registry[IF own # {} THEN CHOOSE i \in own : \A j \in own : i <= j
               ELSE CHOOSE i \in EntriesOf(t) : \A j \in EntriesOf(t) : j <= i]

\* An exact copy of a text the script once emitted.
FireVerbatim(c) ==
  \E t \in Text :
    /\ Asks(c, Owner, [kind |-> "verbatim", text |-> t])
    /\ \/ \E e \in FirstFresh(t) : Begin(c, "load", e)
       \/ FirstFresh(t) = {} /\ EntriesOf(t) = {} /\ Begin(c, "unregistered", NoEntry)
       \/ /\ FirstFresh(t) = {} /\ EntriesOf(t) # {}
          /\ \/ BySha(c, t).by = c /\ Goto(c, "bind")              \* re-fire
             \/ BySha(c, t).by # c /\ t \in Hardening /\ Goto(c, "book")
             \/ /\ BySha(c, t).by # c /\ t \notin Hardening
                /\ Goto(c, Denial(marker.session # NoSession))

\* _try_auto_readmit: a cycle prompt with something appended.  A hardening
\* prompt that is not copied exactly is like any other unknown prompt.
FireSuffix(c) ==
  \E t \in Text \ Hardening :
    /\ Asks(c, Owner, [kind |-> "suffix", text |-> t])
    /\ \/ \E e \in FirstFresh(t) : Begin(c, "load", e)
       \/ FirstFresh(t) = {} /\ Begin(c, "unregistered", NoEntry)

\* Nearly a copy of an emitted text, or no copy of any.
FireOther(c) ==
  /\ \/ \E t \in Text \ Hardening : Asks(c, Owner, [kind |-> "slip", text |-> t])
     \/ \E s \in {Owner, Other}, k \in {"other", "guide"} : Asks(c, s, [kind |-> k])
  /\ Begin(c, "unregistered", NoEntry)

\* Mutant: an armed cycle is enough.
ConsumedOrNot(n) == \E i \in DOMAIN registry : registry[i].nonce = n

\* emission_consumed_by_nonce
Consumed(n) == \E i \in DOMAIN registry : registry[i].nonce = n /\ registry[i].by # NoCall

\* Mutant: a consultation under an unbound marker.
ConsultationUnbound(c) == Req(c).kind = "guide" /\ ~Cloud

\* _try_claude_code_guide_consult
Consultation(c) == Req(c).kind = "guide" /\ ~Cloud /\ hook[c].bound

\* find_transcription_slip_entry; consumed entries count, hardening ones do not.
Resembles(c) ==
  /\ Req(c).kind \in {"slip", "suffix"} /\ Live
  /\ \E i \in EntriesOf(Req(c).text) :
       registry[i].nonce > old /\ registry[i].run >= marker.run

\* What it answers: a short suffix is a slip, a long one is not.
SlipFound(c) ==
  IF ~Resembles(c) THEN {FALSE} ELSE IF Req(c).kind = "slip" THEN {TRUE} ELSE BOOLEAN

\* No entry has this prompt: a consultation, a call from inside the cycle's
\* worker, a slip of the pen, or a prompt somebody made up.
Unregistered(c) ==
  LET exempt == ~Consultation(c) /\ ~Cloud /\ hook[c].bound /\ cycle.armed
  IN  /\ At(c, "unregistered")
      /\ \/ Consultation(c) /\ Goto(c, "bind")
         \/ exempt /\ Consumed(cycle.nonce) /\ Goto(c, "worker")
         \/ exempt /\ ~Consumed(cycle.nonce) /\ Goto(c, Denial(hook[c].bound))
         \/ /\ ~Consultation(c) /\ ~exempt
            /\ \E slip \in SlipFound(c) :
                 Goto(c, IF slip THEN "deny" ELSE Denial(hook[c].bound))
      /\ UNCHANGED <<files, world, calls>>

\* append_deny_ledger_entry
Book(c) ==
  /\ At(c, "book") /\ Len(ledger) < MaxDebt /\ Room
  /\ ledger' = Append(ledger, [run |-> marker.run, acked |-> FALSE])
  /\ Goto(c, "deny")
  /\ UNCHANGED <<marker, cycle, registry, world, calls>>

\* After consume_nonce: an emission of class hardening pays one debt.
Rewarded(c) == hook[c].entry.text \in Hardening

Granted(c) ==
  /\ took' = [took EXCEPT ![c] = @ \cup {hook[c].entry.nonce}]
  /\ UNCHANGED <<asked, paid>>

\* consume_nonce, first half: find the entry.  The verbatim path goes on
\* whatever the answer is; the other two take a refusal for a denial.
Consume(c) ==
  LET mine == {i \in DOMAIN registry : registry[i].nonce = hook[c].entry.nonce}
      ok   == mine # {} /\ \A i \in mine : registry[i].by = NoCall
  IN  /\ At(c, "load")
      /\ \/ /\ ok
            /\ hook' = [hook EXCEPT ![c].pc = "save",
                 ![c].reg = [i \in DOMAIN registry |->
                               IF i \in mine THEN [registry[i] EXCEPT !.by = c] ELSE registry[i]]]
            /\ UNCHANGED calls
         \/ /\ ~ok /\ Req(c).kind = "verbatim"
            /\ Goto(c, IF Rewarded(c) THEN "pay" ELSE "bind")
            /\ Granted(c)
         \/ ~ok /\ Req(c).kind = "suffix" /\ Goto(c, "unregistered") /\ UNCHANGED calls
         \/ ~ok /\ Req(c).kind = "ref" /\ Goto(c, "book") /\ UNCHANGED calls
      /\ UNCHANGED <<files, world>>

\* consume_nonce, second half: the whole file is written back.
Save(c) ==
  /\ At(c, "save")
  /\ registry' = hook[c].reg
  /\ Goto(c, IF Rewarded(c) THEN "pay" ELSE "bind")
  /\ Granted(c)
  /\ UNCHANGED <<marker, cycle, ledger, world>>

\* ack_oldest_deny, first half: the oldest debt of any run.
Pay(c) ==
  LET due == Unacked(ledger)
  IN  /\ At(c, "pay")
      /\ \/ due = {} /\ Goto(c, "bind")
         \/ \E i \in due :
              /\ \A j \in due : i <= j
              /\ hook' = [hook EXCEPT ![c].pc = "acksave", ![c].debt = i,
                                      ![c].led = [ledger EXCEPT ![i].acked = TRUE]]
      /\ UNCHANGED <<files, world, calls>>

AfterAck(c) ==
  /\ At(c, "acksave")
  /\ Goto(c, "bind")
  /\ paid' = [paid EXCEPT ![c] = @ \cup
       {[debt |-> hook[c].debt, nonce |-> hook[c].entry.nonce]}]
  /\ UNCHANGED <<asked, took, marker, cycle, registry, world>>

\* Mutant: the ledger is not written back.
AckForgotten(c) == AfterAck(c) /\ UNCHANGED ledger

\* ack_oldest_deny, second half: the whole file is written back.
AckSave(c) == AfterAck(c) /\ ledger' = hook[c].led

\* A call that took nothing has left no trace of its own: its id is free again.
Finish(c) ==
  /\ hook' = [hook EXCEPT ![c] = Idle]
  /\ asked' = IF took[c] = {} THEN [asked EXCEPT ![c] = NoQuestion] ELSE asked
  /\ UNCHANGED <<cycle, registry, ledger, world, took, paid>>

\* The call is allowed and bind_marker_session binds the marker, if nobody's
\* call did; its read and its write are close and taken as one.
Allow(c) ==
  /\ At(c, "bind")
  /\ marker' = IF Live /\ marker.session = NoSession
                 THEN [marker EXCEPT !.session = asked[c].session] ELSE marker
  /\ Finish(c)

\* The answers that bind nothing.
Reply(c) == hook[c].pc \in {"worker", "deny"} /\ Finish(c) /\ UNCHANGED marker

\* The hook is killed or raises: the call goes through.
HookDies(c) ==
  /\ hook[c].pc \notin {"idle", "worker", "deny"}
  /\ Finish(c)
  /\ UNCHANGED marker

Command ==
  \/ \E s \in {Owner, NoSession} : RunStart(s)
  \/ DropStaleMarker \/ AgeOut
  \/ \E ack \in BOOLEAN : RunEnd(ack)
  \/ \E t \in Text : EmitPrompt(t) \/ EmitHardening(t)
  \/ \E n \in {0, emitted} : CycleBegin(n)
  \/ \E friction \in BOOLEAN : CycleEnd(friction)

Step(c) ==
  \/ FireRef(c) \/ FireVerbatim(c) \/ FireSuffix(c) \/ FireOther(c)
  \/ Unregistered(c) \/ Book(c)
  \/ Consume(c) \/ Save(c) \/ Pay(c) \/ AckSave(c) \/ Allow(c)
  \/ Reply(c) \/ HookDies(c)

Next == Command \/ \E c \in Call : Step(c)

Spec == Init /\ [][Next]_vars

-----------------------------------------------------------------------------
(* Properties. *)

\* The files hold what the code may write there, and the registry never more
\* than its cap.
TypeOK ==
  /\ marker \in [run : 0 .. MaxRuns, session : {Owner, Other, NoSession}]
  /\ cycle \in [armed : BOOLEAN, nonce : 0 .. MaxEmissions, run : 0 .. MaxRuns]
  /\ registry \in Seq(Entry) /\ Len(registry) <= Cap
  /\ ledger \in Seq(Debt)
  /\ emitted \in 0 .. MaxEmissions
  /\ old \in 0 .. MaxEmissions /\ runs \in 0 .. MaxRuns
  /\ asked \in [Call -> Question \cup {NoQuestion}]
  /\ took \in [Call -> SUBSET Nonce]

\* consume_nonce: one dispatch per emission.  Two calls never pass the guard
\* with the same one, however often their hooks fire.
OneDispatchPerEmission ==
  \A c, d \in Call : c # d => took[c] \cap took[d] = {}

\* ack_oldest_deny: a hardening dispatch pays one debt, a debt is paid by one
\* dispatch, and an emission that never was dispatched pays nothing, with debts
\* of several runs in the ledger and hooks that fire again for the same call.
DebtPaidOnce ==
  \A c, d \in Call : \A p \in paid[c], q \in paid[d] :
    /\ p.nonce \in took[c]
    /\ <<c, p>> # <<d, q>> => p.debt # q.debt /\ p.nonce # q.nonce

\* _deny_default: a session that has nothing to do with the run never leaves
\* it a debt, also before the marker is bound.
NoBystanderDebt == \A c \in Call : At(c, "book") => asked[c].session # Other

\* _bind_marker_on_allow: no answer to a bystander's call binds the marker to
\* it, which would take the guard away from the run's own session.
OrchestratorBinds == marker.session # Other

\* lookup_emission's run gate: what an earlier run emitted is never dispatched,
\* also when that run crashed and its registry is still there.
OwnRunOnly ==
  [][\A c \in Call : \A n \in took'[c] \ took[c] : hook[c].entry.run = marker.run]_vars

\* _find_entry_by_sha: a call that consumed an entry and fires again with the
\* same prompt is not denied, whatever became of later entries of that prompt.
VerbatimRefireStands ==
  \A c \in Call :
    At(c, "deny") /\ Live /\ Req(c).kind = "verbatim"
      => \A i \in DOMAIN registry : registry[i].by # c

\* The consumed fence: a prompt nobody emitted passes as a worker's only when
\* the cycle's own emission has been dispatched.
WorkerNeedsDispatch ==
  \A c \in Call : At(c, "worker") => \E d \in Call : cycle.nonce \in took[d]

\* pending_hardening is scoped to the run so that what a crashed run left unpaid
\* "no longer forces the NEXT run to dispatch a hardening round for a denial it
\* never saw" (ledgers.py:1616-1618): while the live run owes something, what its
\* hardening dispatch pays is a debt of that run, not one that it never saw.
HardeningPaysThisRun ==
  \A c \in Call :
    At(c, "acksave") /\ Live /\ Pending # {} => ledger[hook[c].debt].run = marker.run

\* _ack_if_hardening: a hook that fires again for a call is "the SAME logical
\* dispatch" and must not "double-ack" (lazy_guard.py:447-449): one call pays one
\* debt, however often its hook fires.
RefireNeverPays == \A c \in Call : Cardinality(paid[c]) <= 1
=============================================================================
