------------------------ MODULE DispatchGuardProofs -------------------------
(***************************************************************************)
(* What the guard promises for any set of calls and prompts and any cap of *)
(* the registry.  The first part holds however hooks and commands overlap; *)
(* the second when the harness runs one of them at a time, which the files *)
(* without locks need.                                                     *)
(***************************************************************************)
EXTENDS DispatchGuard, FiniteSetTheorems, SequenceTheorems, TLAPS

-----------------------------------------------------------------------------
(* Numbers, entries and sequences. *)

\* Every non-empty set of numbers has a least one: of the intervals 0 .. n, one
\* has no other of them as a strict subset.
LEMMA LeastNumber ==
  ASSUME NEW S, S \subseteq Nat, S # {}
  PROVE  \E m \in S : \A n \in S : m <= n
<1> DEFINE R == StrictSubsetOrdering(Nat)
           T == {0 .. n : n \in S}
<1>1. IsWellFoundedOn(R, FiniteSubsetsOf(Nat))
  BY FS_StrictSubsetOrderingWellFounded
<1>2. T \subseteq FiniteSubsetsOf(Nat)
  <2>1. SUFFICES ASSUME NEW n \in S PROVE 0 .. n \in FiniteSubsetsOf(Nat)
    OBVIOUS
  <2>2. IsFiniteSet(0 .. n)
    BY FS_Interval
  <2> QED BY <2>2 DEF FiniteSubsetsOf
<1>3. PICK t \in T : \A u \in T : ~(<<u, t>> \in R)
  <2>1. T # {}
    OBVIOUS
  <2> HIDE DEF R, T
  <2> QED BY <1>1, <1>2, <2>1, WFMin
<1>4. PICK m \in S : t = 0 .. m
  OBVIOUS
<1>5. ASSUME NEW n \in S PROVE m <= n
  <2>1. SUFFICES ASSUME n < m PROVE FALSE
    OBVIOUS
  <2>2. 0 .. n \subseteq 0 .. m /\ m \in 0 .. m /\ m \notin 0 .. n
    BY <2>1
  <2>3. <<0 .. n, 0 .. m>> \in R
    BY <2>2 DEF StrictSubsetOrdering
  <2>4. 0 .. n \in T
    OBVIOUS
  <2> QED BY <1>3, <1>4, <2>3, <2>4
<1> QED BY <1>5


\* A non-empty set of numbers with a bound has a greatest one.
LEMMA GreatestNumber ==
  ASSUME NEW n \in Nat, NEW S, S \subseteq 0 .. n, S # {}
  PROVE  \E m \in S : \A k \in S : k <= m
<1> DEFINE Above == {b \in Nat : \A k \in S : k <= b}
<1>1. n \in Above
  OBVIOUS
<1>2. PICK b \in Above : \A a \in Above : b <= a
  <2>1. Above \subseteq Nat /\ Above # {}
    BY <1>1
  <2> HIDE DEF Above
  <2> QED BY <2>1, LeastNumber
<1>3. b \in S
  <2>1. SUFFICES ASSUME b \notin S PROVE FALSE
    OBVIOUS
  <2>2. \A k \in S : k \in Nat /\ k < b
    BY <1>2, <2>1
  <2>3. b > 0
    <3>1. PICK k \in S : TRUE
      OBVIOUS
    <3> QED BY <2>2, <3>1
  <2>4. b - 1 \in Above
    BY <2>2, <2>3
  <2> QED BY <1>2, <2>4
<1> QED BY <1>2, <1>3

-----------------------------------------------------------------------------
(* Types, and what bystanders may cause, under every overlap. *)

Labels == {"idle", "unregistered", "load", "save", "pay", "acksave", "bind", "worker", "book", "deny"}

Found == {"load", "save", "pay", "acksave"}

\* What a hook process holds in its memory.
Process == [pc : Labels, bound : BOOLEAN, entry : Entry \cup {NoEntry},
            reg : {r \in Seq(Entry) : Len(r) <= Cap}, debt : Nat, led : Seq(Debt)]

\* A process carries an entry from the moment it found one.
Carries(c) == hook[c].pc \in Found => hook[c].entry \in Entry

\* A bystander's call only ever sees an unbound marker, and is refused.
Bystander(c) ==
  asked[c].session = Other =>
    /\ hook[c].pc \in {"idle", "unregistered", "deny"}
    /\ ~hook[c].bound

Processes ==
  /\ hook \in [Call -> Process]
  /\ paid \in [Call -> SUBSET [debt : Nat, nonce : Nonce]]
  /\ \A c \in Call : Carries(c)

AnyInv == TypeOK /\ Processes /\ OrchestratorBinds /\ \A c \in Call : Bystander(c)

\* The registry and the ledger are finite tables.
LEMMA Tables ==
  ASSUME TypeOK
  PROVE  /\ Len(registry) \in Nat /\ DOMAIN registry = 1 .. Len(registry)
         /\ \A i \in DOMAIN registry : registry[i] \in Entry
         /\ Len(ledger) \in Nat /\ DOMAIN ledger = 1 .. Len(ledger)
         /\ \A i \in DOMAIN ledger : ledger[i] \in Debt
BY DEF TypeOK

\* The registry with the entry e after it, and k entries gone from its front.
Shifted(r, e, k) ==
  /\ Len(r) = Len(registry) + 1 - k
  /\ \A i \in 1 .. Len(r) : r[i] = IF i + k = Len(registry) + 1 THEN e ELSE registry[i + k]

\* The ring keeps the entries in their order, and the newest among them.
LEMMA RingIs ==
  ASSUME TypeOK, NEW e \in Entry, NEW r, r = Ring(Append(registry, e))
  PROVE  /\ r \in Seq(Entry) /\ Len(r) <= Cap
         /\ \E k \in {0, 1} : Shifted(r, e, k)
<1> DEFINE a == Append(registry, e)
<1> USE DispatchGuardAssumption
<1>1. /\ a \in Seq(Entry) /\ Len(a) = Len(registry) + 1 /\ a # << >>
      /\ \A i \in 1 .. Len(a) : a[i] = IF i = Len(registry) + 1 THEN e ELSE registry[i]
  BY AppendProperties DEF TypeOK
<1>2. /\ Tail(a) \in Seq(Entry) /\ Len(Tail(a)) = Len(a) - 1
      /\ \A i \in 1 .. Len(Tail(a)) : Tail(a)[i] = a[i + 1]
  <2> HIDE DEF a
  <2> QED BY <1>1, HeadTailProperties
<1>3. Len(registry) \in Nat /\ Len(registry) <= Cap
  BY DEF TypeOK
<1> HIDE DEF a
<1>4. CASE Len(a) > Cap
  <2>1. r = Tail(a)
    BY <1>4 DEF Ring, a
  <2>2. Shifted(r, e, 1)
    BY <1>1, <1>2, <1>3, <2>1 DEF Shifted
  <2> QED BY <1>1, <1>2, <1>3, <2>1, <2>2
<1>5. CASE ~(Len(a) > Cap)
  <2>1. r = a
    BY <1>5 DEF Ring, a
  <2>2. Shifted(r, e, 0)
    BY <1>1, <1>3, <2>1 DEF Shifted
  <2> QED BY <1>1, <1>3, <1>5, <2>1, <2>2
<1> QED BY <1>4, <1>5

\* A cycle begins with the nonce the caller passed or with a registered one.
LEMMA WorkerNonceType ==
  ASSUME TypeOK, NEW n \in {0, emitted}
  PROVE  WorkerNonce(n) \in 0 .. MaxEmissions
<1> DEFINE free == {i \in DOMAIN registry : registry[i].by = NoCall /\ registry[i].text \notin Hardening}
<1>1. n \in 0 .. MaxEmissions
  BY DispatchGuardAssumption DEF TypeOK
<1>2. ASSUME free # {}
      PROVE  registry[CHOOSE i \in free : \A j \in free : j <= i].nonce \in 0 .. MaxEmissions
  <2>1. PICK last \in free : \A j \in free : j <= last
    <3>1. free \subseteq 0 .. Len(registry) /\ Len(registry) \in Nat
      BY Tables
    <3> HIDE DEF free
    <3> QED BY <1>2, <3>1, GreatestNumber
  <2>2. (CHOOSE i \in free : \A j \in free : j <= i) \in DOMAIN registry
    BY <2>1
  <2> QED BY <2>2, Tables, DispatchGuardAssumption DEF Entry, Nonce
<1> QED BY <1>1, <1>2 DEF WorkerNonce

\* A process that goes on keeps what it holds, or forgets all of it.
LEMMA GotoIs ==
  ASSUME Processes, NEW c \in Call, NEW label \in Labels, Goto(c, label),
         label \in Found => hook[c].entry \in Entry
  PROVE  /\ hook' \in [Call -> Process]
         /\ \A d \in Call \ {c} : hook'[d] = hook[d]
         /\ hook'[c].pc = label
         /\ hook'[c].bound = IF label \in {"book", "bind", "worker", "deny"} THEN FALSE
                                                                             ELSE hook[c].bound
         /\ label \notin {"book", "bind", "worker", "deny"} =>
              hook'[c].entry = hook[c].entry
<1>1. Moved(hook[c], label) \in Process
  <2>1. << >> \in Seq(Entry) /\ Len(<< >>) <= Cap /\ << >> \in Seq(Debt)
    BY DispatchGuardAssumption
  <2>2. [Idle EXCEPT !.pc = label] \in Process
    BY <2>1 DEF Idle, Process
  <2>3. hook[c] \in Process
    BY DEF Processes
  <2>4. [hook[c] EXCEPT !.pc = label] \in Process
    BY <2>3 DEF Process
  <2> QED BY <2>2, <2>4 DEF Moved
<1> QED BY <1>1 DEF Goto, Moved, Idle, Processes, Process

\* A process that begins knows its entry and whether the marker is bound.
LEMMA BeginIs ==
  ASSUME Processes, NEW c \in Call, NEW label \in Labels, NEW e \in Entry \cup {NoEntry},
         Begin(c, label, e)
  PROVE  /\ hook' \in [Call -> Process]
         /\ \A d \in Call \ {c} : hook'[d] = hook[d]
         /\ hook'[c].pc = label /\ hook'[c].entry = e
         /\ hook'[c].bound = (marker.session # NoSession)
<1> DEFINE b == marker.session # NoSession
<1>1. b \in BOOLEAN
  OBVIOUS
<1>2. hook' = [hook EXCEPT ![c].pc = label, ![c].entry = e, ![c].bound = b]
  BY DEF Begin
<1>3. hook[c] \in Process /\ hook \in [Call -> Process]
  BY DEF Processes
<1> HIDE DEF b
<1>4. /\ hook' \in [Call -> Process]
      /\ \A d \in Call \ {c} : hook'[d] = hook[d]
      /\ hook'[c].pc = label /\ hook'[c].entry = e /\ hook'[c].bound = b
  BY <1>1, <1>2, <1>3 DEF Process
<1> QED BY <1>4 DEF b

\* The files, the clocks and the calls keep their types through a command.
LEMMA CommandType ==
  ASSUME TypeOK, Command
  PROVE  TypeOK'
<1> USE DispatchGuardAssumption
<1> USE DEF TypeOK
<1>1. ASSUME NEW s \in {Owner, NoSession}, RunStart(s) PROVE TypeOK'
  BY <1>1 DEF RunStart, calls
<1>2. CASE DropStaleMarker
  BY <1>2 DEF DropStaleMarker, NoMarker, world, calls
<1>3. CASE AgeOut
  BY <1>3, Tables DEF AgeOut, files, calls, Entry, Nonce
<1>4. ASSUME NEW ack \in BOOLEAN, RunEnd(ack) PROVE TypeOK'
  <2>1. registry' \in Seq(Entry) /\ Len(registry') <= Cap
    BY <1>4 DEF RunEnd
  <2>2. ledger' \in Seq(Debt)
    <3>1. [i \in DOMAIN ledger |-> [ledger[i] EXCEPT !.acked = TRUE]] \in Seq(Debt)
      <4>1. ASSUME NEW i \in DOMAIN ledger PROVE [ledger[i] EXCEPT !.acked = TRUE] \in Debt
        BY Tables DEF Debt
      <4>2. ledger \in Seq(Debt)
        OBVIOUS
      <4> QED BY ONLY <4>1, <4>2
    <3> QED BY <1>4, <3>1 DEF RunEnd
  <2> QED BY <1>4, <2>1, <2>2 DEF RunEnd, NoMarker, world, calls
<1>5. ASSUME NEW t \in Text, Register(t) PROVE TypeOK'
  <2> DEFINE e == [nonce |-> emitted + 1, text |-> t, run |-> marker.run, by |-> NoCall]
  <2>1. e \in Entry /\ emitted + 1 \in 0 .. MaxEmissions
    BY <1>5 DEF Register, Live, Entry, Nonce
  <2>2. registry' = Ring(Append(registry, e))
    BY <1>5 DEF Register
  <2> HIDE DEF e
  <2>3. registry' \in Seq(Entry) /\ Len(registry') <= Cap
    BY <2>1, <2>2, RingIs
  <2> QED BY <1>5, <2>1, <2>3 DEF Register, calls
<1>6. ASSUME NEW n \in {0, emitted}, CycleBegin(n) PROVE TypeOK'
  BY <1>6, WorkerNonceType DEF CycleBegin, world, calls
<1>7. ASSUME NEW friction \in BOOLEAN, CycleEnd(friction) PROVE TypeOK'
  <2>1. [run |-> marker.run, acked |-> FALSE] \in Debt
    BY DEF Debt
  <2> QED BY <1>7, <2>1 DEF CycleEnd, NoCycle, world, calls
<1> QED BY <1>1, <1>2, <1>3, <1>4, <1>5, <1>6, <1>7 DEF Command, EmitPrompt, EmitHardening

\* A command touches no call, and binds the marker to nobody but the owner.
LEMMA CommandKeeps ==
  ASSUME Command
  PROVE  /\ UNCHANGED <<asked, took, paid, hook>>
         /\ marker'.session \in {marker.session, Owner, NoSession}
<1>1. ASSUME NEW s \in {Owner, NoSession}, RunStart(s)
      PROVE  UNCHANGED <<asked, took, paid, hook>> /\ marker'.session = s
  BY <1>1 DEF RunStart, calls
<1>2. ASSUME DropStaleMarker \/ \E ack \in BOOLEAN : RunEnd(ack)
      PROVE  UNCHANGED <<asked, took, paid, hook>> /\ marker' = NoMarker
  BY <1>2 DEF DropStaleMarker, RunEnd, calls
<1>3. ASSUME \/ AgeOut \/ \E t \in Text : EmitPrompt(t) \/ EmitHardening(t)
             \/ \E n \in {0, emitted} : CycleBegin(n)
             \/ \E friction \in BOOLEAN : CycleEnd(friction)
      PROVE  UNCHANGED <<asked, took, paid, hook, marker>>
  BY <1>3 DEF AgeOut, EmitPrompt, EmitHardening, Register, CycleBegin, CycleEnd, calls, files
<1> QED BY <1>1, <1>2, <1>3 DEF Command, NoMarker

\* The requests of the Owner and of a bystander are different questions.
LEMMA Asked ==
  ASSUME NEW q \in Question \cup {NoQuestion}
  PROVE  /\ q.session \in {Owner, Other, NoSession}
         /\ q.session = Other => q.request.kind \in {"other", "guide"}
         /\ q.session = NoSession => q = NoQuestion
BY DispatchGuardAssumption DEF Question, NoQuestion

\* What one call does to itself, the invariants of the others survive.
LEMMA OneCall ==
  ASSUME AnyInv, NEW c \in Call, TypeOK',
         hook' \in [Call -> Process],
         paid' \in [Call -> SUBSET [debt : Nat, nonce : Nonce]],
         \A d \in Call \ {c} : hook'[d] = hook[d] /\ asked'[d] = asked[d],
         Carries(c)', Bystander(c)', OrchestratorBinds'
  PROVE  AnyInv'
<1>1. ASSUME NEW d \in Call \ {c} PROVE Carries(d)' /\ Bystander(d)'
  BY DEF AnyInv, Processes, Carries, Bystander
<1> QED BY <1>1 DEF AnyInv, Processes

\* A question that the guard reads is answered or looked into.
LEMMA AskAny ==
  ASSUME AnyInv, NEW c \in Call, NEW s, NEW r, [session |-> s, request |-> r] \in Question,
         Asks(c, s, r),
         \/ Begin(c, "unregistered", NoEntry)
         \/ s = Owner /\ \E e \in Entry : Begin(c, "load", e)
         \/ s = Owner /\ \E label \in {"bind", "book", "deny"} : Goto(c, label)
  PROVE  AnyInv'
<1> USE DispatchGuardAssumption
<1>1. UNCHANGED <<marker, cycle, registry, ledger, emitted, old, runs, took, paid>>
  BY DEF Asks, files, world
<1>2. /\ asked' \in [Call -> Question \cup {NoQuestion}]
      /\ asked'[c].session = s
      /\ \A d \in Call \ {c} : asked'[d] = asked[d]
  BY DEF AnyInv, TypeOK, Asks
<1>3. TypeOK' /\ OrchestratorBinds'
  BY <1>1, <1>2 DEF AnyInv, TypeOK, OrchestratorBinds
<1>4. Processes
  BY DEF AnyInv
<1>5. CASE Begin(c, "unregistered", NoEntry)
  <2>1. /\ hook' \in [Call -> Process] /\ \A d \in Call \ {c} : hook'[d] = hook[d]
        /\ hook'[c].pc = "unregistered" /\ hook'[c].bound = (marker.session # NoSession)
    BY <1>4, <1>5, BeginIs DEF Labels
  <2>2. s = Other => marker.session = NoSession
    BY DEF AnyInv, OrchestratorBinds, Asks
  <2>3. Carries(c)' /\ Bystander(c)'
    BY <1>2, <2>1, <2>2 DEF Carries, Bystander, Found
  <2> QED BY <1>1, <1>2, <1>3, <1>4, <2>1, <2>3, OneCall DEF Processes
<1>6. ASSUME s = Owner, NEW e \in Entry, Begin(c, "load", e) PROVE AnyInv'
  <2>1. /\ hook' \in [Call -> Process] /\ \A d \in Call \ {c} : hook'[d] = hook[d]
        /\ hook'[c].pc = "load" /\ hook'[c].entry = e
    BY <1>4, <1>6, BeginIs DEF Labels
  <2>2. Carries(c)' /\ Bystander(c)'
    BY <1>2, <1>6, <2>1 DEF Carries, Bystander, Found
  <2> QED BY <1>1, <1>2, <1>3, <1>4, <2>1, <2>2, OneCall DEF Processes
<1>7. ASSUME s = Owner, NEW label \in {"bind", "book", "deny"}, Goto(c, label) PROVE AnyInv'
  <2>1. /\ hook' \in [Call -> Process] /\ \A d \in Call \ {c} : hook'[d] = hook[d]
        /\ hook'[c].pc = label
    BY <1>4, <1>7, GotoIs DEF Labels, Found
  <2>2. Carries(c)' /\ Bystander(c)'
    BY <1>2, <1>7, <2>1 DEF Carries, Bystander, Found
  <2> QED BY <1>1, <1>2, <1>3, <1>4, <2>1, <2>2, OneCall DEF Processes
<1> QED BY <1>5, <1>6, <1>7

\* A hook that fires keeps the invariant, whatever it asks.
LEMMA FireAny ==
  ASSUME AnyInv, NEW c \in Call,
         FireRef(c) \/ FireVerbatim(c) \/ FireSuffix(c) \/ FireOther(c)
  PROVE  AnyInv'
<1> USE DispatchGuardAssumption
<1>1. TypeOK /\ \A i \in DOMAIN registry : registry[i] \in Entry
  BY Tables DEF AnyInv
<1>2. \A t : FirstFresh(t) \subseteq Entry
  BY <1>1 DEF FirstFresh, EntriesOf
<1>3. CASE FireRef(c)
  <2>1. PICK n \in 1 .. emitted :
          LET hit == {i \in DOMAIN registry : registry[i].nonce = n /\ Fresh(registry[i])}
          IN  /\ Asks(c, Owner, [kind |-> "ref", nonce |-> n])
              /\ \/ \E i \in hit : Begin(c, "load", registry[i])
                 \/ hit = {} /\ Goto(c, "book")
    BY <1>3 DEF FireRef
  <2>2. [session |-> Owner, request |-> [kind |-> "ref", nonce |-> n]] \in Question
    <3>1. n \in Nonce
      BY <1>1 DEF Nonce, TypeOK
    <3> QED BY <3>1 DEF Question, Request
  <2> QED BY <1>1, <2>1, <2>2, AskAny
<1>4. CASE FireVerbatim(c)
  <2>1. PICK t \in Text :
          /\ Asks(c, Owner, [kind |-> "verbatim", text |-> t])
          /\ \/ \E e \in FirstFresh(t) : Begin(c, "load", e)
             \/ Begin(c, "unregistered", NoEntry)
             \/ \E label \in {"bind", "book", "deny"} : Goto(c, label)
    BY <1>4 DEF FireVerbatim, Denial
  <2>2. [session |-> Owner, request |-> [kind |-> "verbatim", text |-> t]] \in Question
    BY DEF Question, Request, Kinds
  <2> QED BY <1>2, <2>1, <2>2, AskAny
<1>5. CASE FireSuffix(c)
  <2>1. PICK t \in Text \ Hardening :
          /\ Asks(c, Owner, [kind |-> "suffix", text |-> t])
          /\ \/ \E e \in FirstFresh(t) : Begin(c, "load", e)
             \/ Begin(c, "unregistered", NoEntry)
    BY <1>5 DEF FireSuffix
  <2>2. [session |-> Owner, request |-> [kind |-> "suffix", text |-> t]] \in Question
    BY DEF Question, Request, Kinds
  <2> QED BY <1>2, <2>1, <2>2, AskAny
<1>6. CASE FireOther(c)
  <2>1. ASSUME NEW t \in Text, Asks(c, Owner, [kind |-> "slip", text |-> t]) PROVE AnyInv'
    <3>1. [session |-> Owner, request |-> [kind |-> "slip", text |-> t]] \in Question
      BY DEF Question, Request, Kinds
    <3> QED BY <1>6, <2>1, <3>1, AskAny DEF FireOther
  <2>2. ASSUME NEW s \in {Owner, Other}, NEW k \in {"other", "guide"}, Asks(c, s, [kind |-> k])
        PROVE  AnyInv'
    <3>1. [session |-> s, request |-> [kind |-> k]] \in Question
      BY DEF Question, Request
    <3> QED BY <1>6, <2>2, <3>1, AskAny DEF FireOther
  <2> QED BY <1>6, <2>1, <2>2 DEF FireOther
<1> QED BY <1>3, <1>4, <1>5, <1>6

\* A call that ends returns to where it began; only one that binds may set the
\* marker.
LEMMA FinishAny ==
  ASSUME AnyInv, NEW c \in Call, Finish(c), hook[c].pc # "idle",
         \/ UNCHANGED marker
         \/ /\ At(c, "bind")
            /\ marker' = [marker EXCEPT !.session = asked[c].session]
  PROVE  AnyInv'
<1> USE DispatchGuardAssumption
<1>1. UNCHANGED <<cycle, registry, ledger, emitted, old, runs, took, paid>>
  BY DEF Finish, world
<1>2. /\ hook' \in [Call -> Process] /\ \A d \in Call \ {c} : hook'[d] = hook[d]
      /\ hook'[c] = Idle
  <2>1. << >> \in Seq(Entry) /\ Len(<< >>) <= Cap /\ << >> \in Seq(Debt)
    OBVIOUS
  <2>2. Idle \in Process
    BY <2>1 DEF Idle, Process, Labels
  <2> QED BY <2>2 DEF AnyInv, Processes, Finish
<1>3. /\ asked' \in [Call -> Question \cup {NoQuestion}]
      /\ \A d \in Call \ {c} : asked'[d] = asked[d]
  BY DEF AnyInv, TypeOK, Finish
<1>4. marker' \in [run : 0 .. MaxRuns, session : {Owner, Other, NoSession}] /\ OrchestratorBinds'
  <2>1. CASE UNCHANGED marker
    BY <2>1 DEF AnyInv, TypeOK, OrchestratorBinds
  <2>2. CASE At(c, "bind") /\ marker' = [marker EXCEPT !.session = asked[c].session]
    <3>1. asked[c].session \in {Owner, NoSession}
      BY <2>2, Asked DEF AnyInv, TypeOK, Bystander, At
    <3> QED BY <2>2, <3>1 DEF AnyInv, TypeOK, OrchestratorBinds
  <2> QED BY <2>1, <2>2
<1>5. TypeOK'
  BY <1>1, <1>3, <1>4 DEF AnyInv, TypeOK
<1>6. Carries(c)' /\ Bystander(c)'
  BY <1>2 DEF Carries, Bystander, Idle, Found
<1> QED BY <1>1, <1>2, <1>3, <1>4, <1>5, <1>6, OneCall DEF AnyInv, Processes

\* A call that goes on without touching its question.
LEMMA MoveAny ==
  ASSUME AnyInv, NEW c \in Call, NEW label \in Labels \ {"load", "save", "acksave"},
         Goto(c, label), TypeOK',
         UNCHANGED <<marker, asked>>,
         paid' \in [Call -> SUBSET [debt : Nat, nonce : Nonce]],
         label = "pay" => hook[c].entry \in Entry,
         asked[c].session = Other => label = "deny"
  PROVE  AnyInv'
<1>1. Processes
  BY DEF AnyInv
<1>2. /\ hook' \in [Call -> Process] /\ \A d \in Call \ {c} : hook'[d] = hook[d]
      /\ hook'[c].pc = label
      /\ hook'[c].bound = IF label \in {"book", "bind", "worker", "deny"} THEN FALSE
                                                                          ELSE hook[c].bound
      /\ label \notin {"book", "bind", "worker", "deny"} => hook'[c].entry = hook[c].entry
  BY <1>1, GotoIs DEF Found
<1>3. Carries(c)'
  BY <1>2 DEF Carries, Found
<1>4. Bystander(c)'
  <2>1. SUFFICES ASSUME asked[c].session = Other
                 PROVE  hook'[c].pc = "deny" /\ ~hook'[c].bound
    BY DEF Bystander
  <2>2. label = "deny"
    BY <2>1
  <2> QED BY <1>2, <2>2
<1> QED BY <1>2, <1>3, <1>4, OneCall DEF AnyInv, OrchestratorBinds

\* A prompt that no entry has: a bystander's is refused without a debt.
LEMMA UnregisteredAny ==
  ASSUME AnyInv, NEW c \in Call, Unregistered(c)
  PROVE  AnyInv'
<1>1. UNCHANGED <<marker, cycle, registry, ledger, emitted, old, runs, asked, took, paid>>
  BY DEF Unregistered, files, world, calls
<1>2. TypeOK' /\ UNCHANGED paid
  BY <1>1 DEF AnyInv, TypeOK
<1>3. ASSUME asked[c].session = Other
      PROVE  ~hook[c].bound /\ ~Consultation(c) /\ SlipFound(c) = {FALSE}
  <2>1. ~hook[c].bound
    BY <1>3 DEF AnyInv, Bystander
  <2>2. Req(c).kind \in {"other", "guide"}
    BY <1>3, Asked DEF AnyInv, TypeOK, Req
  <2> QED BY <2>1, <2>2 DEF Consultation, SlipFound, Resembles
<1>4. PICK label \in {"bind", "worker", "book", "deny"} :
        Goto(c, label) /\ (asked[c].session = Other => label = "deny")
  BY <1>3 DEF Unregistered, Denial
<1> QED BY <1>1, <1>2, <1>4, MoveAny DEF AnyInv, Processes, Labels

\* A denial that is booked is a debt of whatever run is live.
LEMMA BookAny ==
  ASSUME AnyInv, NEW c \in Call, Book(c)
  PROVE  AnyInv'
<1>1. [run |-> marker.run, acked |-> FALSE] \in Debt
  BY DEF AnyInv, TypeOK, Debt
<1>2. TypeOK' /\ UNCHANGED <<marker, asked, paid>> /\ Goto(c, "deny")
  BY <1>1 DEF Book, AnyInv, TypeOK, world, calls
<1> QED BY <1>2, MoveAny DEF AnyInv, Processes, Labels

\* An entry is looked for again, and then written, or the hook gives up.
LEMMA ConsumeAny ==
  ASSUME AnyInv, NEW c \in Call, Consume(c)
  PROVE  AnyInv'
<1> USE DispatchGuardAssumption
<1>1. UNCHANGED <<marker, cycle, registry, ledger, emitted, old, runs, asked, paid>>
  BY DEF Consume, Granted, files, world, calls
<1>2. hook[c].entry \in Entry /\ hook[c].entry.nonce \in Nonce /\ asked[c].session # Other
  BY DEF Consume, At, AnyInv, Processes, Carries, Found, Entry, Bystander
<1>3. took' \in [Call -> SUBSET Nonce]
  BY <1>2 DEF Consume, Granted, calls, AnyInv, TypeOK
<1>4. TypeOK'
  BY <1>1, <1>3 DEF AnyInv, TypeOK
<1>5. ASSUME NEW label \in {"pay", "bind", "unregistered", "book"}, Goto(c, label) PROVE AnyInv'
  BY <1>1, <1>2, <1>4, <1>5, MoveAny DEF AnyInv, Processes, Labels
<1> DEFINE mine == {i \in DOMAIN registry : registry[i].nonce = hook[c].entry.nonce}
           r == [i \in DOMAIN registry |->
                   IF i \in mine THEN [registry[i] EXCEPT !.by = c] ELSE registry[i]]
<1>6. ASSUME hook' = [hook EXCEPT ![c].pc = "save", ![c].reg = r] PROVE AnyInv'
  <2>1. r \in Seq(Entry) /\ Len(r) <= Cap
    <3>1. ASSUME NEW i \in DOMAIN registry PROVE r[i] \in Entry
      BY Tables DEF AnyInv, Entry
    <3>2. DOMAIN registry = 1 .. Len(registry) /\ Len(registry) \in Nat /\ Len(registry) <= Cap
      BY Tables DEF AnyInv, TypeOK
    <3> QED BY <3>1, <3>2
  <2> HIDE DEF r
  <2>2. hook[c] \in Process /\ hook \in [Call -> Process]
    BY DEF AnyInv, Processes
  <2>3. /\ hook' \in [Call -> Process] /\ \A d \in Call \ {c} : hook'[d] = hook[d]
        /\ hook'[c].pc = "save" /\ hook'[c].entry = hook[c].entry
    BY <1>6, <2>1, <2>2 DEF Process, Labels
  <2>4. Carries(c)' /\ Bystander(c)'
    BY <1>1, <1>2, <2>3 DEF Carries, Bystander
  <2> QED BY <1>1, <1>4, <2>3, <2>4, OneCall DEF AnyInv, Processes, OrchestratorBinds
<1> QED BY <1>5, <1>6 DEF Consume

\* The registry that was read is written back.
LEMMA SaveAny ==
  ASSUME AnyInv, NEW c \in Call, Save(c)
  PROVE  AnyInv'
<1>1. UNCHANGED <<marker, cycle, ledger, emitted, old, runs, asked, paid>> /\ registry' = hook[c].reg
  BY DEF Save, Granted, world
<1>2. hook[c].entry \in Entry /\ hook[c].entry.nonce \in Nonce /\ asked[c].session # Other
  BY DEF Save, At, AnyInv, Processes, Carries, Found, Entry, Bystander
<1>3. took' \in [Call -> SUBSET Nonce]
  BY <1>2 DEF Save, Granted, AnyInv, TypeOK
<1>4. registry' \in Seq(Entry) /\ Len(registry') <= Cap
  BY <1>1 DEF AnyInv, Processes, Process
<1>5. TypeOK'
  BY <1>1, <1>3, <1>4 DEF AnyInv, TypeOK
<1>6. PICK label \in {"pay", "bind"} : Goto(c, label)
  BY DEF Save
<1> QED BY <1>1, <1>2, <1>5, <1>6, MoveAny DEF AnyInv, Processes, Labels

\* The ledger is read, and one debt of the copy is marked.
LEMMA PayAny ==
  ASSUME AnyInv, NEW c \in Call, Pay(c)
  PROVE  AnyInv'
<1>1. UNCHANGED <<marker, cycle, registry, ledger, emitted, old, runs, asked, took, paid>>
  BY DEF Pay, files, world, calls
<1>2. hook[c].entry \in Entry /\ asked[c].session # Other
  BY DEF Pay, At, AnyInv, Processes, Carries, Found, Bystander
<1>3. TypeOK'
  BY <1>1 DEF AnyInv, TypeOK
<1>4. ASSUME Goto(c, "bind") PROVE AnyInv'
  BY <1>1, <1>2, <1>3, <1>4, MoveAny DEF AnyInv, Processes, Labels
<1>5. ASSUME NEW i \in DOMAIN ledger,
             hook' = [hook EXCEPT ![c].pc = "acksave", ![c].debt = i,
                                  ![c].led = [ledger EXCEPT ![i].acked = TRUE]]
      PROVE  AnyInv'
  <2> DEFINE l == [ledger EXCEPT ![i].acked = TRUE]
  <2>1. l \in Seq(Debt) /\ i \in Nat
    <3>1. ledger \in Seq(Debt) /\ i \in 1 .. Len(ledger)
      BY Tables DEF AnyInv, TypeOK
    <3>2. [ledger[i] EXCEPT !.acked = TRUE] \in Debt
      BY Tables DEF AnyInv, Debt
    <3> QED BY <3>1, <3>2, ExceptSeq
  <2>2. hook[c] \in Process /\ hook \in [Call -> Process]
    BY DEF AnyInv, Processes
  <2>3. hook' = [hook EXCEPT ![c].pc = "acksave", ![c].debt = i, ![c].led = l]
    BY <1>5
  <2> HIDE DEF l
  <2>4. /\ hook' \in [Call -> Process] /\ \A d \in Call \ {c} : hook'[d] = hook[d]
        /\ hook'[c].pc = "acksave" /\ hook'[c].entry = hook[c].entry
    BY <2>1, <2>2, <2>3 DEF Process, Labels
  <2>5. Carries(c)' /\ Bystander(c)'
    BY <1>1, <1>2, <2>4 DEF Carries, Bystander
  <2> QED BY <1>1, <1>3, <2>4, <2>5, OneCall DEF AnyInv, Processes, OrchestratorBinds
<1> QED BY <1>4, <1>5 DEF Pay, Unacked

\* The ledger that was read is written back.
LEMMA AckSaveAny ==
  ASSUME AnyInv, NEW c \in Call, AckSave(c)
  PROVE  AnyInv'
<1>1. UNCHANGED <<marker, cycle, registry, emitted, old, runs, asked, took>>
  BY DEF AckSave, AfterAck, world
<1>2. hook[c].entry \in Entry /\ hook[c].entry.nonce \in Nonce /\ asked[c].session # Other
  BY DEF AckSave, AfterAck, At, AnyInv, Processes, Carries, Found, Entry, Bystander
<1>3. ledger' \in Seq(Debt) /\ hook[c].debt \in Nat
  BY DEF AckSave, AnyInv, Processes, Process
<1>4. paid' \in [Call -> SUBSET [debt : Nat, nonce : Nonce]]
  <2>1. [debt |-> hook[c].debt, nonce |-> hook[c].entry.nonce] \in [debt : Nat, nonce : Nonce]
    BY <1>2, <1>3
  <2> QED BY <2>1 DEF AckSave, AfterAck, AnyInv, Processes
<1>5. TypeOK'
  BY <1>1, <1>3 DEF AnyInv, TypeOK
<1>6. Goto(c, "bind")
  BY DEF AckSave, AfterAck
<1> QED BY <1>1, <1>2, <1>4, <1>5, <1>6, MoveAny DEF Labels

\* Every step of a hook keeps the invariant.
LEMMA StepAny ==
  ASSUME AnyInv, NEW c \in Call, Step(c)
  PROVE  AnyInv'
<1>1. CASE Allow(c)
  BY <1>1, FinishAny DEF Allow, At
<1>2. CASE Reply(c)
  BY <1>2, FinishAny DEF Reply
<1>3. CASE HookDies(c)
  BY <1>3, FinishAny DEF HookDies
<1> QED BY <1>1, <1>2, <1>3, FireAny, UnregisteredAny, BookAny, ConsumeAny, SaveAny, PayAny,
           AckSaveAny DEF Step

\* Every command and every step of a hook keeps the invariant.
LEMMA AnyStep == AnyInv /\ [Next]_vars => AnyInv'
<1> SUFFICES ASSUME AnyInv, [Next]_vars PROVE AnyInv'
  OBVIOUS
<1>1. CASE Command
  <2>1. TypeOK'
    BY <1>1, CommandType DEF AnyInv
  <2>2. UNCHANGED <<asked, took, paid, hook>> /\ OrchestratorBinds'
    BY <1>1, CommandKeeps, DispatchGuardAssumption DEF AnyInv, OrchestratorBinds
  <2> QED BY <2>1, <2>2 DEF AnyInv, Processes, Carries, Bystander
<1>2. CASE \E c \in Call : Step(c)
  BY <1>2, StepAny
<1>3. CASE UNCHANGED vars
  BY <1>3 DEF vars, files, world, calls, AnyInv, TypeOK, Processes, Carries, Bystander,
              OrchestratorBinds
<1> QED BY <1>1, <1>2, <1>3 DEF Next

\* It holds before the first run.
LEMMA InitAny == Init => AnyInv
<1> SUFFICES ASSUME Init PROVE AnyInv
  OBVIOUS
<1> USE DispatchGuardAssumption
<1>1. << >> \in Seq(Entry) /\ Len(<< >>) <= Cap /\ << >> \in Seq(Debt)
  OBVIOUS
<1>2. TypeOK
  BY <1>1 DEF Init, TypeOK, NoMarker, NoCycle
<1>3. Idle \in Process
  BY <1>1 DEF Idle, Process, Labels
<1>4. Processes
  BY <1>3 DEF Init, Processes, Carries, Found, Idle
<1>5. OrchestratorBinds /\ \A c \in Call : Bystander(c)
  BY DEF Init, OrchestratorBinds, NoMarker, Bystander, Idle
<1> QED BY <1>2, <1>4, <1>5 DEF AnyInv

\* So it always holds.
LEMMA AlwaysAny == Spec => []AnyInv
BY InitAny, AnyStep, PTL DEF Spec

\* The files hold what the code may write there, and the registry is never
\* longer than its cap, however the hooks' loads and saves interleave.
THEOREM GuardTypeCorrect == Spec => []TypeOK
<1>1. AnyInv => TypeOK
  BY DEF AnyInv
<1> QED BY <1>1, AlwaysAny, PTL

\* No answer to a bystander's call binds the marker to it.
THEOREM NobodyElseBinds == Spec => []OrchestratorBinds
<1>1. AnyInv => OrchestratorBinds
  BY DEF AnyInv
<1> QED BY <1>1, AlwaysAny, PTL

\* A session that has nothing to do with the run never leaves it a debt.
THEOREM BystandersOweNothing == Spec => []NoBystanderDebt
<1>1. AnyInv => NoBystanderDebt
  BY DEF AnyInv, NoBystanderDebt, Bystander, At
<1> QED BY <1>1, AlwaysAny, PTL

-----------------------------------------------------------------------------
(* One hook or command at a time.  An emission then belongs to the call    *)
(* that consumed it, what a hook has read is still so when it writes, and  *)
(* what it is allowed with nobody was allowed with before.                 *)

AtMostOne == \A c, d \in Call : c # d => At(c, "idle") \/ At(d, "idle")

\* Emissions are registered in the order of their numbers, by runs that began.
Numbered ==
  /\ \A i \in DOMAIN registry : registry[i].nonce <= emitted /\ registry[i].run <= runs
  /\ \A i, j \in DOMAIN registry : i < j => registry[i].nonce < registry[j].nonce
  /\ Live => marker.run = runs

\* A consumed entry belongs to the call that was allowed with it, and that call
\* still asks the same.
OwnedBy(c) ==
  \A i \in DOMAIN registry : registry[i].by = c =>
    /\ registry[i].nonce \in took[c]
    /\ asked[c].session = Owner
    /\ Req(c).kind = "verbatim" => Req(c).text = registry[i].text

\* What a call was allowed with was emitted, and is marked as its own while it
\* is registered.
TakenBy(c) ==
  \A n \in took[c] :
    /\ n <= emitted
    /\ \A i \in DOMAIN registry : registry[i].nonce = n => registry[i].by = c

\* A registry in which c has consumed the entry numbered n.
Marked(r, n, c) == [i \in DOMAIN r |-> IF r[i].nonce = n THEN [r[i] EXCEPT !.by = c] ELSE r[i]]

\* The entry a hook found is of the live run, free, and still in the registry.
Holds(c) ==
  /\ hook[c].pc \in {"load", "save"} =>
       /\ Live /\ hook[c].entry.run = marker.run
       /\ hook[c].entry.by = NoCall
       /\ \E i \in DOMAIN registry : registry[i] = hook[c].entry
       /\ asked[c].session = Owner
       /\ Req(c).kind = "verbatim" => Req(c).text = hook[c].entry.text
  /\ At(c, "save") => hook[c].reg = Marked(registry, hook[c].entry.nonce, c)

\* A hook that pays was allowed with an emission that has not paid yet.
Pays(c) ==
  /\ hook[c].pc \in {"pay", "acksave"} =>
       /\ hook[c].entry.nonce \in took[c]
       /\ \A p \in paid[c] : p.nonce # hook[c].entry.nonce
  /\ At(c, "acksave") =>
       /\ hook[c].debt \in Unacked(ledger)
       /\ hook[c].led = [ledger EXCEPT ![hook[c].debt].acked = TRUE]

PaidBy(c) ==
  \A p \in paid[c] :
    /\ p.nonce \in took[c]
    /\ p.debt \in DOMAIN ledger /\ ledger[p.debt].acked

\* An exact copy is refused only to a call that consumed nothing.
Refused(c) ==
  hook[c].pc \in {"unregistered", "book", "deny"} /\ Req(c).kind = "verbatim"
    => \A i \in DOMAIN registry : registry[i].by # c

WorkerOf(c) == At(c, "worker") => \E d \in Call : cycle.nonce \in took[d]

TableInv == Numbered /\ (\A c \in Call : OwnedBy(c) /\ TakenBy(c)) /\ OneDispatchPerEmission
PaidInv  == (\A c \in Call : PaidBy(c)) /\ DebtPaidOnce
HookInv  == AtMostOne /\ \A c \in Call : Holds(c) /\ Pays(c) /\ Refused(c) /\ WorkerOf(c)

SerialInv == AnyInv /\ TableInv /\ PaidInv /\ HookInv

\* An idle hook claims nothing.
LEMMA IdleClaims ==
  ASSUME NEW c \in Call, At(c, "idle")
  PROVE  Holds(c) /\ Pays(c) /\ Refused(c) /\ WorkerOf(c)
BY DEF At, Holds, Pays, Refused, WorkerOf

\* Among the entries of a registry whose numbers rise a number occurs once.
LEMMA OneOfEachNumber ==
  ASSUME TypeOK, Numbered, NEW i \in DOMAIN registry, NEW j \in DOMAIN registry,
         registry[i].nonce = registry[j].nonce
  PROVE  i = j
<1>1. i \in Nat /\ j \in Nat /\ registry[i].nonce \in Nat
  BY Tables, DispatchGuardAssumption DEF Entry, Nonce
<1>2. ~(i < j) /\ ~(j < i)
  BY <1>1 DEF Numbered
<1> QED BY <1>1, <1>2

\* A new emission is nobody's, and its number is new.
LEMMA RegisterSerial ==
  ASSUME SerialInv, NEW t \in Text, Register(t)
  PROVE  TableInv'
<1> USE DispatchGuardAssumption
<1> DEFINE e == [nonce |-> emitted + 1, text |-> t, run |-> marker.run, by |-> NoCall]
<1>1. /\ UNCHANGED <<marker, runs, asked, took>> /\ emitted' = emitted + 1
      /\ registry' = Ring(Append(registry, e))
  BY DEF Register, calls
<1>2. e \in Entry /\ e.by = NoCall /\ e.nonce = emitted + 1 /\ e.run = marker.run
  BY DEF Register, Live, Entry, Nonce, SerialInv, AnyInv, TypeOK
<1>3. TypeOK /\ emitted \in Nat /\ runs \in Nat /\ e.run <= runs
  BY <1>2 DEF SerialInv, AnyInv, TypeOK, TableInv, Numbered, Register
<1> HIDE DEF e
<1>4. PICK k \in {0, 1} :
        /\ Len(registry') = Len(registry) + 1 - k
        /\ \A i \in 1 .. Len(registry') :
             registry'[i] = IF i + k = Len(registry) + 1 THEN e ELSE registry[i + k]
  <2>1. \E k \in {0, 1} : Shifted(registry', e, k)
    BY <1>1, <1>2, <1>3, RingIs
  <2> QED BY <2>1 DEF Shifted
<1>5. /\ DOMAIN registry = 1 .. Len(registry) /\ Len(registry) \in Nat
      /\ \A i \in DOMAIN registry : registry[i].nonce \in Nat /\ registry[i].run \in Nat
  BY <1>3, Tables DEF Entry, Nonce
<1>6. DOMAIN registry' = 1 .. Len(registry')
  BY <1>1, <1>2, <1>3, RingIs, LenProperties
<1>7. ASSUME NEW i \in DOMAIN registry'
      PROVE  \/ registry'[i] = e /\ i + k = Len(registry) + 1
             \/ registry'[i] = registry[i + k] /\ i + k \in DOMAIN registry
  BY <1>4, <1>5, <1>6
<1>8. \A n \in Nat : n <= emitted => n # e.nonce
  BY <1>2, <1>3
<1>9. Numbered'
  <2>1. \A i \in DOMAIN registry' : registry'[i].nonce <= emitted' /\ registry'[i].run <= runs'
    BY <1>1, <1>2, <1>3, <1>5, <1>7 DEF SerialInv, TableInv, Numbered
  <2>2. ASSUME NEW i \in DOMAIN registry', NEW j \in DOMAIN registry', i < j
        PROVE  registry'[i].nonce < registry'[j].nonce
    <3>1. i \in Nat /\ j \in Nat /\ i + k < j + k /\ j + k <= Len(registry) + 1
      BY <2>2, <1>4, <1>5, <1>6
    <3>2. registry'[i] = registry[i + k] /\ i + k \in DOMAIN registry
      BY <3>1, <1>5, <1>7
    <3> QED BY <3>1, <3>2, <1>2, <1>3, <1>5, <1>7 DEF SerialInv, TableInv, Numbered
  <2> QED BY <1>1, <2>1, <2>2 DEF SerialInv, TableInv, Numbered, Live
<1>10. ASSUME NEW c \in Call PROVE OwnedBy(c)' /\ TakenBy(c)'
  <2>1. OwnedBy(c) /\ TakenBy(c) /\ took[c] \subseteq Nat
    BY <1>3 DEF SerialInv, TableInv, TypeOK, Nonce
  <2>2. OwnedBy(c)'
    BY <1>1, <1>2, <1>7, <2>1 DEF OwnedBy, Req
  <2>3. TakenBy(c)'
    BY <1>1, <1>3, <1>7, <1>8, <2>1 DEF TakenBy
  <2> QED BY <2>2, <2>3
<1> QED BY <1>1, <1>9, <1>10 DEF TableInv, OneDispatchPerEmission, SerialInv

\* A command leaves whatever debts are paid as they are.
LEMMA LedgerKeeps ==
  ASSUME TypeOK, Command \/ \E c \in Call : Book(c)
  PROVE  \A i \in DOMAIN ledger :
           i \in DOMAIN ledger' /\ (ledger[i].acked => ledger'[i].acked)
<1>1. ASSUME NEW d, ledger' = Append(ledger, d)
      PROVE  \A i \in DOMAIN ledger : i \in DOMAIN ledger' /\ ledger'[i] = ledger[i]
  <2>1. ledger \in Seq({d} \cup Debt)
    BY SeqMonotonic DEF TypeOK
  <2>2. DOMAIN ledger' = 1 .. Len(ledger) + 1 /\ \A i \in 1 .. Len(ledger) : ledger'[i] = ledger[i]
    BY <1>1, <2>1, AppendProperties, LenProperties
  <2> QED BY <2>2, Tables
<1>2. ASSUME NEW ack \in BOOLEAN, RunEnd(ack)
      PROVE  \A i \in DOMAIN ledger :
               i \in DOMAIN ledger' /\ (ledger[i].acked => ledger'[i].acked)
  BY <1>2, Tables DEF RunEnd, Debt
<1>3. ASSUME \/ \E s \in {Owner, NoSession} : RunStart(s)
             \/ DropStaleMarker \/ AgeOut
             \/ \E t \in Text : EmitPrompt(t) \/ EmitHardening(t)
             \/ \E n \in {0, emitted} : CycleBegin(n)
      PROVE  ledger' = ledger
  BY <1>3 DEF RunStart, DropStaleMarker, AgeOut, EmitPrompt, EmitHardening, Register,
              CycleBegin, files
<1>4. ASSUME NEW friction \in BOOLEAN, CycleEnd(friction)
      PROVE  ledger' = ledger \/ \E d : ledger' = Append(ledger, d)
  BY <1>4 DEF CycleEnd
<1>5. ASSUME NEW c \in Call, Book(c) PROVE \E d : ledger' = Append(ledger, d)
  BY <1>5 DEF Book
<1> QED BY <1>1, <1>2, <1>3, <1>4, <1>5 DEF Command

\* While nobody takes and nobody pays, what is paid stays paid.
LEMMA PaidKeeps ==
  ASSUME SerialInv, UNCHANGED <<took, paid>>,
         \A i \in DOMAIN ledger : i \in DOMAIN ledger' /\ (ledger[i].acked => ledger'[i].acked)
  PROVE  PaidInv'
BY DEF SerialInv, PaidInv, PaidBy, DebtPaidOnce

\* A command runs while every hook is idle.
LEMMA CommandSerial ==
  ASSUME ~Overlap, SerialInv, Command
  PROVE  TableInv' /\ PaidInv' /\ HookInv'
<1> USE DispatchGuardAssumption
<1>1. UNCHANGED <<asked, took, paid, hook>>
  BY CommandKeeps
<1>2. \A c \in Call : At(c, "idle")
  BY DEF Command, Alone, At, RunStart, DropStaleMarker, AgeOut, RunEnd, EmitPrompt,
         EmitHardening, CycleBegin, CycleEnd
<1>3. \A c \in Call : At(c, "idle")'
  BY <1>1, <1>2 DEF At
<1>4. HookInv'
  <2>1. ASSUME NEW c \in Call PROVE (Holds(c) /\ Pays(c) /\ Refused(c) /\ WorkerOf(c))'
    BY <1>3 DEF At, Holds, Pays, Refused, WorkerOf
  <2> QED BY <1>3, <2>1 DEF HookInv, AtMostOne
<1>5. PaidInv'
  BY <1>1, PaidKeeps, LedgerKeeps DEF SerialInv, AnyInv
<1>6. ASSUME NEW s \in {Owner, NoSession}, RunStart(s) PROVE TableInv'
  <2>1. UNCHANGED <<registry, emitted>> /\ runs' = runs + 1 /\ marker'.run = runs'
    BY <1>6 DEF RunStart
  <2>2. runs \in Nat /\ \A i \in DOMAIN registry : registry[i].run \in Nat
    BY Tables DEF SerialInv, AnyInv, TypeOK, Entry
  <2> QED BY <1>1, <2>1, <2>2
          DEF SerialInv, TableInv, Numbered, OwnedBy, TakenBy, OneDispatchPerEmission, Req
<1>7. ASSUME DropStaleMarker PROVE TableInv'
  <2>1. UNCHANGED <<registry, emitted, runs>> /\ ~Live'
    BY <1>7 DEF DropStaleMarker, world, Live, NoMarker
  <2> QED BY <1>1, <2>1
          DEF SerialInv, TableInv, Numbered, OwnedBy, TakenBy, OneDispatchPerEmission, Req
<1>8. ASSUME NEW ack \in BOOLEAN, RunEnd(ack) PROVE TableInv'
  <2>1. DOMAIN registry' = {} /\ UNCHANGED <<emitted, runs>> /\ ~Live'
    BY <1>8 DEF RunEnd, world, Live, NoMarker
  <2> QED BY <1>1, <2>1
          DEF SerialInv, TableInv, Numbered, OwnedBy, TakenBy, OneDispatchPerEmission, Req
<1>9. ASSUME NEW t \in Text, Register(t) PROVE TableInv'
  BY <1>9, RegisterSerial
<1>10. ASSUME \/ AgeOut \/ \E n \in {0, emitted} : CycleBegin(n)
              \/ \E friction \in BOOLEAN : CycleEnd(friction)
       PROVE  TableInv'
  <2>1. UNCHANGED <<registry, emitted, runs, marker>>
    BY <1>10 DEF AgeOut, CycleBegin, CycleEnd, files, world
  <2> QED BY <1>1, <2>1
          DEF SerialInv, TableInv, Numbered, OwnedBy, TakenBy, OneDispatchPerEmission, Req, Live
<1> QED BY <1>4, <1>5, <1>6, <1>7, <1>8, <1>9, <1>10 DEF Command, EmitPrompt, EmitHardening

\* While a hook runs, or is about to, the others are idle and stay so.
LEMMA OthersIdle ==
  ASSUME ~Overlap, SerialInv, NEW c \in Call, Step(c)
  PROVE  \A d \in Call \ {c} : /\ At(d, "idle") /\ At(d, "idle")'
                               /\ UNCHANGED <<asked[d], took[d], paid[d]>>
<1>1. hook \in [Call -> Process] /\ took \in [Call -> SUBSET Nonce]
      /\ asked \in [Call -> Question \cup {NoQuestion}]
      /\ paid \in [Call -> SUBSET [debt : Nat, nonce : Nonce]]
  BY DEF SerialInv, AnyInv, Processes, TypeOK
<1>2. ASSUME NEW s, NEW r, Asks(c, s, r) PROVE \A d \in Call : At(d, "idle")
  BY <1>2 DEF Asks, Alone, At
<1>3. ASSUME hook[c].pc # "idle" PROVE \A d \in Call \ {c} : At(d, "idle")
  BY <1>3 DEF SerialInv, HookInv, AtMostOne, At
<1>4. ASSUME NEW s, NEW r, Asks(c, s, r)
      PROVE  \A d \in Call \ {c} : UNCHANGED <<asked[d], took[d], paid[d]>>
  BY <1>1, <1>4 DEF Asks
<1>5. ASSUME FireRef(c) \/ FireVerbatim(c) \/ FireSuffix(c) \/ FireOther(c)
      PROVE  \A d \in Call \ {c} : At(d, "idle") /\ UNCHANGED <<hook[d], asked[d], took[d], paid[d]>>
  <2>1. \E s, r : Asks(c, s, r)
    BY <1>5 DEF FireRef, FireVerbatim, FireSuffix, FireOther
  <2>2. \A label, e : Begin(c, label, e) \/ Goto(c, label) => \A d \in Call \ {c} : hook'[d] = hook[d]
    BY <1>1 DEF Begin, Goto
  <2>3. \A d \in Call \ {c} : hook'[d] = hook[d]
    BY <1>5, <2>2 DEF FireRef, FireVerbatim, FireSuffix, FireOther
  <2> QED BY <1>2, <1>4, <2>1, <2>3
<1>6. ASSUME Unregistered(c) \/ Book(c) \/ Consume(c) \/ Save(c) \/ Pay(c) \/ AckSave(c)
      PROVE  \A d \in Call \ {c} : At(d, "idle") /\ UNCHANGED <<hook[d], asked[d], took[d], paid[d]>>
  <2>1. hook[c].pc # "idle"
    BY <1>6 DEF Unregistered, Book, Consume, Save, Pay, AckSave, AfterAck, At
  <2>2. \A label : Goto(c, label) => \A d \in Call \ {c} : hook'[d] = hook[d]
    BY <1>1 DEF Goto
  <2>3. \A d \in Call \ {c} : hook'[d] = hook[d]
    BY <1>1, <1>6, <2>2 DEF Unregistered, Book, Consume, Save, Pay, AckSave, AfterAck
  <2>4. \A d \in Call \ {c} : UNCHANGED <<asked[d], took[d], paid[d]>>
    BY <1>1, <1>6 DEF Unregistered, Book, Consume, Save, Pay, AckSave, AfterAck, Granted, calls
  <2> QED BY <1>3, <2>1, <2>3, <2>4
<1>7. ASSUME Allow(c) \/ Reply(c) \/ HookDies(c)
      PROVE  \A d \in Call \ {c} : At(d, "idle") /\ UNCHANGED <<hook[d], asked[d], took[d], paid[d]>>
  <2>1. hook[c].pc # "idle" /\ Finish(c)
    BY <1>7 DEF Allow, Reply, HookDies, At
  <2> QED BY <1>1, <1>3, <2>1 DEF Finish
<1> QED BY <1>5, <1>6, <1>7 DEF Step, At

\* So what a step means for its own hook is all there is to show of the hooks.
LEMMA OneHook ==
  ASSUME ~Overlap, SerialInv, NEW c \in Call, Step(c),
         Holds(c)', Pays(c)', Refused(c)', WorkerOf(c)'
  PROVE  HookInv'
<1>1. ASSUME NEW d \in Call \ {c} PROVE (Holds(d) /\ Pays(d) /\ Refused(d) /\ WorkerOf(d))'
  BY OthersIdle DEF At, Holds, Pays, Refused, WorkerOf
<1>2. AtMostOne'
  BY OthersIdle DEF AtMostOne
<1> QED BY <1>1, <1>2 DEF HookInv

\* Steps that leave the registry alone, and take nothing.
LEMMA TablesKeep ==
  ASSUME SerialInv, NEW c \in Call,
         UNCHANGED <<registry, emitted, runs, took>>,
         marker'.run = marker.run,
         \A d \in Call \ {c} : asked'[d] = asked[d],
         asked'[c] = asked[c] \/ \A i \in DOMAIN registry : registry[i].by # c
  PROVE  TableInv'
<1>1. Numbered'
  BY DEF SerialInv, TableInv, Numbered, Live
<1>2. ASSUME NEW d \in Call PROVE OwnedBy(d)' /\ TakenBy(d)'
  BY DEF SerialInv, TableInv, OwnedBy, TakenBy, Req
<1> QED BY <1>1, <1>2 DEF SerialInv, TableInv, OneDispatchPerEmission

\* A call that asks for the first time has consumed nothing.
LEMMA FirstAsk ==
  ASSUME SerialInv, NEW c \in Call, NEW s, NEW r, Asks(c, s, r)
  PROVE  /\ UNCHANGED <<marker, cycle, registry, ledger, emitted, old, runs, took, paid>>
         /\ asked'[c] = [session |-> s, request |-> r]
         /\ Live
         /\ asked'[c] = asked[c] \/ \A i \in DOMAIN registry : registry[i].by # c
         /\ TableInv' /\ PaidInv'
<1>1. /\ UNCHANGED <<marker, cycle, registry, ledger, emitted, old, runs, took, paid>>
      /\ asked'[c] = [session |-> s, request |-> r]
      /\ \A d \in Call \ {c} : asked'[d] = asked[d]
      /\ Live
  BY DEF SerialInv, AnyInv, TypeOK, Asks, files, world
<1>2. asked'[c] = asked[c] \/ \A i \in DOMAIN registry : registry[i].by # c
  <2>1. CASE asked[c] = NoQuestion
    BY <2>1, DispatchGuardAssumption DEF NoQuestion, SerialInv, TableInv, OwnedBy
  <2> QED BY <1>1, <2>1 DEF Asks
<1>3. TableInv'
  BY <1>1, <1>2, TablesKeep
<1>4. PaidInv'
  BY <1>1, PaidKeeps
<1> QED BY <1>1, <1>2, <1>3, <1>4

\* A hook that found a fresh entry of its own run holds it.
LEMMA FoundSerial ==
  ASSUME SerialInv, NEW c \in Call, NEW r, Asks(c, Owner, r),
         NEW i \in DOMAIN registry, Fresh(registry[i]), Begin(c, "load", registry[i]),
         r.kind = "verbatim" => r.text = registry[i].text
  PROVE  TableInv' /\ PaidInv' /\ (Holds(c) /\ Pays(c) /\ Refused(c) /\ WorkerOf(c))'
<1> DEFINE e == registry[i]
<1>1. e \in Entry /\ Processes
  BY Tables DEF SerialInv, AnyInv
<1>2. hook'[c].pc = "load" /\ hook'[c].entry = e
  BY <1>1, BeginIs DEF Labels
<1>3. e.by = NoCall /\ e.run = marker.run
  <2>1. Live /\ e.run >= marker.run /\ e.run <= runs /\ marker.run = runs
    BY FirstAsk DEF Fresh, SerialInv, TableInv, Numbered
  <2>2. e.run \in Nat /\ runs \in Nat
    BY <1>1, DispatchGuardAssumption DEF Entry, SerialInv, AnyInv, TypeOK
  <2> QED BY <2>1, <2>2 DEF Fresh
<1>4. Holds(c)'
  <2>1. /\ marker' = marker /\ registry' = registry /\ Live
        /\ asked'[c] = [session |-> Owner, request |-> r]
    BY FirstAsk
  <2> QED BY <1>2, <1>3, <2>1 DEF Holds, Live, Req, At
<1> QED BY <1>2, <1>4, FirstAsk DEF Pays, Refused, WorkerOf, At

\* A hook that found none may be refused only if its call consumed nothing.
LEMMA NotFoundSerial ==
  ASSUME SerialInv, NEW c \in Call, NEW s, NEW r, Asks(c, s, r),
         hook'[c].pc \in {"unregistered", "bind", "book", "deny"},
         hook'[c].pc # "bind" /\ r.kind = "verbatim" => \A i \in DOMAIN registry : registry[i].by # c
  PROVE  TableInv' /\ PaidInv' /\ (Holds(c) /\ Pays(c) /\ Refused(c) /\ WorkerOf(c))'
<1>1. asked'[c] = [session |-> s, request |-> r] /\ registry' = registry
  BY FirstAsk
<1> QED BY <1>1, FirstAsk DEF Holds, Pays, Refused, WorkerOf, At, Req

\* The entry that BySha finds is the caller's own if it has one.
LEMMA ByShaIsOwn ==
  ASSUME TypeOK, NEW c \in Call, NEW t, NEW i \in EntriesOf(t), registry[i].by = c
  PROVE  BySha(c, t).by = c
<1> DEFINE own == {j \in EntriesOf(t) : registry[j].by = c}
<1>1. PICK first \in own : \A j \in own : first <= j
  <2>1. own \subseteq Nat /\ own # {}
    BY Tables DEF EntriesOf
  <2> HIDE DEF own
  <2> QED BY <2>1, LeastNumber
<1>2. (CHOOSE m \in own : \A j \in own : m <= j) \in own
  BY <1>1
<1>3. BySha(c, t) = registry[CHOOSE m \in own : \A j \in own : m <= j]
  BY <1>1 DEF BySha
<1> QED BY <1>2, <1>3

\* What a call that asks for an exact copy consumed is of that text.
LEMMA OwnIsOfText ==
  ASSUME SerialInv, NEW c \in Call, NEW t, Asks(c, Owner, [kind |-> "verbatim", text |-> t]),
         NEW i \in DOMAIN registry, registry[i].by = c
  PROVE  i \in EntriesOf(t)
<1>1. asked[c].session = Owner
  BY DEF SerialInv, TableInv, OwnedBy
<1>2. asked[c] = [session |-> Owner, request |-> [kind |-> "verbatim", text |-> t]]
  BY <1>1, DispatchGuardAssumption DEF Asks, NoQuestion
<1> QED BY <1>2 DEF EntriesOf, SerialInv, TableInv, OwnedBy, Req

\* A hook that fires keeps the invariants.
LEMMA FireSerial ==
  ASSUME SerialInv, NEW c \in Call,
         FireRef(c) \/ FireVerbatim(c) \/ FireSuffix(c) \/ FireOther(c)
  PROVE  TableInv' /\ PaidInv' /\ (Holds(c) /\ Pays(c) /\ Refused(c) /\ WorkerOf(c))'
<1> DEFINE Goal == TableInv' /\ PaidInv' /\ (Holds(c) /\ Pays(c) /\ Refused(c) /\ WorkerOf(c))'
<1>1. Processes
  BY DEF SerialInv, AnyInv
<1>2. \A label \in {"bind", "book", "deny"} : Goto(c, label) => hook'[c].pc = label
  BY <1>1, GotoIs DEF Labels, Found
<1>3. Begin(c, "unregistered", NoEntry) => hook'[c].pc = "unregistered"
  BY <1>1, BeginIs DEF Labels
<1>4. ASSUME NEW t, NEW r, Asks(c, Owner, r), NEW e \in FirstFresh(t), Begin(c, "load", e),
             r.kind = "verbatim" => r.text = t
      PROVE  Goal
  <2>1. PICK i \in EntriesOf(t) : Fresh(registry[i]) /\ e = registry[i]
    BY <1>4 DEF FirstFresh
  <2>2. i \in DOMAIN registry /\ registry[i].text = t
    BY DEF EntriesOf
  <2> QED BY <1>4, <2>1, <2>2, FoundSerial
<1>5. CASE FireRef(c)
  <2>1. PICK n \in 1 .. emitted :
          /\ Asks(c, Owner, [kind |-> "ref", nonce |-> n])
          /\ \/ \E i \in DOMAIN registry : Fresh(registry[i]) /\ Begin(c, "load", registry[i])
             \/ Goto(c, "book")
    BY <1>5 DEF FireRef
  <2>2. CASE Goto(c, "book")
    BY <1>2, <2>1, <2>2, NotFoundSerial
  <2> QED BY <2>1, <2>2, FoundSerial
<1>6. CASE FireVerbatim(c)
  <2>1. PICK t \in Text :
          /\ Asks(c, Owner, [kind |-> "verbatim", text |-> t])
          /\ \/ \E e \in FirstFresh(t) : Begin(c, "load", e)
             \/ EntriesOf(t) = {} /\ Begin(c, "unregistered", NoEntry)
             \/ Goto(c, "bind")
             \/ BySha(c, t).by # c /\ \E label \in {"book", "deny"} : Goto(c, label)
    BY <1>6 DEF FireVerbatim, Denial
  <2>2. CASE \E e \in FirstFresh(t) : Begin(c, "load", e)
    BY <1>4, <2>1, <2>2
  <2>3. CASE Goto(c, "bind")
    BY <1>2, <2>1, <2>3, NotFoundSerial
  <2>4. CASE EntriesOf(t) = {} /\ Begin(c, "unregistered", NoEntry)
    <3>1. \A i \in DOMAIN registry : registry[i].by # c
      BY <2>1, <2>4, OwnIsOfText
    <3> QED BY <1>3, <2>1, <2>4, <3>1, NotFoundSerial
  <2>5. CASE BySha(c, t).by # c /\ \E label \in {"book", "deny"} : Goto(c, label)
    <3>1. \A i \in DOMAIN registry : registry[i].by # c
      BY <2>1, <2>5, OwnIsOfText, ByShaIsOwn DEF SerialInv, AnyInv
    <3> QED BY <1>2, <2>1, <2>5, <3>1, NotFoundSerial
  <2> QED BY <2>1, <2>2, <2>3, <2>4, <2>5
<1>7. CASE FireSuffix(c)
  <2>1. PICK t \in Text \ Hardening :
          /\ Asks(c, Owner, [kind |-> "suffix", text |-> t])
          /\ \/ \E e \in FirstFresh(t) : Begin(c, "load", e)
             \/ Begin(c, "unregistered", NoEntry)
    BY <1>7 DEF FireSuffix
  <2>2. CASE \E e \in FirstFresh(t) : Begin(c, "load", e)
    BY <1>4, <2>1, <2>2
  <2>3. CASE Begin(c, "unregistered", NoEntry)
    BY <1>3, <2>1, <2>3, NotFoundSerial
  <2> QED BY <2>1, <2>2, <2>3
<1>8. CASE FireOther(c)
  <2>1. hook'[c].pc = "unregistered"
    BY <1>3, <1>8 DEF FireOther
  <2>2. \/ \E t : Asks(c, Owner, [kind |-> "slip", text |-> t])
        \/ \E s, k : k \in {"other", "guide"} /\ Asks(c, s, [kind |-> k])
    BY <1>8 DEF FireOther
  <2>3. ASSUME NEW t, Asks(c, Owner, [kind |-> "slip", text |-> t]) PROVE Goal
    BY <2>1, <2>3, NotFoundSerial
  <2>4. ASSUME NEW s, NEW k \in {"other", "guide"}, Asks(c, s, [kind |-> k]) PROVE Goal
    BY <2>1, <2>4, NotFoundSerial
  <2> QED BY <2>2, <2>3, <2>4
<1> QED BY <1>5, <1>6, <1>7, <1>8

\* The answer to an unregistered prompt: a worker's passes only when some call
\* took the nonce of its cycle.
LEMMA UnregisteredSerial ==
  ASSUME SerialInv, NEW c \in Call, Unregistered(c)
  PROVE  TableInv' /\ PaidInv' /\ (Holds(c) /\ Pays(c) /\ Refused(c) /\ WorkerOf(c))'
<1>1. UNCHANGED <<marker, cycle, registry, ledger, emitted, old, runs, asked, took, paid>>
  BY DEF Unregistered, files, world, calls
<1>2. PICK label \in {"bind", "worker", "book", "deny"} :
        Goto(c, label) /\ (label = "worker" => Consumed(cycle.nonce))
  BY DEF Unregistered, Denial
<1>3. hook'[c].pc = label
  BY <1>2, GotoIs DEF SerialInv, AnyInv, Labels, Found
<1>4. TableInv' /\ PaidInv'
  BY <1>1, TablesKeep, PaidKeeps
<1>5. WorkerOf(c)'
  <2>1. SUFFICES ASSUME Consumed(cycle.nonce) PROVE \E d \in Call : cycle.nonce \in took[d]
    BY <1>1, <1>2, <1>3 DEF WorkerOf, At
  <2>2. PICK i \in DOMAIN registry : registry[i].nonce = cycle.nonce /\ registry[i].by # NoCall
    BY <2>1 DEF Consumed
  <2>3. registry[i].by \in Call
    BY <2>2, Tables DEF SerialInv, AnyInv, Entry
  <2> QED BY <2>2, <2>3 DEF SerialInv, TableInv, OwnedBy
<1>6. Refused(c)'
  BY <1>1, <1>3 DEF Unregistered, At, SerialInv, HookInv, Refused, Req
<1> QED BY <1>3, <1>4, <1>5, <1>6 DEF Holds, Pays, At

\* A denial that is booked.
LEMMA BookSerial ==
  ASSUME SerialInv, NEW c \in Call, Book(c)
  PROVE  TableInv' /\ PaidInv' /\ (Holds(c) /\ Pays(c) /\ Refused(c) /\ WorkerOf(c))'
<1>1. UNCHANGED <<marker, cycle, registry, emitted, old, runs, asked, took, paid>>
  BY DEF Book, world, calls
<1>2. hook'[c].pc = "deny"
  BY GotoIs DEF Book, SerialInv, AnyInv, Labels, Found
<1>3. TableInv' /\ PaidInv'
  BY <1>1, TablesKeep, PaidKeeps, LedgerKeeps DEF SerialInv, AnyInv
<1>4. Refused(c)'
  BY <1>1, <1>2 DEF Book, At, SerialInv, HookInv, Refused, Req
<1> QED BY <1>2, <1>3, <1>4 DEF Holds, Pays, WorkerOf, At

\* Nobody came between: the entry a hook found can still be consumed.
LEMMA ConsumeFinds ==
  ASSUME SerialInv, NEW c \in Call, Consume(c)
  PROVE  /\ UNCHANGED <<marker, cycle, registry, ledger, emitted, old, runs, asked, took, paid>>
         /\ hook'[c].pc = "save" /\ hook'[c].entry = hook[c].entry
         /\ hook'[c].reg = Marked(registry, hook[c].entry.nonce, c)
<1> DEFINE mine == {i \in DOMAIN registry : registry[i].nonce = hook[c].entry.nonce}
           r == [i \in DOMAIN registry |->
                   IF i \in mine THEN [registry[i] EXCEPT !.by = c] ELSE registry[i]]
<1>1. PICK k \in DOMAIN registry : registry[k] = hook[c].entry /\ registry[k].by = NoCall
  BY DEF Consume, At, SerialInv, HookInv, Holds
<1>2. k \in mine
  BY <1>1
<1>3. ASSUME NEW i \in mine PROVE registry[i].by = NoCall
  BY <1>1, OneOfEachNumber DEF SerialInv, AnyInv, TableInv
<1>4. hook' = [hook EXCEPT ![c].pc = "save", ![c].reg = r] /\ UNCHANGED calls
  BY <1>2, <1>3 DEF Consume
<1>5. r = Marked(registry, hook[c].entry.nonce, c)
  BY DEF Marked
<1> HIDE DEF r
<1>6. hook[c] \in Process /\ hook \in [Call -> Process]
  BY DEF SerialInv, AnyInv, Processes
<1>7. hook'[c].pc = "save" /\ hook'[c].entry = hook[c].entry /\ hook'[c].reg = r
  BY <1>4, <1>6 DEF Process
<1>8. UNCHANGED <<marker, cycle, registry, ledger, emitted, old, runs, asked, took, paid>>
  BY <1>4 DEF Consume, files, world, calls
<1> QED BY <1>5, <1>7, <1>8

\* So a hook that consumes goes on to write, and gives nothing up.
LEMMA ConsumeSerial ==
  ASSUME SerialInv, NEW c \in Call, Consume(c)
  PROVE  TableInv' /\ PaidInv' /\ (Holds(c) /\ Pays(c) /\ Refused(c) /\ WorkerOf(c))'
<1>1. UNCHANGED <<marker, cycle, registry, ledger, emitted, old, runs, asked, took, paid>>
  BY ConsumeFinds
<1>2. TableInv' /\ PaidInv'
  BY <1>1, TablesKeep, PaidKeeps
<1>3. Holds(c)'
  <2>1. Holds(c) /\ hook[c].pc = "load"
    BY DEF Consume, At, SerialInv, HookInv
  <2>2. /\ Live /\ hook[c].entry.run = marker.run /\ hook[c].entry.by = NoCall
        /\ \E i \in DOMAIN registry : registry[i] = hook[c].entry
        /\ asked[c].session = Owner
        /\ Req(c).kind = "verbatim" => Req(c).text = hook[c].entry.text
    BY <2>1 DEF Holds
  <2>3. hook'[c].pc = "save" /\ hook'[c].entry = hook[c].entry
    BY ConsumeFinds
  <2>4. hook'[c].reg = Marked(registry', hook'[c].entry.nonce, c)
    BY <1>1, ConsumeFinds
  <2> QED BY <1>1, <2>2, <2>3, <2>4 DEF Holds, Req, At, Live
<1> QED BY <1>2, <1>3, ConsumeFinds DEF Pays, Refused, WorkerOf, At

\* The entries of the registry that a consuming hook writes: the one it found
\* is its own now, the others are as they were.
LEMMA SavedIs ==
  ASSUME SerialInv, NEW c \in Call, Save(c)
  PROVE  /\ DOMAIN registry' = DOMAIN registry
         /\ \A i \in DOMAIN registry :
              /\ registry'[i].nonce = registry[i].nonce
              /\ registry'[i].run = registry[i].run
              /\ registry'[i].text = registry[i].text
              /\ registry'[i].by = IF registry[i].nonce = hook[c].entry.nonce THEN c
                                                                             ELSE registry[i].by
<1>1. registry' = Marked(registry, hook[c].entry.nonce, c)
  BY DEF Save, At, SerialInv, HookInv, Holds
<1>2. \A i \in DOMAIN registry : registry[i] \in Entry
  BY Tables DEF SerialInv, AnyInv
<1> QED BY <1>1, <1>2 DEF Entry, Marked

\* A call is allowed with an emission that nobody was allowed with before.
LEMMA SaveSerial ==
  ASSUME SerialInv, NEW c \in Call, Save(c)
  PROVE  TableInv' /\ PaidInv' /\ (Holds(c) /\ Pays(c) /\ Refused(c) /\ WorkerOf(c))'
<1> USE DispatchGuardAssumption
<1> DEFINE n == hook[c].entry.nonce
<1>1. /\ UNCHANGED <<marker, cycle, ledger, emitted, old, runs, asked, paid>>
      /\ took' = [took EXCEPT ![c] = @ \cup {n}]
  BY DEF Save, Granted, world
<1>2. took \in [Call -> SUBSET Nonce]
  BY DEF SerialInv, AnyInv, TypeOK
<1>3. took'[c] = took[c] \cup {n} /\ \A d \in Call \ {c} : took'[d] = took[d]
  BY <1>1, <1>2
<1>4. PICK k \in DOMAIN registry : registry[k] = hook[c].entry
  BY DEF Save, At, SerialInv, HookInv, Holds
<1>5. /\ registry[k].nonce = n /\ registry[k].by = NoCall /\ asked[c].session = Owner
      /\ Req(c).kind = "verbatim" => Req(c).text = registry[k].text
  BY <1>4 DEF Save, At, SerialInv, HookInv, Holds
<1>6. ASSUME NEW i \in DOMAIN registry, registry[i].nonce = n PROVE i = k
  BY <1>5, <1>6, OneOfEachNumber DEF SerialInv, AnyInv, TableInv
<1>7. \A d \in Call : n \notin took[d]
  BY <1>5 DEF SerialInv, TableInv, TakenBy
<1> HIDE DEF n
<1>8. Numbered'
  BY <1>1, SavedIs DEF SerialInv, TableInv, Numbered, Live
<1>9. ASSUME NEW d \in Call PROVE OwnedBy(d)'
  <2>1. SUFFICES ASSUME NEW i \in DOMAIN registry', registry'[i].by = d
                 PROVE  /\ registry'[i].nonce \in took'[d]
                        /\ asked'[d].session = Owner
                        /\ asked'[d].request.kind = "verbatim"
                             => asked'[d].request.text = registry'[i].text
    BY DEF OwnedBy, Req
  <2>2. i \in DOMAIN registry
    BY SavedIs
  <2>3. CASE registry[i].nonce = n
    BY <1>1, <1>3, <1>5, <1>6, <2>1, <2>2, <2>3, SavedIs DEF n, Req
  <2>4. CASE registry[i].nonce # n
    <3>1. registry[i].by = d
      BY <2>1, <2>2, <2>4, SavedIs DEF n
    <3> QED BY <1>1, <1>3, <2>2, <3>1, SavedIs DEF SerialInv, TableInv, OwnedBy, Req
  <2> QED BY <2>3, <2>4
<1>10. ASSUME NEW d \in Call PROVE TakenBy(d)'
  <2>1. SUFFICES ASSUME NEW m \in took'[d]
                 PROVE  /\ m <= emitted
                        /\ \A i \in DOMAIN registry : registry[i].nonce = m => registry'[i].by = d
    BY <1>1, SavedIs DEF TakenBy
  <2>2. CASE m \in took[d]
    BY <1>7, <2>2, SavedIs DEF n, SerialInv, TableInv, TakenBy
  <2>3. CASE m = n /\ d = c
    BY <1>5, <2>3, SavedIs DEF n, SerialInv, TableInv, Numbered
  <2> QED BY <1>3, <2>2, <2>3
<1>11. OneDispatchPerEmission'
  BY <1>3, <1>7 DEF OneDispatchPerEmission, SerialInv, TableInv
<1>12. \A d \in Call : took[d] \subseteq took'[d]
  BY <1>3
<1>13. PaidInv'
  BY <1>1, <1>12 DEF SerialInv, PaidInv, PaidBy, DebtPaidOnce
<1>14. PICK label \in {"pay", "bind"} : Goto(c, label)
  BY DEF Save
<1>15. hook'[c].pc = label /\ (label = "pay" => hook'[c].entry = hook[c].entry)
  <2>1. hook[c].entry \in Entry /\ Processes
    BY DEF Save, At, SerialInv, AnyInv, Processes, Carries, Found
  <2> QED BY <1>14, <2>1, GotoIs DEF Labels
<1>16. Pays(c)'
  <2>1. \A p \in paid[c] : p.nonce # n
    BY <1>7 DEF SerialInv, PaidInv, PaidBy
  <2> QED BY <1>1, <1>3, <1>15, <2>1 DEF Pays, At, n
<1> QED BY <1>8, <1>9, <1>10, <1>11, <1>13, <1>15, <1>16 DEF TableInv, Holds, Refused, WorkerOf, At

\* The oldest debt is marked in the copy of the ledger.
LEMMA PaySerial ==
  ASSUME SerialInv, NEW c \in Call, Pay(c)
  PROVE  TableInv' /\ PaidInv' /\ (Holds(c) /\ Pays(c) /\ Refused(c) /\ WorkerOf(c))'
<1>1. UNCHANGED <<marker, cycle, registry, ledger, emitted, old, runs, asked, took, paid>>
  BY DEF Pay, files, world, calls
<1>2. TableInv' /\ PaidInv'
  BY <1>1, TablesKeep, PaidKeeps
<1>3. CASE Goto(c, "bind")
  <2>1. hook'[c].pc = "bind"
    BY <1>3, GotoIs DEF SerialInv, AnyInv, Labels, Found
  <2> QED BY <1>2, <2>1 DEF Holds, Pays, Refused, WorkerOf, At
<1>4. ASSUME NEW i \in Unacked(ledger),
             hook' = [hook EXCEPT ![c].pc = "acksave", ![c].debt = i,
                                  ![c].led = [ledger EXCEPT ![i].acked = TRUE]]
      PROVE  (Holds(c) /\ Pays(c) /\ Refused(c) /\ WorkerOf(c))'
  <2> DEFINE l == [ledger EXCEPT ![i].acked = TRUE]
  <2>1. hook' = [hook EXCEPT ![c].pc = "acksave", ![c].debt = i, ![c].led = l]
    BY <1>4
  <2> HIDE DEF l
  <2>2. hook[c] \in Process /\ hook \in [Call -> Process]
    BY DEF SerialInv, AnyInv, Processes
  <2>3. /\ hook'[c].pc = "acksave" /\ hook'[c].entry = hook[c].entry
        /\ hook'[c].debt = i /\ hook'[c].led = l
    BY <2>1, <2>2 DEF Process
  <2>4. Pays(c) /\ hook[c].pc = "pay"
    BY DEF Pay, At, SerialInv, HookInv
  <2>5. Pays(c)'
    BY <1>1, <2>3, <2>4 DEF Pays, At, l
  <2> QED BY <2>3, <2>5 DEF Holds, Refused, WorkerOf, At
<1> QED BY <1>2, <1>3, <1>4 DEF Pay

\* The debt is paid: nobody paid it before, and its emission pays no other.
LEMMA AckSaveSerial ==
  ASSUME SerialInv, NEW c \in Call, AckSave(c)
  PROVE  TableInv' /\ PaidInv' /\ (Holds(c) /\ Pays(c) /\ Refused(c) /\ WorkerOf(c))'
<1> DEFINE n == hook[c].entry.nonce
           q == [debt |-> hook[c].debt, nonce |-> n]
<1>1. /\ UNCHANGED <<marker, cycle, registry, emitted, old, runs, asked, took>>
      /\ paid' = [paid EXCEPT ![c] = @ \cup {q}]
  BY DEF AckSave, AfterAck, world
<1>2. /\ hook[c].debt \in Unacked(ledger)
      /\ ledger' = [ledger EXCEPT ![hook[c].debt].acked = TRUE]
      /\ n \in took[c] /\ \A p \in paid[c] : p.nonce # n
  BY DEF AckSave, AfterAck, At, SerialInv, HookInv, Pays
<1>3. q.debt = hook[c].debt /\ q.nonce = n
  OBVIOUS
<1>4. paid'[c] = paid[c] \cup {q} /\ \A d \in Call \ {c} : paid'[d] = paid[d]
  BY <1>1 DEF SerialInv, AnyInv, Processes
<1> HIDE DEF n, q
<1>5. TableInv'
  BY <1>1, TablesKeep
<1>6. /\ DOMAIN ledger' = DOMAIN ledger
      /\ \A i \in DOMAIN ledger : ledger[i].acked => ledger'[i].acked
      /\ ledger'[hook[c].debt].acked
  <2>1. ledger[hook[c].debt] \in Debt
    BY <1>2, Tables DEF Unacked, SerialInv, AnyInv
  <2> QED BY <1>2, <2>1 DEF Unacked, Debt
<1>7. ASSUME NEW d \in Call PROVE PaidBy(d)'
  <2>1. SUFFICES ASSUME NEW p \in paid'[d]
                 PROVE  p.nonce \in took[d] /\ p.debt \in DOMAIN ledger /\ ledger'[p.debt].acked
    BY <1>1, <1>6 DEF PaidBy
  <2>2. CASE p \in paid[d]
    BY <1>6, <2>2 DEF SerialInv, PaidInv, PaidBy
  <2>3. CASE d = c /\ p = q
    BY <1>2, <1>3, <1>6, <2>3 DEF Unacked
  <2> QED BY <1>4, <2>2, <2>3
<1>8. ASSUME NEW d \in Call, NEW p \in paid[d] PROVE p.debt # q.debt /\ p.nonce # q.nonce
  <2>1. p.nonce \in took[d] /\ ledger[p.debt].acked
    BY DEF SerialInv, PaidInv, PaidBy
  <2>2. p.debt # q.debt
    BY <1>2, <1>3, <2>1 DEF Unacked
  <2>3. CASE d = c
    BY <1>2, <1>3, <2>2, <2>3
  <2>4. CASE d # c
    BY <1>2, <1>3, <2>1, <2>2, <2>4 DEF SerialInv, TableInv, OneDispatchPerEmission
  <2> QED BY <2>3, <2>4
<1>9. DebtPaidOnce'
  <2>1. SUFFICES ASSUME NEW d \in Call, NEW e \in Call, NEW p \in paid'[d], NEW r \in paid'[e]
                 PROVE  /\ p.nonce \in took[d]
                        /\ <<d, p>> # <<e, r>> => p.debt # r.debt /\ p.nonce # r.nonce
    BY <1>1 DEF DebtPaidOnce
  <2>2. p.nonce \in took[d]
    BY <1>1, <1>7 DEF PaidBy
  <2>3. (p \in paid[d] \/ (d = c /\ p = q)) /\ (r \in paid[e] \/ (e = c /\ r = q))
    BY <1>4
  <2>4. CASE p \in paid[d] /\ r \in paid[e]
    BY <2>2, <2>4 DEF SerialInv, PaidInv, DebtPaidOnce
  <2>5. CASE p \in paid[d] /\ e = c /\ r = q
    BY <1>8, <2>2, <2>5
  <2>6. CASE d = c /\ p = q /\ r \in paid[e]
    BY <1>8, <2>2, <2>6
  <2> QED BY <2>2, <2>3, <2>4, <2>5, <2>6
<1>10. hook'[c].pc = "bind"
  BY GotoIs DEF AckSave, AfterAck, SerialInv, AnyInv, Labels, Found
<1> QED BY <1>5, <1>7, <1>9, <1>10 DEF PaidInv, Holds, Pays, Refused, WorkerOf, At

\* A call that ends keeps its question if it consumed anything.
LEMMA FinishSerial ==
  ASSUME SerialInv, NEW c \in Call, Finish(c), marker'.run = marker.run
  PROVE  TableInv' /\ PaidInv' /\ (Holds(c) /\ Pays(c) /\ Refused(c) /\ WorkerOf(c))'
<1>1. UNCHANGED <<cycle, registry, ledger, emitted, old, runs, took, paid>>
  BY DEF Finish, world
<1>2. /\ \A d \in Call \ {c} : asked'[d] = asked[d]
      /\ asked'[c] = asked[c] \/ took[c] = {}
  BY DEF Finish, SerialInv, AnyInv, TypeOK
<1>3. took[c] = {} => \A i \in DOMAIN registry : registry[i].by # c
  BY DEF SerialInv, TableInv, OwnedBy
<1>4. TableInv' /\ PaidInv'
  BY <1>1, <1>2, <1>3, TablesKeep, PaidKeeps
<1>5. At(c, "idle")'
  BY DEF Finish, SerialInv, AnyInv, Processes, At, Idle
<1> QED BY <1>4, <1>5 DEF At, Holds, Pays, Refused, WorkerOf

\* Every step keeps the invariants.
LEMMA SerialStep == ~Overlap /\ SerialInv /\ [Next]_vars => SerialInv'
<1> SUFFICES ASSUME ~Overlap, SerialInv, [Next]_vars PROVE SerialInv'
  OBVIOUS
<1>1. AnyInv'
  BY AnyStep DEF SerialInv
<1>2. CASE Command
  BY <1>1, <1>2, CommandSerial DEF SerialInv
<1>3. ASSUME NEW c \in Call, Step(c) PROVE SerialInv'
  <2>1. ASSUME Finish(c), marker'.run = marker.run
        PROVE  TableInv' /\ PaidInv' /\ (Holds(c) /\ Pays(c) /\ Refused(c) /\ WorkerOf(c))'
    BY <2>1, FinishSerial
  <2>2. Allow(c) => marker'.run = marker.run
    BY DEF Allow, SerialInv, AnyInv, TypeOK
  <2>3. TableInv' /\ PaidInv' /\ (Holds(c) /\ Pays(c) /\ Refused(c) /\ WorkerOf(c))'
    BY <1>3, <2>1, <2>2, FireSerial, UnregisteredSerial, BookSerial, ConsumeSerial, SaveSerial,
       PaySerial, AckSaveSerial DEF Step, Allow, Reply, HookDies
  <2>4. HookInv'
    BY <1>3, <2>3, OneHook
  <2> QED BY <1>1, <2>3, <2>4 DEF SerialInv
<1>4. CASE UNCHANGED vars
  <2>1. UNCHANGED <<marker, cycle, registry, ledger, emitted, old, runs, asked, took, paid, hook>>
    BY <1>4 DEF vars, files, world, calls
  <2>2. TableInv' /\ PaidInv'
    BY <2>1 DEF SerialInv, TableInv, PaidInv, Numbered, OwnedBy, TakenBy, OneDispatchPerEmission,
                PaidBy, DebtPaidOnce, Live, Req
  <2>3. HookInv'
    BY <2>1 DEF SerialInv, HookInv, AtMostOne, At, Holds, Pays, Refused, WorkerOf, Live, Req, Unacked
  <2> QED BY <1>1, <2>2, <2>3 DEF SerialInv
<1> QED BY <1>2, <1>3, <1>4 DEF Next

\* They hold before the first run.
LEMMA InitSerial == Init => SerialInv
<1> SUFFICES ASSUME Init PROVE SerialInv
  OBVIOUS
<1>1. AnyInv
  BY InitAny
<1>2. TableInv
  BY DispatchGuardAssumption
     DEF Init, TableInv, Numbered, Live, NoMarker, OwnedBy, TakenBy, OneDispatchPerEmission
<1>3. PaidInv
  BY DEF Init, PaidInv, PaidBy, DebtPaidOnce
<1>4. \A c \in Call : At(c, "idle")
  BY DEF Init, At, Idle
<1>5. HookInv
  BY <1>4, IdleClaims DEF HookInv, AtMostOne
<1> QED BY <1>1, <1>2, <1>3, <1>5 DEF SerialInv

\* So they always hold.
LEMMA AlwaysSerial == ASSUME ~Overlap PROVE Spec => []SerialInv
<1>1. SerialInv /\ [Next]_vars => SerialInv'
  BY SerialStep
<1> QED BY <1>1, InitSerial, PTL DEF Spec

\* consume_nonce: two calls never pass the guard with the same emission, for
\* any number of calls, prompts, firings and runs, and any cap of the registry.
THEOREM OneDispatch == ASSUME ~Overlap PROVE Spec => []OneDispatchPerEmission
<1>1. SerialInv => OneDispatchPerEmission
  BY DEF SerialInv, TableInv
<1> QED BY <1>1, AlwaysSerial, PTL

\* ack_oldest_deny: a hardening dispatch pays one debt, and a debt is paid once.
THEOREM DebtsArePaidOnce == ASSUME ~Overlap PROVE Spec => []DebtPaidOnce
<1>1. SerialInv => DebtPaidOnce
  BY DEF SerialInv, PaidInv
<1> QED BY <1>1, AlwaysSerial, PTL

\* _find_entry_by_sha: a call that consumed an entry is not refused when it
\* fires again with the same prompt.
THEOREM RefireStands == ASSUME ~Overlap PROVE Spec => []VerbatimRefireStands
<1>1. SerialInv => VerbatimRefireStands
  BY DEF SerialInv, HookInv, Refused, VerbatimRefireStands, At
<1> QED BY <1>1, AlwaysSerial, PTL

\* The consumed fence: a prompt nobody emitted passes as a worker's only when
\* some call took the emission of the cycle.
THEOREM WorkersAreDispatched == ASSUME ~Overlap PROVE Spec => []WorkerNeedsDispatch
<1>1. SerialInv => WorkerNeedsDispatch
  BY DEF SerialInv, HookInv, WorkerOf, WorkerNeedsDispatch
<1> QED BY <1>1, AlwaysSerial, PTL

\* Only the call that saves the registry takes anything.
LEMMA OnlySaveTakes ==
  ASSUME SerialInv, [Next]_vars, NEW c \in Call, took'[c] # took[c]
  PROVE  Save(c)
<1>1. ~Command /\ ~UNCHANGED vars
  BY CommandKeeps DEF vars, calls
<1>2. PICK d \in Call : Step(d)
  BY <1>1 DEF Next
<1>3. ~Consume(d)
  BY ConsumeFinds
<1>4. Save(d)
  BY <1>2, <1>3 DEF Step, FireRef, FireVerbatim, FireSuffix, FireOther, Asks, Unregistered, Book,
                    Pay, AckSave, AfterAck, Allow, Reply, HookDies, Finish, calls
<1>5. d = c
  BY <1>4 DEF Save, Granted, SerialInv, AnyInv, TypeOK
<1> QED BY <1>4, <1>5

\* lookup_emission's run gate: what an earlier run emitted is never dispatched,
\* also when that run crashed and its registry is still there.
THEOREM OnlyOwnRun == ASSUME ~Overlap PROVE Spec => OwnRunOnly
<1>1. SerialInv /\ [Next]_vars
        => [\A c \in Call : \A n \in took'[c] \ took[c] : hook[c].entry.run = marker.run]_vars
  <2>1. SUFFICES ASSUME SerialInv, [Next]_vars, NEW c \in Call, NEW n \in took'[c] \ took[c]
                 PROVE  hook[c].entry.run = marker.run
    OBVIOUS
  <2>2. Save(c)
    BY <2>1, OnlySaveTakes
  <2> QED BY <2>1, <2>2 DEF Save, At, SerialInv, HookInv, Holds
<1> QED BY <1>1, AlwaysSerial, PTL DEF Spec, OwnRunOnly
=============================================================================
