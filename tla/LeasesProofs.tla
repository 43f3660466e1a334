--------------------------- MODULE LeasesProofs ----------------------------
(***************************************************************************)
(* Proofs about Leases, for every number of workers, items and slots, and  *)
(* every TTL, clock resolution and bound.                                  *)
(***************************************************************************)
EXTENDS Leases, TLAPS

USE LeasesAssumption

-----------------------------------------------------------------------------
(* The operators the model is built from. *)

\* The larger of two naturals is one of them and bounds both.
LEMMA Max2Bounds ==
  ASSUME NEW a \in Nat, NEW b \in Nat
  PROVE  /\ Max2(a, b) \in Nat
         /\ Max2(a, b) >= a /\ Max2(a, b) >= b
         /\ Max2(a, b) = a \/ Max2(a, b) = b
BY DEF Max2

\* Rounding down to whole seconds loses less than a second.
LEMMA NowIsoBounds ==
  ASSUME NEW t \in Nat
  PROVE  /\ NowIso(t) \in Nat
         /\ NowIso(t) <= t
         /\ t < NowIso(t) + Second
<1>1. t % Second \in 0 .. (Second - 1)
  OBVIOUS
<1>2. t % Second <= t
  <2>1. t = Second * (t \div Second) + (t % Second) /\ t \div Second \in Nat
    OBVIOUS
  <2>2. Second * (t \div Second) \in Nat
    BY <2>1
  <2>. QED  BY <2>1, <2>2, <1>1
<1>. QED  BY <1>1, <1>2 DEF NowIso

\* No entry is an entry of its own kind.
LEMMA AbsentIsLease == Absent \in Lease
BY DEF Absent, Lease

\* Popping entries yields a lease file, recording watermarks a watermark file
\* that only grows.
LEMMA PoppedType ==
  ASSUME leases \in [Item -> Lease], NEW S
  PROVE  /\ Popped(S) \in [Item -> Lease]
         /\ \A i \in Item : Popped(S)[i] = IF i \in S THEN Absent ELSE leases[i]
BY AbsentIsLease DEF Popped

\* Recording watermarks raises those of the items retired, and no others.
LEMMA RecordWatermarksType ==
  ASSUME leases \in [Item -> Lease], watermark \in [Item -> Nat], NEW S
  PROVE  /\ RecordWatermarks(S) \in [Item -> Nat]
         /\ \A i \in Item : /\ RecordWatermarks(S)[i] >= watermark[i]
                            /\ i \in S => RecordWatermarks(S)[i] >= leases[i].token
                            /\ \/ RecordWatermarks(S)[i] = watermark[i]
                               \/ RecordWatermarks(S)[i] = leases[i].token
<1>1. ASSUME NEW i \in Item
      PROVE  leases[i].token \in Nat /\ watermark[i] \in Nat
  BY DEF Lease
<1>. QED  BY <1>1, Max2Bounds DEF RecordWatermarks

-----------------------------------------------------------------------------
(* Type correctness. *)

\* Tokens and heartbeats are numbers.
LEMMA LeaseField ==
  ASSUME NEW e \in Lease
  PROVE  e.token \in Nat /\ e.beat \in Nat
BY DEF Lease

\* A call that returns keeps the types.
LEMMA ReturnType ==
  ASSUME TypeOK, NEW w \in Worker, Return(w)
  PROVE  /\ lock' \in Worker \cup {NoWorker}
         /\ pc' \in [Worker -> {"idle", "wait", "locked", "commit"}]
         /\ call' \in [Worker -> [op : Ops \cup {"none"}, item : Item \cup {"none"},
                                 slot : Slot \cup {NoSlot}, now : Nat]]
         /\ \A v \in Worker : pc'[v] # "idle" /\ call'[v].op # "reclaim"
                                => call'[v].item \in Item
         /\ data' \in [Worker -> [Item -> Lease]]
BY AbsentIsLease DEF TypeOK, Return, NoCall

\* A call that starts keeps the types.
LEMMA CallType ==
  ASSUME TypeOK, NEW w \in Worker,
         NEW c \in [op : Ops, item : Item \cup {"none"},
                    slot : Slot \cup {NoSlot}, now : Nat],
         c.op # "reclaim" => c.item \in Item,
         Call(w, c)
  PROVE  TypeOK'
BY DEF TypeOK, Call

\* The next token is a number.
LEMMA NextTokenType ==
  ASSUME TypeOK, NEW w \in Worker, NEW i \in Item
  PROVE  NextToken(w, i) \in Nat
<1>1. data[w][i].token \in Nat /\ watermark[i] \in Nat
  BY LeaseField DEF TypeOK
<1>. QED  BY <1>1 DEF NextToken, Max2

\* The first write of an operation that retires the entries of the items in S.
RetireStep(w, S) ==
  /\ data'      = [data EXCEPT ![w] = Popped(S)]
  /\ watermark' = RecordWatermarks(S)
  /\ pc'        = [pc EXCEPT ![w] = "commit"]
  /\ UNCHANGED <<leases, lock, clock, call, held, renewed>>

\* A first write keeps the types.
LEMMA RetireType ==
  ASSUME TypeOK, NEW w \in Worker, NEW S, RetireStep(w, S), pc[w] = "locked"
  PROVE  TypeOK'
<1>1. Popped(S) \in [Item -> Lease] /\ RecordWatermarks(S) \in [Item -> Nat]
  BY PoppedType, RecordWatermarksType DEF TypeOK
<1>. QED  BY <1>1 DEF RetireStep, TypeOK

\* The operations that begin with a first write, and what they retire.
LEMMA RetireActions ==
  ASSUME NEW w \in Worker
  PROVE  /\ AcquireRetire(w) => RetireStep(w, ExpiredItems(call[w].now)) /\ At(w, "locked", "acquire")
         /\ ReclaimRetire(w) => RetireStep(w, ExpiredItems(call[w].now)) /\ At(w, "locked", "reclaim")
         /\ ReleaseRetire(w) => RetireStep(w, {call[w].item}) /\ At(w, "locked", "release")
BY DEF AcquireRetire, ReclaimRetire, ReleaseRetire, RetireStep

\* Every step of the lease layer preserves the types of its files and of the
\* workers' memory.
LEMMA TypeStep == TypeOK /\ [Next]_vars => TypeOK'
<1>. SUFFICES ASSUME TypeOK, [Next]_vars  PROVE TypeOK'
  OBVIOUS
<1>1. CASE Tick
  BY <1>1 DEF Tick, TypeOK
<1>2. ASSUME NEW w \in Worker, Step(w)  PROVE TypeOK'
  <2>. call[w].now \in Nat /\ clock \in Nat
    BY DEF TypeOK
  <2>1. CASE \E i \in Item, s \in Slot : CallAcquire(w, i, s)
    <3>. PICK i \in Item, s \in Slot : CallAcquire(w, i, s)
      BY <2>1
    <3>. QED  BY CallType DEF CallAcquire, Ops
  <2>2. CASE CallReclaim(w)
    BY <2>2, CallType DEF CallReclaim, Ops
  <2>3. CASE \E i \in Item, op \in {"heartbeat", "release"} : CallHeld(w, op, i)
    <3>. PICK i \in Item, op \in {"heartbeat", "release"} : CallHeld(w, op, i)
      BY <2>3
    <3>. QED  BY CallType DEF CallHeld, Ops
  <2>4. CASE Lock(w)
    BY <2>4 DEF Lock, TypeOK
  <2>5. CASE AcquireRetire(w)
    BY <2>5, RetireActions, RetireType DEF At
  <2>6. CASE AcquireRefused(w)
    BY <2>6, ReturnType, RecordWatermarksType DEF AcquireRefused, TypeOK
  <2>7. CASE AcquireCommit(w)
    <3>. DEFINE i == call[w].item
                e == [owner |-> w, slot |-> call[w].slot, token |-> NextToken(w, i),
                      beat |-> NowIso(call[w].now)]
    <3>1. i \in Item /\ call[w].slot \in Slot \cup {NoSlot}
      BY <2>7 DEF AcquireCommit, At, TypeOK
    <3>2. e \in Lease
      BY <3>1, NextTokenType, NowIsoBounds DEF Lease
    <3>3. leases' \in [Item -> Lease]
      BY <2>7, <3>1, <3>2 DEF AcquireCommit, TypeOK
    <3>4. held' \in [Worker -> [Item -> Nat]]
      BY <2>7, <3>1, NextTokenType DEF AcquireCommit, TypeOK
    <3>5. renewed' \in [Item -> [at : Nat, by : {"acquire", "heartbeat"}]]
      BY <2>7, <3>1 DEF AcquireCommit, TypeOK
    <3>. QED  BY <2>7, <3>3, <3>4, <3>5, ReturnType DEF AcquireCommit, TypeOK
  <2>8. CASE Heartbeat(w)
    <3>. DEFINE i == call[w].item
    <3>1. i \in Item
      BY <2>8 DEF Heartbeat, At, TypeOK
    <3>2. leases' \in [Item -> Lease]
      <4>1. NowIso(clock) \in Nat
        BY NowIsoBounds
      <4>2. leases[i] \in Lease
        BY <3>1 DEF TypeOK
      <4>3. [leases[i] EXCEPT !.beat = NowIso(clock)] \in Lease
        BY <4>1, <4>2 DEF Lease
      <4>4. leases' = [leases EXCEPT ![i] = [leases[i] EXCEPT !.beat = NowIso(clock)]]
        BY <2>8, <3>1 DEF Heartbeat, TypeOK
      <4>. QED  BY <4>3, <4>4 DEF TypeOK
    <3>3. renewed' \in [Item -> [at : Nat, by : {"acquire", "heartbeat"}]]
      BY <2>8, <3>1 DEF Heartbeat, TypeOK
    <3>. QED  BY <2>8, <3>2, <3>3, ReturnType DEF Heartbeat, TypeOK
  <2>9. CASE FencingError(w)
    BY <2>9, ReturnType DEF FencingError, TypeOK
  <2>10. CASE ReclaimRetire(w)
    BY <2>10, RetireActions, RetireType DEF At
  <2>11. CASE ReclaimCommit(w)
    BY <2>11, ReturnType DEF ReclaimCommit, TypeOK
  <2>12. CASE ReleaseRetire(w)
    BY <2>12, RetireActions, RetireType DEF At
  <2>13. CASE ReleaseCommit(w)
    <3>1. call[w].item \in Item
      BY <2>13 DEF ReleaseCommit, At, TypeOK
    <3>. QED  BY <2>13, <3>1, ReturnType DEF ReleaseCommit, TypeOK
  <2>14. CASE Crash(w)
    BY <2>14, AbsentIsLease DEF Crash, TypeOK, NoCall
  <2>15. CASE TimedOut(w)
    BY <2>15 DEF TimedOut, TypeOK, NoCall
  <2>. QED  BY <1>2, <2>1, <2>2, <2>3, <2>4, <2>5, <2>6, <2>7, <2>8, <2>9, <2>10,
               <2>11, <2>12, <2>13, <2>14, <2>15 DEF Step
<1>3. CASE UNCHANGED vars
  BY <1>3 DEF vars, TypeOK
<1>. QED  BY <1>1, <1>2, <1>3 DEF Next

\* The files start out well typed.
LEMMA TypeInit == Init => TypeOK
BY AbsentIsLease DEF Init, TypeOK, NoCall

\* TypeOK holds in every reachable state: leases.json and the watermark file
\* stay well formed through every interleaving and crash.
THEOREM TypeCorrect == Spec => []TypeOK
BY TypeInit, TypeStep, PTL DEF Spec
-----------------------------------------------------------------------------
(* The inductive invariant. *)

\* The files start out consistent.
LEMMA IInvInit == Init => IInv
BY TypeInit DEF Init, IInv, LockInv, TimeInv, CallTimes, Aged, CommitInv, HeldInv, Top,
                Max2, OneHolderPerToken, NoCall, Absent

\* Steps that change no file and no token: calls, taking the lock, an error.
QuietStep == UNCHANGED <<leases, watermark, held, renewed>>

\* The parts of IInv that a quiet step cannot disturb.
LEMMA QuietInv ==
  ASSUME IInv, QuietStep
  PROVE  HeldInv' /\ OneHolderPerToken'
BY DEF IInv, QuietStep, HeldInv, OneHolderPerToken, Top

\* Workers other than the lock's holder are not between two writes.
LEMMA AloneInCommit ==
  ASSUME IInv, NEW w \in Worker, lock = w \/ lock = NoWorker,
         NEW v \in Worker, pc[v] = "commit"
  PROVE  v = w
BY DEF IInv, LockInv

\* What the files say of one entry, as numbers.
LEMMA EntryType ==
  ASSUME TypeOK, NEW i \in Item
  PROVE  /\ leases[i] \in Lease
         /\ leases[i].token \in Nat
         /\ leases[i].beat \in Nat
         /\ watermark[i] \in Nat
         /\ renewed[i].at \in Nat /\ Aged(renewed[i]) \in Nat
BY LeaseField DEF TypeOK, Aged

\* After release_lock nobody is between two writes.
LEMMA ReturnInv ==
  ASSUME IInv, NEW w \in Worker, lock = w, Return(w), clock' = clock
  PROVE  /\ LockInv'
         /\ CommitInv'
         /\ CallTimes'
<1>1. \A v \in Worker : pc'[v] \notin {"locked", "commit"}
  BY DEF Return, IInv, LockInv, TypeOK
<1>2. LockInv'
  BY <1>1 DEF Return, LockInv
<1>3. CommitInv'
  BY <1>1 DEF CommitInv
<1>4. CallTimes'
  BY DEF Return, NoCall, IInv, TypeOK, TimeInv, CallTimes
<1>. QED  BY <1>2, <1>3, <1>4

\* Recording watermarks loses no token.
LEMMA RecordKeepsTokens ==
  ASSUME IInv, NEW S, watermark' = RecordWatermarks(S), UNCHANGED <<leases, held>>
  PROVE  HeldInv'
<1>. SUFFICES ASSUME NEW w \in Worker, NEW i \in Item  PROVE held[w][i] <= Top(i)'
  BY DEF HeldInv
<1>1. watermark'[i] \in Nat /\ watermark'[i] >= watermark[i]
  BY RecordWatermarksType DEF IInv, TypeOK
<1>2. held[w][i] <= Top(i) /\ held[w][i] \in Nat
  BY DEF IInv, HeldInv, TypeOK
<1>. QED  BY <1>1, <1>2, EntryType DEF Top, Max2, IInv

\* A retire step keeps the invariant: what is popped from the copy is in the
\* watermark file before leases.json changes.
LEMMA RetireInv ==
  ASSUME IInv, NEW w \in Worker, NEW S, RetireStep(w, S), pc[w] = "locked",
         call[w].op \in {"acquire", "reclaim", "release"},
         call[w].op = "release" =>
           S = {call[w].item} /\ leases[call[w].item].token = held[w][call[w].item],
         call[w].op # "release" => S = ExpiredItems(call[w].now),
         call[w].op = "acquire" => ~Live(leases[call[w].item], call[w].now)
  PROVE  IInv'
<1>1. TypeOK'
  BY RetireType DEF IInv
<1>2. lock = w /\ LockInv'
  BY DEF RetireStep, IInv, LockInv, TypeOK
<1>3. TimeInv'
  BY DEF RetireStep, IInv, TypeOK, TimeInv, CallTimes, Aged
<1>4. ASSUME NEW i \in Item
      PROVE  \/ data'[w][i] = leases[i] /\ i \notin S
             \/ /\ data'[w][i] = Absent
                /\ i \in S
                /\ leases[i].token <= watermark'[i]
                /\ \/ call[w].op = "release" /\ call[w].item = i
                   \/ call[w].op # "release" /\ leases[i].beat + TTL < clock
  <2>1. data'[w][i] = IF i \in S THEN Absent ELSE leases[i]
    BY PoppedType DEF RetireStep, IInv, TypeOK
  <2>2. i \in S => leases[i].token <= watermark'[i]
    <3>1. watermark'[i] \in Nat /\ (i \in S => watermark'[i] >= leases[i].token)
      BY RecordWatermarksType DEF RetireStep, IInv, TypeOK
    <3>. QED  BY <3>1, EntryType DEF IInv
  <2>3. i \in ExpiredItems(call[w].now) => leases[i].beat + TTL < clock
    <3>1. call[w].now <= clock /\ call[w].now \in Nat /\ clock \in Nat
      BY DEF IInv, TimeInv, CallTimes, TypeOK
    <3>. QED  BY <3>1, EntryType DEF ExpiredItems, Expired, IInv
  <2>. QED  BY <2>1, <2>2, <2>3
<1>5. CommitOK(w)'
  <2>1. call' = call /\ leases' = leases /\ held' = held /\ clock' = clock
    BY DEF RetireStep
  <2>2. ASSUME call[w].op = "acquire"  PROVE data'[w][call[w].item].token = 0
    <3>1. call[w].item \in Item
      BY <2>2 DEF IInv, TypeOK
    <3>2. CASE call[w].item \in S
      BY <1>4, <3>1, <3>2 DEF Absent
    <3>3. CASE call[w].item \notin S
      <4>1. call[w].now \in Nat
        BY DEF IInv, TypeOK
      <4>2. leases[call[w].item].token = 0
        BY <2>2, <3>1, <3>3, <4>1, EntryType DEF ExpiredItems, Expired, Live, IInv
      <4>. QED  BY <1>4, <3>1, <3>3, <4>2
    <3>. QED  BY <3>2, <3>3
  <2>. QED  BY <1>4, <2>1, <2>2 DEF CommitOK, Retired
<1>8. CommitInv'
  <2>. SUFFICES ASSUME NEW v \in Worker, pc'[v] = "commit"  PROVE v = w
    BY <1>5 DEF CommitInv
  <2>. QED  BY <1>2, AloneInCommit DEF RetireStep, IInv, TypeOK
<1>6. HeldInv'
  BY RecordKeepsTokens DEF RetireStep
<1>7. OneHolderPerToken'
  BY DEF RetireStep, IInv, OneHolderPerToken
<1>. QED  BY <1>1, <1>2, <1>3, <1>6, <1>7, <1>8 DEF IInv

\* A commit write that only drops retired entries keeps the invariant.
LEMMA DropInv ==
  ASSUME IInv, NEW w \in Worker, pc[w] = "commit", leases' = data[w], Return(w),
         UNCHANGED <<watermark, clock, renewed>>,
         TypeOK', HeldInv', OneHolderPerToken'
  PROVE  IInv'
<1>1. lock = w /\ CommitOK(w)
  BY DEF IInv, LockInv, CommitInv
<1>2. LockInv' /\ CommitInv' /\ CallTimes'
  BY <1>1, ReturnInv
<1>3. \A i \in Item : leases'[i].token # 0 => leases'[i] = leases[i]
  BY <1>1 DEF CommitOK, Absent
<1>4. TimeInv'
  BY <1>2, <1>3 DEF IInv, TimeInv, Aged
<1>. QED  BY <1>2, <1>4 DEF IInv

\* Dropping retired entries forgets no token: what leaves leases.json is in
\* the watermark file.
LEMMA DropKeepsTop ==
  ASSUME IInv, NEW w \in Worker, pc[w] = "commit", leases' = data[w],
         watermark' = watermark, NEW i \in Item
  PROVE  Top(i)' = Top(i)
<1>1. CommitOK(w)
  BY DEF IInv, CommitInv
<1>2. data[w][i] = leases[i] \/ (data[w][i].token = 0 /\ Retired(i))
  BY <1>1 DEF CommitOK, Absent
<1>. QED  BY <1>2, EntryType DEF Top, Max2, Retired, IInv

\* The token of a new lease is the successor of everything minted before.
LEMMA MintedIsNext ==
  ASSUME IInv, NEW w \in Worker, At(w, "commit", "acquire")
  PROVE  LET i == call[w].item IN
           i \in Item /\ NextToken(w, i) = Top(i) + 1 /\ Top(i) \in Nat
<1>. DEFINE i == call[w].item
<1>1. CommitOK(w) /\ i \in Item
  BY DEF At, IInv, CommitInv, TypeOK
<1>2. data[w][i].token = 0 /\ (leases[i].token = 0 \/ Retired(i))
  BY <1>1 DEF CommitOK, At
<1>. QED  BY <1>1, <1>2, EntryType DEF Top, Max2, Retired, NextToken, IInv

\* Granting a lease keeps the invariant.
LEMMA AcquireCommitInv ==
  ASSUME IInv, TypeOK', NEW w \in Worker, AcquireCommit(w)
  PROVE  IInv'
<1>. DEFINE i == call[w].item
            t == NextToken(w, i)
<1>1. /\ At(w, "commit", "acquire") /\ pc[w] = "commit"
      /\ i \in Item /\ t = Top(i) + 1 /\ Top(i) \in Nat
      /\ lock = w /\ CommitOK(w)
  BY MintedIsNext DEF AcquireCommit, At, IInv, LockInv, CommitInv
<1>2. LockInv' /\ CommitInv' /\ CallTimes'
  BY <1>1, ReturnInv DEF AcquireCommit
<1>3. /\ leases'[i].token = t /\ leases'[i].beat = NowIso(call[w].now)
      /\ renewed'[i] = [at |-> clock, by |-> "acquire"] /\ watermark' = watermark
      /\ \A j \in Item \ {i} : leases'[j] = data[w][j] /\ renewed'[j] = renewed[j]
  BY <1>1 DEF AcquireCommit, IInv, TypeOK
<1>4. held' = [held EXCEPT ![w][i] = t]
  BY DEF AcquireCommit
<1>5. TimeInv'
  <2>1. renewed'[i].at < leases'[i].beat + Second + Aged(renewed'[i])
    <3>1. clock <= call[w].now + LockTimeout + Pause
      BY <1>1 DEF IInv, TimeInv, CallTimes
    <3>2. call[w].now \in Nat /\ clock \in Nat
      BY DEF IInv, TypeOK
    <3>3. Aged(renewed'[i]) = LockTimeout + Pause /\ renewed'[i].at = clock
      BY <1>3 DEF Aged
    <3>. DEFINE n == call[w].now
    <3>4. NowIso(n) \in Nat /\ n < NowIso(n) + Second /\ leases'[i].beat = NowIso(n)
      BY <1>3, <3>2, NowIsoBounds
    <3>. QED  BY <3>1, <3>2, <3>3, <3>4
  <2>2. \A j \in Item \ {i} : leases'[j].token # 0 => leases'[j] = leases[j]
    BY <1>1, <1>3 DEF CommitOK, Absent
  <2>3. \A j \in Item \ {i} : Aged(renewed'[j]) = Aged(renewed[j]) /\ renewed'[j].at = renewed[j].at
    BY <1>3 DEF Aged
  <2>4. ASSUME NEW j \in Item, leases'[j].token # 0
        PROVE  renewed'[j].at < leases'[j].beat + Second + Aged(renewed'[j])
    <3>1. CASE j = i
      BY <2>1, <3>1
    <3>2. CASE j # i
      BY <2>2, <2>3, <2>4, <3>2 DEF IInv, TimeInv
    <3>. QED  BY <3>1, <3>2
  <2>. QED  BY <1>2, <2>4 DEF TimeInv
<1>6. ASSUME NEW v \in Worker, NEW j \in Item
      PROVE  held'[v][j] = IF v = w /\ j = i THEN t ELSE held[v][j]
  BY <1>1, <1>4 DEF IInv, TypeOK
<1>7. ASSUME NEW j \in Item
      PROVE  Top(j)' = IF j = i THEN t ELSE Top(j)
  <2>1. CASE j = i
    BY <1>1, <1>3, <2>1, EntryType DEF Top, Max2, IInv
  <2>2. CASE j # i
    <3>1. leases'[j] = leases[j] \/ (leases'[j].token = 0 /\ Retired(j))
      BY <1>1, <1>3, <2>2 DEF CommitOK, Absent
    <3>. QED  BY <1>3, <2>2, <3>1, EntryType DEF Top, Max2, Retired, IInv
  <2>. QED  BY <2>1, <2>2
<1>8. \A v \in Worker, j \in Item : held[v][j] \in Nat /\ held[v][j] <= Top(j)
  BY DEF IInv, HeldInv, TypeOK
<1>9. HeldInv'
  BY <1>1, <1>6, <1>7, <1>8 DEF HeldInv
<1>10. OneHolderPerToken'
  BY <1>1, <1>6, <1>8 DEF OneHolderPerToken, IInv
<1>. QED  BY <1>2, <1>5, <1>9, <1>10 DEF IInv

\* Every step of every operation, every crash and every tick keeps IInv.
LEMMA IInvStep == IInv /\ [Next]_vars => IInv'
<1>. SUFFICES ASSUME IInv, [Next]_vars  PROVE IInv'
  OBVIOUS
<1>0. TypeOK'
  BY TypeStep DEF IInv
<1>1. CASE Tick
  <2>1. clock' = clock + 1 /\ clock \in Nat
    BY <1>1 DEF Tick, IInv, TypeOK
  <2>2. QuietStep /\ UNCHANGED <<lock, pc, call, data>>
    BY <1>1 DEF Tick, QuietStep
  <2>3. LockInv' /\ HeldInv' /\ OneHolderPerToken'
    BY <2>2, QuietInv DEF IInv, LockInv
  <2>4. TimeInv'
    BY <1>1, <2>1, <2>2 DEF IInv, TimeInv, CallTimes, Aged, QuietStep, TypeOK, Tick
  <2>5. CommitInv'
    <3>. SUFFICES ASSUME NEW v \in Worker, pc[v] = "commit"  PROVE CommitOK(v)'
      BY <2>2 DEF CommitInv
    <3>1. CommitOK(v)
      BY DEF IInv, CommitInv
    <3>2. \A i \in Item : leases[i].beat + TTL < clock => leases[i].beat + TTL < clock'
      BY <2>1, EntryType DEF IInv
    <3>. QED  BY <2>2, <3>1, <3>2 DEF CommitOK, QuietStep, Retired
  <2>. QED  BY <1>0, <2>3, <2>4, <2>5 DEF IInv
<1>2. ASSUME NEW w \in Worker, Step(w)  PROVE IInv'
  <2>1. ASSUME NEW c, c.now = clock, Call(w, c)  PROVE IInv'
    <3>1. LockInv' /\ HeldInv' /\ OneHolderPerToken'
      BY <2>1, QuietInv DEF Call, QuietStep, IInv, LockInv, TypeOK
    <3>2. TimeInv'
      BY <2>1 DEF Call, IInv, TimeInv, CallTimes, Aged, TypeOK
    <3>3. CommitInv'
      BY <2>1 DEF Call, IInv, TypeOK, CommitInv, CommitOK, Retired
    <3>. QED  BY <1>0, <3>1, <3>2, <3>3 DEF IInv
  <2>2. CASE \E i \in Item, s \in Slot : CallAcquire(w, i, s)
    BY <2>1, <2>2 DEF CallAcquire, IInv, TypeOK
  <2>3. CASE CallReclaim(w)
    BY <2>1, <2>3 DEF CallReclaim, IInv, TypeOK
  <2>4. CASE \E i \in Item, op \in {"heartbeat", "release"} : CallHeld(w, op, i)
    BY <2>1, <2>4 DEF CallHeld, IInv, TypeOK
  <2>5. CASE Lock(w)
    <3>1. LockInv' /\ HeldInv' /\ OneHolderPerToken' /\ TimeInv'
      BY <2>5, QuietInv DEF Lock, QuietStep, IInv, LockInv, TimeInv, CallTimes, Aged, TypeOK
    <3>2. CommitInv'
      BY <2>5 DEF Lock, IInv, TypeOK, CommitInv, CommitOK, Retired
    <3>. QED  BY <1>0, <3>1, <3>2 DEF IInv
  <2>6. CASE AcquireRetire(w)
    BY <2>6, RetireActions, RetireInv DEF AcquireRetire, At
  <2>7. CASE ReclaimRetire(w)
    BY <2>7, RetireActions, RetireInv DEF At
  <2>8. CASE ReleaseRetire(w)
    BY <2>8, RetireActions, RetireInv DEF ReleaseRetire, At
  <2>9. CASE AcquireRefused(w)
    <3>1. lock = w
      BY <2>9 DEF AcquireRefused, At, IInv, LockInv
    <3>2. LockInv' /\ CommitInv' /\ CallTimes'
      BY <2>9, <3>1, ReturnInv DEF AcquireRefused
    <3>3. TimeInv' /\ OneHolderPerToken'
      BY <2>9, <3>2 DEF AcquireRefused, IInv, TimeInv, Aged, OneHolderPerToken
    <3>4. HeldInv'
      BY <2>9, RecordKeepsTokens DEF AcquireRefused
    <3>. QED  BY <1>0, <3>2, <3>3, <3>4 DEF IInv
  <2>10. CASE AcquireCommit(w)
    BY <1>0, <2>10, AcquireCommitInv
  <2>11. CASE Heartbeat(w)
    <3>. DEFINE i == call[w].item
    <3>1. lock = w /\ i \in Item
      BY <2>11 DEF Heartbeat, At, IInv, LockInv, TypeOK
    <3>2. LockInv' /\ CommitInv' /\ CallTimes'
      BY <2>11, <3>1, ReturnInv DEF Heartbeat
    <3>3. \A j \in Item : leases'[j].token = leases[j].token
      BY <2>11, <3>1 DEF Heartbeat, IInv, TypeOK, Lease
    <3>4. HeldInv' /\ OneHolderPerToken'
      BY <2>11, <3>3 DEF Heartbeat, IInv, HeldInv, OneHolderPerToken, Top
    <3>5. renewed'[i].at < leases'[i].beat + Second + Aged(renewed'[i])
      <4>1. leases'[i].beat = NowIso(clock) /\ renewed'[i].at = clock /\ clock \in Nat
        BY <2>11, <3>1 DEF Heartbeat, IInv, TypeOK, Lease
      <4>2. Aged(renewed'[i]) = 0
        BY <2>11, <3>1 DEF Heartbeat, IInv, TypeOK, Aged
      <4>3. NowIso(clock) \in Nat /\ clock < NowIso(clock) + Second
        BY <4>1, NowIsoBounds
      <4>. QED  BY <4>1, <4>2, <4>3
    <3>6. TimeInv'
      <4>1. ASSUME NEW j \in Item, j # i
            PROVE  leases'[j] = leases[j] /\ renewed'[j] = renewed[j] /\ Aged(renewed'[j]) = Aged(renewed[j])
        BY <2>11, <3>1, <4>1 DEF Heartbeat, IInv, TypeOK, Aged
      <4>. QED  BY <3>2, <3>5, <4>1 DEF IInv, TimeInv
    <3>. QED  BY <1>0, <3>2, <3>4, <3>6 DEF IInv
  <2>12. CASE FencingError(w)
    <3>1. lock = w
      BY <2>12 DEF FencingError, At, IInv, LockInv
    <3>2. LockInv' /\ CommitInv' /\ CallTimes'
      BY <2>12, <3>1, ReturnInv DEF FencingError
    <3>3. TimeInv' /\ HeldInv' /\ OneHolderPerToken'
      BY <2>12, <3>2, QuietInv DEF FencingError, QuietStep, IInv, TimeInv, Aged
    <3>. QED  BY <1>0, <3>2, <3>3 DEF IInv
  <2>13. CASE ReclaimCommit(w)
    <3>1. pc[w] = "commit" /\ leases' = data[w] /\ Return(w)
          /\ UNCHANGED <<watermark, clock, held, renewed>>
      BY <2>13 DEF ReclaimCommit, At
    <3>2. HeldInv' /\ OneHolderPerToken'
      BY <3>1, DropKeepsTop DEF IInv, HeldInv, OneHolderPerToken
    <3>. QED  BY <1>0, <3>1, <3>2, DropInv
  <2>14. CASE ReleaseCommit(w)
    <3>1. /\ pc[w] = "commit" /\ leases' = data[w] /\ Return(w)
          /\ UNCHANGED <<watermark, clock, renewed>>
          /\ held' = [held EXCEPT ![w][call[w].item] = 0]
          /\ call[w].item \in Item
      BY <2>14 DEF ReleaseCommit, At, IInv, TypeOK
    <3>2. \A v \in Worker, i \in Item : held'[v][i] \in {0, held[v][i]} /\ held[v][i] \in Nat
      BY <3>1 DEF IInv, TypeOK
    <3>3. HeldInv'
      <4>. SUFFICES ASSUME NEW v \in Worker, NEW i \in Item  PROVE held'[v][i] <= Top(i)'
        BY DEF HeldInv
      <4>1. Top(i)' = Top(i) /\ held[v][i] <= Top(i)
        BY <3>1, DropKeepsTop DEF IInv, HeldInv
      <4>2. Top(i) \in Nat
        BY EntryType DEF Top, Max2, IInv
      <4>3. CASE held'[v][i] = 0
        BY <4>1, <4>2, <4>3
      <4>4. CASE held'[v][i] = held[v][i]
        BY <4>1, <4>4
      <4>. QED  BY <3>2, <4>3, <4>4
    <3>4. OneHolderPerToken'
      BY <3>1, <3>2 DEF IInv, OneHolderPerToken
    <3>. QED  BY <1>0, <3>1, <3>3, <3>4, DropInv
  <2>15. CASE Crash(w)
    <3>1. /\ UNCHANGED <<leases, watermark, clock, renewed>>
          /\ \A v \in Worker \ {w} : pc'[v] = pc[v] /\ call'[v] = call[v]
                                     /\ data'[v] = data[v] /\ held'[v] = held[v]
          /\ pc'[w] = "idle" /\ call'[w].now = 0
          /\ \A i \in Item : held'[w][i] = 0
      BY <2>15 DEF Crash, IInv, TypeOK, NoCall
    <3>2. LockInv'
      BY <2>15, <3>1 DEF Crash, IInv, LockInv, TypeOK
    <3>3. TimeInv'
      BY <3>1 DEF IInv, TimeInv, CallTimes, Aged, TypeOK
    <3>4. CommitInv'
      <4>. SUFFICES ASSUME NEW v \in Worker, pc'[v] = "commit"  PROVE CommitOK(v)'
        BY DEF CommitInv
      <4>1. v # w /\ pc[v] = "commit" /\ CommitOK(v)
        BY <3>1 DEF IInv, CommitInv
      <4>. QED  BY <3>1, <4>1 DEF CommitOK, Retired
    <3>5. HeldInv'
      <4>. SUFFICES ASSUME NEW v \in Worker, NEW i \in Item  PROVE held'[v][i] <= Top(i)'
        BY DEF HeldInv
      <4>1. Top(i)' = Top(i) /\ Top(i) \in Nat /\ held[v][i] <= Top(i)
        BY <3>1, EntryType DEF Top, Max2, IInv, HeldInv
      <4>. QED  BY <3>1, <4>1
    <3>6. OneHolderPerToken'
      <4>. SUFFICES ASSUME NEW i \in Item, NEW u \in Worker, NEW v \in Worker, u # v,
                           held'[u][i] = held'[v][i]
                    PROVE  held'[u][i] = 0
        BY DEF OneHolderPerToken
      <4>1. CASE u = w \/ v = w
        BY <3>1, <4>1
      <4>2. CASE u # w /\ v # w
        BY <3>1, <4>2 DEF IInv, OneHolderPerToken
      <4>. QED  BY <4>1, <4>2
    <3>. QED  BY <1>0, <3>2, <3>3, <3>4, <3>5, <3>6 DEF IInv
  <2>16. CASE TimedOut(w)
    <3>1. LockInv' /\ HeldInv' /\ OneHolderPerToken' /\ TimeInv'
      BY <2>16, QuietInv DEF TimedOut, QuietStep, NoCall, IInv, LockInv, TimeInv, CallTimes,
         Aged, TypeOK
    <3>2. CommitInv'
      BY <2>16 DEF TimedOut, IInv, TypeOK, CommitInv, CommitOK, Retired
    <3>. QED  BY <1>0, <3>1, <3>2 DEF IInv
  <2>. QED  BY <1>2, <2>2, <2>3, <2>4, <2>5, <2>6, <2>7, <2>8, <2>9, <2>10, <2>11,
               <2>12, <2>13, <2>14, <2>15, <2>16 DEF Step
<1>3. CASE UNCHANGED vars
  <2>1. QuietStep /\ UNCHANGED <<lock, clock, pc, call, data>>
    BY <1>3 DEF vars, QuietStep
  <2>2. LockInv' /\ TimeInv' /\ HeldInv' /\ OneHolderPerToken'
    BY <2>1, QuietInv DEF IInv, LockInv, TimeInv, CallTimes, Aged, QuietStep
  <2>3. CommitInv'
    BY <2>1 DEF IInv, CommitInv, CommitOK, Retired, QuietStep
  <2>. QED  BY <1>0, <2>2, <2>3 DEF IInv
<1>. QED  BY <1>1, <1>2, <1>3 DEF Next

\* The strengthening holds throughout.
LEMMA IInvAlways == Spec => []IInv
BY IInvInit, IInvStep, PTL DEF Spec

\* No two workers ever carry the same token for an item, however many workers
\* and items there are and whatever crashes in between.
THEOREM OneHolder == Spec => []OneHolderPerToken
<1>1. IInv => OneHolderPerToken
  BY DEF IInv
<1>. QED  BY <1>1, IInvAlways, PTL

-----------------------------------------------------------------------------
(* What a step does to the tokens. *)

\* Retiring without committing changes no token that the files can tell.
LEMMA RecordKeepsTop ==
  ASSUME IInv, NEW S, watermark' = RecordWatermarks(S), leases' = leases, NEW i \in Item
  PROVE  Top(i)' = Top(i)
<1>1. /\ watermark'[i] \in Nat /\ watermark'[i] >= watermark[i]
      /\ watermark'[i] = watermark[i] \/ watermark'[i] = leases[i].token
  BY RecordWatermarksType DEF IInv, TypeOK
<1>. QED  BY <1>1, EntryType DEF Top, Max2, IInv

\* The entry of i is untouched or emptied, and its highest token is remembered.
Kept(i) == leases'[i].token \in {leases[i].token, 0} /\ Top(i)' = Top(i)

\* Item i gets the next token, the other items keep theirs.
Granted(i) ==
  /\ leases'[i].token = Top(i) + 1
  /\ Top(i)' = Top(i) + 1
  /\ \A j \in Item \ {i} : Kept(j)

\* Steps that write no file keep every token.
LEMMA IdleKeeps ==
  ASSUME UNCHANGED <<leases, watermark>>, NEW i \in Item
  PROVE  Kept(i)
BY DEF Kept, Top

\* Retiring entries loses no item's highest token.
LEMMA RetireKeeps ==
  ASSUME IInv, NEW S, watermark' = RecordWatermarks(S), leases' = leases, NEW i \in Item
  PROVE  Kept(i)
BY RecordKeepsTop DEF Kept

\* Nor does the write that drops them.
LEMMA DropKeeps ==
  ASSUME IInv, NEW w \in Worker, pc[w] = "commit", leases' = data[w],
         watermark' = watermark, NEW i \in Item
  PROVE  Kept(i)
<1>1. data[w][i].token \in {leases[i].token, 0}
  BY DEF IInv, CommitInv, CommitOK, Absent
<1>. QED  BY <1>1, DropKeepsTop DEF Kept

\* Nor does a heartbeat.
LEMMA HeartbeatKeeps ==
  ASSUME IInv, NEW w \in Worker, Heartbeat(w), NEW i \in Item
  PROVE  Kept(i)
<1>1. leases'[i].token = leases[i].token /\ watermark' = watermark
  <2>1. leases[call[w].item] \in Lease /\ leases \in [Item -> Lease]
    BY EntryType DEF Heartbeat, At, IInv, TypeOK
  <2>. QED  BY <2>1 DEF Heartbeat, Lease
<1>. QED  BY <1>1 DEF Kept, Top

\* The write of an acquire grants a token above all before it.
LEMMA CommitGrants ==
  ASSUME IInv, NEW w \in Worker, AcquireCommit(w), NEW i \in Item, i = call[w].item
  PROVE  Granted(i)
<1>1. NextToken(w, i) = Top(i) + 1 /\ Top(i) \in Nat /\ CommitOK(w)
  BY MintedIsNext DEF AcquireCommit, At, IInv, CommitInv
<1>2. /\ leases'[i].token = Top(i) + 1 /\ watermark' = watermark
      /\ \A j \in Item \ {i} : leases'[j] = data[w][j]
  BY <1>1 DEF AcquireCommit, IInv, TypeOK
<1>3. Top(i)' = Top(i) + 1
  <2>1. watermark[i] \in Nat /\ watermark[i] <= Top(i)
    BY <1>1, EntryType DEF Top, Max2, IInv
  <2>2. Top(i)' = Max2(Top(i) + 1, watermark[i])
    BY <1>2 DEF Top
  <2>. QED  BY <1>1, <2>1, <2>2 DEF Max2
<1>4. ASSUME NEW j \in Item \ {i}  PROVE Kept(j)
  <2>1. data[w][j] = leases[j] \/ (data[w][j].token = 0 /\ Retired(j))
    BY <1>1 DEF CommitOK, Absent
  <2>. QED  BY <1>2, <2>1, EntryType DEF Kept, Top, Max2, Retired, IInv
<1>. QED  BY <1>1, <1>2, <1>3, <1>4 DEF Granted

\* A step of the lease layer grants one item its next token or grants nothing.
LEMMA StepEffect ==
  ASSUME IInv, [Next]_vars
  PROVE  (\A i \in Item : Kept(i)) \/ (\E i \in Item : Granted(i))
<1>1. CASE Tick \/ UNCHANGED vars
  BY <1>1, IdleKeeps DEF Tick, vars
<1>2. ASSUME NEW w \in Worker, Step(w)
      PROVE  (\A i \in Item : Kept(i)) \/ (\E i \in Item : Granted(i))
  <2>1. CASE \/ \E i \in Item, s \in Slot : CallAcquire(w, i, s)
             \/ CallReclaim(w)
             \/ \E i \in Item, op \in {"heartbeat", "release"} : CallHeld(w, op, i)
             \/ Lock(w) \/ TimedOut(w) \/ FencingError(w) \/ Crash(w)
    BY <2>1, IdleKeeps
       DEF CallAcquire, CallReclaim, CallHeld, Call, Lock, TimedOut, FencingError, Crash
  <2>2. CASE AcquireRetire(w) \/ AcquireRefused(w) \/ ReclaimRetire(w) \/ ReleaseRetire(w)
    BY <2>2, RetireKeeps DEF AcquireRetire, AcquireRefused, ReclaimRetire, ReleaseRetire
  <2>3. CASE ReclaimCommit(w) \/ ReleaseCommit(w)
    BY <2>3, DropKeeps DEF ReclaimCommit, ReleaseCommit, At
  <2>4. CASE Heartbeat(w)
    BY <2>4, HeartbeatKeeps
  <2>5. CASE AcquireCommit(w)
    <3>. PICK i \in Item : i = call[w].item
      BY <1>2, <2>5, MintedIsNext DEF AcquireCommit
    <3>. QED  BY <2>5, CommitGrants
  <2>. QED  BY <1>2, <2>1, <2>2, <2>3, <2>4, <2>5 DEF Step
<1>. QED  BY <1>1, <1>2 DEF Next

-----------------------------------------------------------------------------
(* Fencing, refinement and the lease's term. *)

\* A token that has failed verify_fencing fails it for ever.
THEOREM ZombiesStayFenced == Spec => FencedForEver
<1>1. ASSUME IInv, [Next]_vars, NEW w \in Worker, NEW i \in Item,
             held[w][i] # 0, ~Passes(w, i), held'[w][i] = held[w][i]
      PROVE  ~Passes(w, i)'
  <2>1. held[w][i] \in Nat /\ held[w][i] <= Top(i) /\ Top(i) \in Nat
    BY <1>1, EntryType DEF IInv, HeldInv, TypeOK, Top, Max2
  <2>2. leases'[i].token \in {leases[i].token, 0} \/ leases'[i].token = Top(i) + 1
    BY <1>1, StepEffect DEF Kept, Granted
  <2>. QED  BY <1>1, <2>1, <2>2 DEF Passes
<1>2. IInv /\ [Next]_vars =>
        [\A w \in Worker, i \in Item :
           held[w][i] # 0 /\ ~Passes(w, i) /\ held'[w][i] = held[w][i]
             => ~Passes(w, i)']_vars
  BY <1>1
<1>. QED  BY <1>2, IInvAlways, PTL DEF Spec, FencedForEver

\* The two files implement the abstract fenced lease: each step, with its one
\* file write, is one grant, one revocation or nothing.
THEOREM Refinement == Spec => ImplementsFencedLease
<1>. DEFINE top == [i \in Item |-> Top(i)]
            valid == [i \in Item |-> leases[i].token]
<1>1. Init => Fenced!Init
  BY DEF Init, Fenced!Init, Top, Max2, Absent
<1>2. ASSUME IInv, [Next]_vars  PROVE [Fenced!Next]_(Fenced!vars)
  <2>1. CASE \A i \in Item : Kept(i)
    <3>. DEFINE S == {i \in Item : leases'[i].token = 0}
    <3>1. top' = top /\ valid' = Fenced!Without(S)
      BY <2>1 DEF Kept, Fenced!Without
    <3>. QED  BY <3>1 DEF Fenced!Revoke, Fenced!Next
  <2>2. ASSUME NEW i \in Item, Granted(i)  PROVE Fenced!Next
    <3>. DEFINE S == {j \in Item : leases'[j].token = 0}
    <3>1. top' = [top EXCEPT ![i] = @ + 1]
      BY <2>2 DEF Granted, Kept
    <3>2. valid' = [Fenced!Without(S) EXCEPT ![i] = top[i] + 1]
      BY <2>2 DEF Granted, Kept, Fenced!Without
    <3>. QED  BY <3>1, <3>2 DEF Fenced!Grant, Fenced!Next
  <2>. QED  BY <1>2, <2>1, <2>2, StepEffect
<1>. QED  BY <1>1, <1>2, IInvAlways, PTL DEF Spec, ImplementsFencedLease, Fenced!Spec

\* An entry dropped without its holder's release had expired.
LEMMA DroppedIsExpired ==
  ASSUME IInv, NEW w \in Worker, pc[w] = "commit", NEW i \in Item,
         leases[i].token # 0, data[w][i].token # leases[i].token,
         ~(call[w].op = "release" /\ call[w].item = i)
  PROVE  clock + Second + Aged(renewed[i]) > renewed[i].at + TTL + 1
<1>1. leases[i].beat + TTL < clock
  BY DEF IInv, CommitInv, CommitOK
<1>2. renewed[i].at < leases[i].beat + Second + Aged(renewed[i])
  BY DEF IInv, TimeInv
<1>3. clock \in Nat
  BY DEF IInv, TypeOK
<1>. QED  BY <1>1, <1>2, <1>3, EntryType DEF IInv

\* A lease that its holder keeps renewing within its TTL is not taken away.
THEOREM LeasesAreHonoured == Spec => LeaseHonoured
<1>1. ASSUME IInv, [Next]_vars, NEW i \in Item, leases[i].token # 0,
             leases'[i].token # leases[i].token,
             ~\E w \in Worker : ReleaseCommit(w) /\ call[w].item = i /\ Passes(w, i)
      PROVE  clock + Second + Aged(renewed[i]) > renewed[i].at + TTL + 1
  <2>1. CASE Tick \/ UNCHANGED vars
    BY <1>1, <2>1 DEF Tick, vars
  <2>2. ASSUME NEW w \in Worker, Step(w)
        PROVE  clock + Second + Aged(renewed[i]) > renewed[i].at + TTL + 1
    <3>1. CASE leases' = leases
      BY <1>1, <3>1
    <3>2. CASE Heartbeat(w)
      <4>1. leases[call[w].item] \in Lease /\ leases \in [Item -> Lease]
        BY <1>1, <3>2, EntryType DEF Heartbeat, At, IInv, TypeOK
      <4>. QED  BY <1>1, <3>2, <4>1 DEF Heartbeat, Lease
    <3>3. CASE ReclaimCommit(w)
      BY <1>1, <3>3, DroppedIsExpired DEF ReclaimCommit, At
    <3>4. CASE ReleaseCommit(w)
      <4>1. pc[w] = "commit" /\ call[w].op = "release" /\ leases' = data[w]
        BY <3>4 DEF ReleaseCommit, At
      <4>2. CASE call[w].item = i
        BY <1>1, <3>4, <4>1, <4>2 DEF IInv, CommitInv, CommitOK, Passes
      <4>3. CASE call[w].item # i
        BY <1>1, <4>1, <4>3, DroppedIsExpired
      <4>. QED  BY <4>2, <4>3
    <3>5. CASE AcquireCommit(w)
      <4>1. /\ pc[w] = "commit" /\ call[w].op = "acquire" /\ CommitOK(w)
            /\ call[w].item \in Item
        BY <1>1, <3>5 DEF AcquireCommit, At, IInv, CommitInv, TypeOK
      <4>2. CASE call[w].item = i
        BY <1>1, <4>1, <4>2, DroppedIsExpired DEF CommitOK
      <4>3. CASE call[w].item # i
        <5>1. leases'[i] = data[w][i]
          BY <1>1, <3>5, <4>1, <4>3 DEF AcquireCommit, IInv, TypeOK
        <5>. QED  BY <1>1, <4>1, <5>1, DroppedIsExpired
      <4>. QED  BY <4>2, <4>3
    <3>. QED
      BY <2>2, <3>1, <3>2, <3>3, <3>4, <3>5
         DEF Step, CallAcquire, CallReclaim, CallHeld, Call, Lock, TimedOut, FencingError, Crash,
             AcquireRetire, AcquireRefused, ReclaimRetire, ReleaseRetire
  <2>. QED  BY <1>1, <2>1, <2>2 DEF Next
<1>2. IInv /\ [Next]_vars =>
        [\A i \in Item :
           /\ leases[i].token # 0
           /\ leases'[i].token # leases[i].token
           /\ ~\E w \in Worker : ReleaseCommit(w) /\ call[w].item = i /\ Passes(w, i)
           => clock + Second + Aged(renewed[i]) > renewed[i].at + TTL + 1]_vars
  BY <1>1
<1>. QED  BY <1>2, IInvAlways, PTL DEF Spec, LeaseHonoured
=============================================================================
