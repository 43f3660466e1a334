------------------------------ MODULE Leases -------------------------------
(***************************************************************************)
(* The fencing leases of user/scripts/lazy_coord.py: leases.json, the      *)
(* watermark file beside it, and the operations acquire_lease, heartbeat,  *)
(* verify_fencing, reclaim_expired and release_lease.                      *)
(*                                                                         *)
(* An operation is a call made by a worker: it fixes its notion of "now",  *)
(* waits for the global lock, reads leases.json, and writes.  Operations   *)
(* that retire an entry write twice: the watermark file first ("retire"),  *)
(* then leases.json ("commit"); a worker can crash between the two.  Here  *)
(* the global lock is what acquire_lock promises, a mutex that a dead      *)
(* holder loses; module CoordLock models how it is built.                  *)
(*                                                                         *)
(* Time is a clock of ticks, Second ticks to the second.  Timestamps are   *)
(* written with whole seconds and read back as such (_now_iso).            *)
(***************************************************************************)
EXTENDS Naturals

CONSTANTS
  Worker,      \* processes that call the lease operations
  NoWorker,
  Item,        \* work items, the keys of leases.json
  Slot,        \* names of worktree slots ("wt-00", ...)
  NoSlot,
  TTL,         \* ttl_seconds of every lease, in ticks
  Second,      \* ticks per second
  LockTimeout, \* acquire_lock gives up after this many ticks of waiting
  Pause,       \* assumed: what a call may take beyond that, to its write
  MaxClock,    \* bound: the last tick
  MaxToken     \* bound: the highest term_token minted for an item

ASSUME LeasesAssumption ==
  /\ NoWorker \notin Worker
  /\ NoSlot \notin Slot
  /\ TTL \in Nat
  /\ Second \in Nat \ {0}
  /\ LockTimeout \in Nat
  /\ Pause \in Nat
  /\ MaxClock \in Nat
  /\ MaxToken \in Nat

VARIABLES
  leases,      \* leases.json: the entry of each item
  watermark,   \* lease-token-watermarks.json: highest retired token per item
  lock,        \* holder of global.lock.d
  clock,
  pc,          \* where each worker is in its current call
  call,        \* the current call: operation, item, slot, and when it began
  data,        \* the worker's copy of leases.json, expired entries popped
  held,        \* held[w][i]: the term_token w carries for i, 0 for none
  renewed      \* ghost: when i's lease was last written, and by which operation

vars == <<leases, watermark, lock, clock, pc, call, data, held, renewed>>

-----------------------------------------------------------------------------
(* Data. *)

Max2(a, b) == IF a >= b THEN a ELSE b

\* A key missing from leases.json; no real entry has token 0.
Absent == [owner |-> NoWorker, slot |-> NoSlot, token |-> 0, beat |-> 0]

Lease == [owner : Worker \cup {NoWorker}, slot : Slot \cup {NoSlot},
          token : Nat, beat : Nat]

Ops == {"acquire", "heartbeat", "reclaim", "release"}

NoCall == [op |-> "none", item |-> "none", slot |-> NoSlot, now |-> 0]

\* _now_iso then _parse_iso: the fraction of a second is lost.
NowIso(t) == t - (t % Second)

Expired(e, now) == e.token # 0 /\ e.beat + TTL < now

\* The entry acquire_lease refuses to claim over.
Live(e, now) == e.token # 0 /\ e.beat + TTL >= now

\* The items whose entries a reclaim at time "now" pops.
ExpiredItems(now) == {i \in Item : Expired(leases[i], now)}

\* leases.json without the entries of the items in S.
Popped(S) == [i \in Item |-> IF i \in S THEN Absent ELSE leases[i]]

\* The watermark file after the entries of the items in S are retired.
RecordWatermarks(S) ==
  [i \in Item |-> IF i \in S THEN Max2(watermark[i], leases[i].token)
                  ELSE watermark[i]]

\* Mutant: the token counts on from the entry in leases.json alone.
NextTokenOfEntry(w, i) == data[w][i].token + 1

\* The token acquire_lease mints: above the entry it read and the watermark.
NextToken(w, i) == Max2(data[w][i].token, watermark[i]) + 1

-----------------------------------------------------------------------------
Init ==
  /\ leases    = [i \in Item |-> Absent]
  /\ watermark = [i \in Item |-> 0]
  /\ lock      = NoWorker
  /\ clock     = 0
  /\ pc        = [w \in Worker |-> "idle"]
  /\ call      = [w \in Worker |-> NoCall]
  /\ data      = [w \in Worker |-> [i \in Item |-> Absent]]
  /\ held      = [w \in Worker |-> [i \in Item |-> 0]]
  /\ renewed   = [i \in Item |-> [at |-> 0, by |-> "acquire"]]

\* Time may pass anywhere in a call, while none lasts longer than it may.
Tick ==
  /\ clock < MaxClock
  /\ \A w \in Worker : pc[w] # "idle" => clock < call[w].now + LockTimeout + Pause
  /\ clock' = clock + 1
  /\ UNCHANGED <<leases, watermark, lock, pc, call, data, held, renewed>>

(***************************************************************************)
(* Calls.  acquire_lease and reclaim_expired take time.time() before they  *)
(* wait for the lock, and use it as "now" when they have it; heartbeat     *)
(* takes the time when it writes.                                          *)
(***************************************************************************)
Call(w, c) ==
  /\ pc[w] = "idle"
  /\ pc'   = [pc EXCEPT ![w] = "wait"]
  /\ call' = [call EXCEPT ![w] = c]
  /\ UNCHANGED <<leases, watermark, lock, clock, data, held, renewed>>

\* The caller names the slot, whichever it is.
CallAcquire(w, i, s) ==
  Call(w, [op |-> "acquire", item |-> i, slot |-> s, now |-> clock])

CallReclaim(w) ==
  Call(w, [op |-> "reclaim", item |-> "none", slot |-> NoSlot, now |-> clock])

\* A worker that carries a token for i renews or gives up its lease.
CallHeld(w, op, i) ==
  /\ held[w][i] # 0
  /\ Call(w, [op |-> op, item |-> i, slot |-> NoSlot, now |-> clock])

\* acquire_lock returns.  The token bound keeps the instance finite.
Lock(w) ==
  /\ pc[w] = "wait"
  /\ lock = NoWorker
  /\ call[w].op = "acquire" =>
       Max2(leases[call[w].item].token, watermark[call[w].item]) < MaxToken
  /\ lock' = w
  /\ pc'   = [pc EXCEPT ![w] = "locked"]
  /\ UNCHANGED <<leases, watermark, clock, call, data, held, renewed>>

\* TimeoutError from acquire_lock.
TimedOut(w) ==
  /\ pc[w] = "wait" /\ lock # NoWorker /\ clock >= call[w].now + LockTimeout
  /\ pc'   = [pc EXCEPT ![w] = "idle"]
  /\ call' = [call EXCEPT ![w] = NoCall]
  /\ UNCHANGED <<leases, watermark, lock, clock, data, held, renewed>>

\* release_lock and return.
Return(w) ==
  /\ lock' = NoWorker
  /\ pc'   = [pc EXCEPT ![w] = "idle"]
  /\ call' = [call EXCEPT ![w] = NoCall]
  /\ data' = [data EXCEPT ![w] = [i \in Item |-> Absent]]

At(w, label, op) == pc[w] = label /\ call[w].op = op

-----------------------------------------------------------------------------
(* acquire_lease *)

\* Pop the expired entries of the copy and record their tokens on disk.
AcquireRetire(w) ==
  /\ At(w, "locked", "acquire")
  /\ ~Live(leases[call[w].item], call[w].now)
  /\ LET gone == ExpiredItems(call[w].now) IN
       /\ data'      = [data EXCEPT ![w] = Popped(gone)]
       /\ watermark' = RecordWatermarks(gone)
  /\ pc' = [pc EXCEPT ![w] = "commit"]
  /\ UNCHANGED <<leases, lock, clock, call, held, renewed>>

\* The item has a live lease: return None.  The expired entries of other items
\* have their watermarks recorded but stay in leases.json.
AcquireRefused(w) ==
  /\ At(w, "locked", "acquire")
  /\ Live(leases[call[w].item], call[w].now)
  /\ watermark' = RecordWatermarks(ExpiredItems(call[w].now))
  /\ Return(w)
  /\ UNCHANGED <<leases, clock, held, renewed>>

\* Mint the token, write leases.json, return the entry to the caller.
AcquireCommit(w) ==
  LET i == call[w].item
      t == NextToken(w, i)
  IN
  /\ At(w, "commit", "acquire")
  /\ leases' = [data[w] EXCEPT ![i] =
                  [owner |-> w, slot |-> call[w].slot, token |-> t,
                   beat |-> NowIso(call[w].now)]]
  /\ held'    = [held EXCEPT ![w][i] = t]
  /\ renewed' = [renewed EXCEPT ![i] = [at |-> clock, by |-> "acquire"]]
  /\ Return(w)
  /\ UNCHANGED <<watermark, clock>>

-----------------------------------------------------------------------------
(* heartbeat *)

\* Mutant: heartbeat takes the time before it waits, as acquire_lease does.
HeartbeatOfCall(w) ==
  LET i == call[w].item IN
  /\ At(w, "locked", "heartbeat")
  /\ leases[i].token = held[w][i]
  /\ leases'  = [leases EXCEPT ![i].beat = NowIso(call[w].now)]
  /\ renewed' = [renewed EXCEPT ![i] = [at |-> clock, by |-> "heartbeat"]]
  /\ Return(w)
  /\ UNCHANGED <<watermark, clock, held>>

\* Only the token is compared: an expired entry nobody reclaimed is renewed.
Heartbeat(w) ==
  LET i == call[w].item IN
  /\ At(w, "locked", "heartbeat")
  /\ leases[i].token = held[w][i]
  /\ leases'  = [leases EXCEPT ![i].beat = NowIso(clock)]
  /\ renewed' = [renewed EXCEPT ![i] = [at |-> clock, by |-> "heartbeat"]]
  /\ Return(w)
  /\ UNCHANGED <<watermark, clock, held>>

\* FencingError, from heartbeat or release_lease.  The worker may not notice
\* and keep its stale token: a zombie.
FencingError(w) ==
  /\ At(w, "locked", "heartbeat") \/ At(w, "locked", "release")
  /\ leases[call[w].item].token # held[w][call[w].item]
  /\ Return(w)
  /\ UNCHANGED <<leases, watermark, clock, held, renewed>>

-----------------------------------------------------------------------------
(* reclaim_expired and release_lease *)

\* Mutant: the watermarks are recorded for nobody.
ReclaimRetireUnrecorded(w) ==
  /\ At(w, "locked", "reclaim")
  /\ data' = [data EXCEPT ![w] = Popped(ExpiredItems(call[w].now))]
  /\ pc'   = [pc EXCEPT ![w] = "commit"]
  /\ UNCHANGED <<leases, watermark, lock, clock, call, held, renewed>>

ReclaimRetire(w) ==
  /\ At(w, "locked", "reclaim")
  /\ LET gone == ExpiredItems(call[w].now) IN
       /\ data'      = [data EXCEPT ![w] = Popped(gone)]
       /\ watermark' = RecordWatermarks(gone)
  /\ pc' = [pc EXCEPT ![w] = "commit"]
  /\ UNCHANGED <<leases, lock, clock, call, held, renewed>>

ReclaimCommit(w) ==
  /\ At(w, "commit", "reclaim")
  /\ leases' = data[w]
  /\ Return(w)
  /\ UNCHANGED <<watermark, clock, held, renewed>>

\* Mutant: release_lease pops the entry without recording its watermark.
ReleaseRetireUnrecorded(w) ==
  LET i == call[w].item IN
  /\ At(w, "locked", "release")
  /\ leases[i].token = held[w][i]
  /\ data' = [data EXCEPT ![w] = Popped({i})]
  /\ pc'   = [pc EXCEPT ![w] = "commit"]
  /\ UNCHANGED <<leases, watermark, lock, clock, call, held, renewed>>

ReleaseRetire(w) ==
  LET i == call[w].item IN
  /\ At(w, "locked", "release")
  /\ leases[i].token = held[w][i]
  /\ data'      = [data EXCEPT ![w] = Popped({i})]
  /\ watermark' = RecordWatermarks({i})
  /\ pc'        = [pc EXCEPT ![w] = "commit"]
  /\ UNCHANGED <<leases, lock, clock, call, held, renewed>>

ReleaseCommit(w) ==
  /\ At(w, "commit", "release")
  /\ leases' = data[w]
  /\ held'   = [held EXCEPT ![w][call[w].item] = 0]
  /\ Return(w)
  /\ UNCHANGED <<watermark, clock, renewed>>

-----------------------------------------------------------------------------
\* The process dies, wherever it is: its memory is gone, its files stay, and
\* the lock it held goes to the next waiter.  A worker that starts anew under
\* the same name carries no token.
Crash(w) ==
  /\ pc[w] # "idle" \/ \E i \in Item : held[w][i] # 0
  /\ lock' = IF lock = w THEN NoWorker ELSE lock
  /\ pc'   = [pc EXCEPT ![w] = "idle"]
  /\ call' = [call EXCEPT ![w] = NoCall]
  /\ data' = [data EXCEPT ![w] = [i \in Item |-> Absent]]
  /\ held' = [held EXCEPT ![w] = [i \in Item |-> 0]]
  /\ UNCHANGED <<leases, watermark, clock, renewed>>

Step(w) ==
  \/ \E i \in Item, s \in Slot : CallAcquire(w, i, s)
  \/ CallReclaim(w)
  \/ \E i \in Item, op \in {"heartbeat", "release"} : CallHeld(w, op, i)
  \/ Lock(w)
  \/ TimedOut(w)
  \/ AcquireRetire(w)
  \/ AcquireRefused(w)
  \/ AcquireCommit(w)
  \/ Heartbeat(w)
  \/ FencingError(w)
  \/ ReclaimRetire(w)
  \/ ReclaimCommit(w)
  \/ ReleaseRetire(w)
  \/ ReleaseCommit(w)
  \/ Crash(w)

Next == Tick \/ \E w \in Worker : Step(w)

Spec == Init /\ [][Next]_vars

-----------------------------------------------------------------------------
(* Properties. *)

\* Highest token minted for i that the two files can still tell.
Top(i) == Max2(leases[i].token, watermark[i])

\* verify_fencing(leases, i, held[w][i]) returns instead of raising.
Passes(w, i) == held[w][i] # 0 /\ leases[i].token = held[w][i]

\* Types of the variables.
TypeOK ==
  /\ leases \in [Item -> Lease]
  /\ watermark \in [Item -> Nat]
  /\ lock \in Worker \cup {NoWorker}
  /\ clock \in Nat
  /\ pc \in [Worker -> {"idle", "wait", "locked", "commit"}]
  /\ call \in [Worker -> [op : Ops \cup {"none"}, item : Item \cup {"none"},
                         slot : Slot \cup {NoSlot}, now : Nat]]
  /\ \A w \in Worker : pc[w] # "idle" /\ call[w].op # "reclaim" => call[w].item \in Item
  /\ data \in [Worker -> [Item -> Lease]]
  /\ held \in [Worker -> [Item -> Nat]]
  /\ renewed \in [Item -> [at : Nat, by : {"acquire", "heartbeat"}]]

\* No two workers carry the same token for an item, so at most one of them
\* passes verify_fencing: the tokens of acquire_lease are never issued twice,
\* whatever was retired, released or lost in a crash in between.
OneHolderPerToken ==
  \A i \in Item, v, w \in Worker :
    v # w /\ held[v][i] = held[w][i] => held[v][i] = 0

\* "A zombie holder's stale token can never pass a later fencing check"
\* (concurrent-lock-contract.md, Leg 3): once a worker's token for an item
\* fails verify_fencing, that same token fails it for ever.
FencedForEver ==
  [][\A w \in Worker, i \in Item :
       held[w][i] # 0 /\ ~Passes(w, i) /\ held'[w][i] = held[w][i]
         => ~Passes(w, i)']_vars

\* How much older than its write the time in a lease can be: a grant is dated
\* before the wait for the lock, a heartbeat when it is written.
Aged(r) == IF r.by = "acquire" THEN LockTimeout + Pause ELSE 0

\* A lease that is kept alive is not taken away: unless its own holder releases
\* it, an entry leaves leases.json (or changes hands) only when its last
\* heartbeat was written more than the TTL ago, less the fraction of a second
\* that the timestamp's format drops; a lease without a heartbeat may go earlier
\* by as long as acquire_lease may have waited before it was granted.
LeaseHonoured ==
  [][\A i \in Item :
       /\ leases[i].token # 0
       /\ leases'[i].token # leases[i].token
       /\ ~\E w \in Worker : ReleaseCommit(w) /\ call[w].item = i /\ Passes(w, i)
       => clock + Second + Aged(renewed[i]) > renewed[i].at + TTL + 1]_vars

\* The lease files implement the abstract fenced lease.  The highest token
\* granted is what the two files together remember, at every step between the
\* two writes of an operation and after a crash there.
Fenced == INSTANCE FencedLease WITH
            top   <- [i \in Item |-> Top(i)],
            valid <- [i \in Item |-> leases[i].token]

ImplementsFencedLease == Fenced!Spec

\* "leases.json MUST have exactly K entries, each with a distinct
\* worktree_slot" (docs/specs/cognito-doc-integration/PHASES.md:331).
DistinctSlots ==
  \A i, j \in Item :
    i # j /\ leases[i].token # 0 /\ leases[j].token # 0
      => leases[i].slot # leases[j].slot
-----------------------------------------------------------------------------
(***************************************************************************)
(* Why they hold: the strengthening proved inductive in LeasesProofs.      *)
(***************************************************************************)

\* Exactly the lock's holder is between reading leases.json and returning.
LockInv ==
  \A w \in Worker : pc[w] \in {"locked", "commit"} <=> lock = w

\* A call began in the past, and not longer ago than it may last.
CallTimes ==
  \A w \in Worker : /\ call[w].now <= clock
                    /\ pc[w] # "idle" => clock <= call[w].now + LockTimeout + Pause

\* A recorded timestamp is the time of the write less a fraction of a second and
\* its age.
TimeInv ==
  /\ \A i \in Item : leases[i].token # 0 =>
                        renewed[i].at < leases[i].beat + Second + Aged(renewed[i])
  /\ CallTimes

\* The entry of i may leave leases.json: its token is in the watermark file.
Retired(i) == leases[i].token <= watermark[i]

\* Between the two writes, the copy differs from the file only where an entry
\* was popped, after its watermark was recorded, and for a reason: the holder
\* releases it or it has expired.
CommitOK(w) ==
  /\ call[w].op \in {"acquire", "reclaim", "release"}
  /\ call[w].op = "acquire" => data[w][call[w].item].token = 0
  /\ call[w].op = "release" =>
       leases[call[w].item].token = held[w][call[w].item]
  /\ \A i \in Item :
       \/ data[w][i] = leases[i]
       \/ /\ data[w][i] = Absent
          /\ Retired(i)
          /\ \/ call[w].op = "release" /\ call[w].item = i
             \/ call[w].op # "release" /\ leases[i].beat + TTL < clock

CommitInv == \A w \in Worker : pc[w] = "commit" => CommitOK(w)

\* Every token a worker carries was minted.
HeldInv == \A w \in Worker, i \in Item : held[w][i] <= Top(i)

IInv ==
  TypeOK /\ LockInv /\ TimeInv /\ CommitInv /\ HeldInv /\ OneHolderPerToken
=============================================================================
