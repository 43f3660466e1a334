---------------------------- MODULE BuildQueue ------------------------------
(***************************************************************************)
(* The machine-global build queue of user/scripts/build-queue.ps1 and      *)
(* build-queue-runner.ps1: a wrapper allocates a sequence number, writes a *)
(* ticket, polls until it may create active.lock, spawns a detached runner *)
(* and waits for its result; the runner builds, records the result and     *)
(* removes active.lock.                                                    *)
(*                                                                         *)
(* Each client runs one wrapper and at most one runner.  A job's files are *)
(* named by its sequence number in the code and by its client here:        *)
(* SeqUnique says that this is the same.  An action touches one file, or   *)
(* reads the directory of tickets.  Of the result file there is only       *)
(* whether it can be read; module BuildOutcome has its writes.             *)
(***************************************************************************)
EXTENDS Naturals, FiniteSets

CONSTANTS
  Client,
  NoClient,
  Fast,             \* clients whose op is in the fast lane; others are heavy
  StaleThreshold,   \* consecutive dead observations before a reclaim
  K,                \* maxFastPasses
  MayBeAged,        \* may a dead lock be older than 30 minutes?
  Slow,             \* may a process stop between reading and acting on it?
  Unreadable,       \* may the read of seq.counter fail?
  WrapperKills,     \* bounds: how many wrappers and runners are killed,
  RunnerKills,
  Faults            \* and how many operations on files fail

ASSUME BuildQueueAssumption ==
  /\ NoClient \notin Client
  /\ Fast \subseteq Client
  /\ StaleThreshold \in Nat \ {0}
  /\ K \in Nat
  /\ MayBeAged \in BOOLEAN /\ Slow \in BOOLEAN /\ Unreadable \in BOOLEAN
  /\ WrapperKills \in Nat /\ RunnerKills \in Nat /\ Faults \in Nat

VARIABLES
  counter,      \* seq.counter; a missing or truncated file reads as 0
  counterLock,  \* who created the seq.counter.lock that is there
  tickets,      \* clients whose ticket file exists
  lock,         \* active.lock: the job it names and whose pid it carries
  passes,       \* fast-passes.count; a missing file reads as K
  recorded,     \* clients with an exit code in results/<seq>.json
  seq,          \* the number each wrapper drew, 0 for none
  wpc,          \* where each wrapper is
  seen,         \* the live tickets each wrapper saw in its last poll
  dead,         \* its trailing run of dead observations of active.lock
  rpc,          \* where each client's runner is
  killed,       \* how many wrappers and runners were killed
  faults,       \* how many operations failed
  overtaken     \* ghost: fast claims over each heavy that was first of its
                \* lane, since the last heavy claim

files   == <<counter, counterLock, tickets, lock, passes, recorded>>
wrapper == <<seq, wpc, seen, dead>>
vars    == <<files, wrapper, rpc, killed, faults, overtaken>>

NoLock    == [job |-> NoClient, pid |-> "absent"]
EmptyLock == [job |-> NoClient, pid |-> "none"]      \* created, no body yet
LockOf(c, who) == [job |-> c, pid |-> who]

Polling == {"look", "status", "reclaim", "elig", "claim"}

Ended == {"done", "failed", "dead"}

Heavy == Client \ Fast

Allocating == {"read", "truncate", "write", "unlock"}

Goto(c, label) == wpc' = [wpc EXCEPT ![c] = label]

\* An operation on a file fails, and the script goes on without it.
Fault == faults < Faults /\ faults' = faults + 1

First(c, S) == \A d \in S : seq[c] <= seq[d]

Init ==
  /\ counter = 0
  /\ counterLock = NoClient
  /\ tickets = {}
  /\ lock = NoLock
  /\ passes \in 0 .. K
  /\ recorded = {}
  /\ seq = [c \in Client |-> 0]
  /\ wpc = [c \in Client |-> "new"]
  /\ seen = [c \in Client |-> {}]
  /\ dead = [c \in Client |-> 0]
  /\ rpc = [c \in Client |-> "none"]
  /\ killed = [wrappers |-> 0, runners |-> 0]
  /\ faults = 0
  /\ overtaken = [c \in Client |-> 0]

-----------------------------------------------------------------------------
(* Enqueue. *)

TakeCounter(c) ==
  /\ wpc[c] = "new"
  /\ counterLock = NoClient
  /\ counterLock' = c
  /\ Goto(c, "read")
  /\ UNCHANGED <<counter, tickets, lock, passes, recorded, seq, seen, dead, rpc, killed, faults, overtaken>>

\* Mutant: after 200 tries the number is drawn without the lock.
CounterBusyGoesOn(c) ==
  /\ wpc[c] = "new"
  /\ counterLock # NoClient
  /\ Slow \/ wpc[counterLock] \notin Allocating
  /\ Goto(c, "read")
  /\ UNCHANGED <<files, seq, seen, dead, rpc, killed, faults, overtaken>>

\* 200 tries are over: exit 1.
CounterBusy(c) ==
  /\ wpc[c] = "new"
  /\ counterLock # NoClient
  /\ Slow \/ wpc[counterLock] \notin Allocating
  /\ Goto(c, "failed")
  /\ UNCHANGED <<files, seq, seen, dead, rpc, killed, faults, overtaken>>

\* What cannot be read counts as 0, like what is not there.
ReadCounter(c) ==
  /\ wpc[c] = "read"
  /\ \/ seq' = [seq EXCEPT ![c] = counter + 1] /\ UNCHANGED faults
     \/ Unreadable /\ seq' = [seq EXCEPT ![c] = 1] /\ Fault
  /\ Goto(c, "truncate")
  /\ UNCHANGED <<files, seen, dead, rpc, killed, overtaken>>

\* WriteAllText empties the file before it writes.
TruncateCounter(c) ==
  /\ wpc[c] = "truncate"
  /\ counter' = 0
  /\ Goto(c, "write")
  /\ UNCHANGED <<counterLock, tickets, lock, passes, recorded, seq, seen, dead, rpc, killed, faults, overtaken>>

WriteCounter(c) ==
  /\ wpc[c] = "write"
  /\ counter' = seq[c]
  /\ Goto(c, "unlock")
  /\ UNCHANGED <<counterLock, tickets, lock, passes, recorded, seq, seen, dead, rpc, killed, faults, overtaken>>

\* The file cannot be opened: finally, then the script ends.
CounterFails(c) ==
  /\ wpc[c] = "truncate"
  /\ Fault
  /\ counterLock' = NoClient
  /\ Goto(c, "failed")
  /\ UNCHANGED <<counter, tickets, lock, passes, recorded, seq, seen, dead, rpc, killed, overtaken>>

DropCounterLock(c) ==
  /\ wpc[c] = "unlock"
  /\ \/ counterLock' = NoClient /\ UNCHANGED faults
     \/ UNCHANGED counterLock /\ Fault
  /\ Goto(c, "ticket")
  /\ UNCHANGED <<counter, tickets, lock, passes, recorded, seq, seen, dead, rpc, killed, overtaken>>

\* What throws outside a handler ends the script.
WriteTicket(c) ==
  /\ wpc[c] = "ticket"
  /\ \/ tickets' = tickets \cup {c} /\ Goto(c, "look") /\ UNCHANGED faults
     \/ UNCHANGED tickets /\ Goto(c, "dead") /\ Fault
  /\ UNCHANGED <<counter, counterLock, lock, passes, recorded, seq, seen, dead, rpc, killed, overtaken>>

-----------------------------------------------------------------------------
(* One poll. *)

\* Mutant: every ticket but one's own counts as dead.
DeadTicketsOfOthers(c) == {d \in tickets : d # c}

\* Get-LiveTickets: drop the tickets of dead wrappers, see the others.
DeadTickets(c) == {d \in tickets : wpc[d] \in Ended}

Look(c) ==
  LET live == tickets \ DeadTickets(c) IN
  /\ wpc[c] = "look"
  /\ tickets' = live
  /\ seen' = [seen EXCEPT ![c] = live \cup {c}]
  /\ Goto(c, "status")
  /\ UNCHANGED <<counter, counterLock, lock, passes, recorded, seq, dead, rpc, killed, faults, overtaken>>

\* Mutant: a pid once recorded counts as alive.
PidAliveAlways(l) == TRUE

PidAlive(l) == IF l.pid = "runner" THEN rpc[l.job] # "gone" ELSE wpc[l.job] \notin Ended

LockStatus ==
  CASE lock = NoLock    -> "absent"
    [] lock = EmptyLock -> "unknown"
    [] lock \notin {NoLock, EmptyLock} -> IF PidAlive(lock) THEN "alive" ELSE "dead"

\* Test-ShouldReclaimLock, for a waiter with n trailing dead observations.
ShouldReclaim(c, n, aged) ==
  /\ First(c, seen[c])
  /\ n >= StaleThreshold \/ (aged /\ n > 0)

ReadStatus(c) ==
  LET n == IF LockStatus # "dead" THEN 0
           ELSE IF dead[c] < StaleThreshold THEN dead[c] + 1 ELSE StaleThreshold
  IN
  /\ wpc[c] = "status"
  /\ dead' = [dead EXCEPT ![c] = n]
  /\ \E aged \in {FALSE, MayBeAged} :
       Goto(c, IF ShouldReclaim(c, n, aged) THEN "reclaim"
               ELSE IF LockStatus = "absent" THEN "elig" ELSE "look")
  /\ UNCHANGED <<files, seq, seen, rpc, killed, faults, overtaken>>

\* Remove-Item active.lock, whatever it says by now.
Reclaim(c) ==
  /\ wpc[c] = "reclaim"
  /\ \/ lock' = NoLock /\ UNCHANGED faults
     \/ UNCHANGED lock /\ Fault
  /\ dead' = [dead EXCEPT ![c] = 0]
  /\ Goto(c, "elig")
  /\ UNCHANGED <<counter, counterLock, tickets, passes, recorded, seq, seen, rpc, killed, overtaken>>

\* Mutant: no bound on consecutive fast passes.
EligibleUncapped(c) ==
  IF c \in Fast THEN First(c, seen[c] \cap Fast)
  ELSE First(c, seen[c] \cap Heavy) /\ (seen[c] \cap Fast = {} \/ passes >= K)

\* Test-LaneClaimEligible.
Eligible(c) ==
  IF c \in Fast THEN First(c, seen[c] \cap Fast) /\ (passes < K \/ seen[c] \cap Heavy = {})
  ELSE First(c, seen[c] \cap Heavy) /\ (seen[c] \cap Fast = {} \/ passes >= K)

CheckEligible(c) ==
  /\ wpc[c] = "elig"
  /\ Goto(c, IF Eligible(c) THEN "claim" ELSE "look")
  /\ UNCHANGED <<files, seq, seen, dead, rpc, killed, faults, overtaken>>

\* The heavy ticket that is first of its lane, if there is one.
FirstHeavy == {h \in tickets \cap Heavy : First(h, tickets \cap Heavy)}

\* CreateNew of active.lock arbitrates; the body comes later.
Claim(c) ==
  /\ wpc[c] = "claim"
  /\ lock = NoLock
  /\ lock' = EmptyLock
  /\ overtaken' = [h \in Client |-> IF c \notin Fast THEN 0
                                    ELSE IF h \in FirstHeavy THEN overtaken[h] + 1
                                    ELSE overtaken[h]]
  /\ Goto(c, "body")
  /\ UNCHANGED <<counter, counterLock, tickets, passes, recorded, seq, seen, dead, rpc, killed, faults>>

ClaimLost(c) ==
  /\ wpc[c] = "claim"
  /\ lock # NoLock
  /\ Goto(c, "look")
  /\ UNCHANGED <<files, seq, seen, dead, rpc, killed, faults, overtaken>>

-----------------------------------------------------------------------------
(* The claim's winner. *)

\* The provisional body carries the wrapper's own pid.
WriteBody(c) ==
  /\ wpc[c] = "body"
  /\ \/ lock' = LockOf(c, "wrapper") /\ UNCHANGED faults
     \/ UNCHANGED lock /\ Fault
  /\ Goto(c, "unticket")
  /\ UNCHANGED <<counter, counterLock, tickets, passes, recorded, seq, seen, dead, rpc, killed, overtaken>>

Unticket(c) ==
  /\ wpc[c] = "unticket"
  /\ \/ tickets' = tickets \ {c} /\ UNCHANGED faults
     \/ UNCHANGED tickets /\ Fault
  /\ Goto(c, "count")
  /\ UNCHANGED <<counter, counterLock, lock, passes, recorded, seq, seen, dead, rpc, killed, overtaken>>

\* Only the winner of a claim writes the count.
CountPass(c) ==
  /\ wpc[c] = "count"
  /\ \/ /\ passes' = IF c \notin Fast THEN 0 ELSE IF passes < K THEN passes + 1 ELSE K
        /\ UNCHANGED faults
     \/ UNCHANGED passes /\ Fault
  /\ Goto(c, "spawn")
  /\ UNCHANGED <<counter, counterLock, tickets, lock, recorded, seq, seen, dead, rpc, killed, overtaken>>

Spawn(c) ==
  /\ wpc[c] = "spawn"
  /\ \/ rpc' = [rpc EXCEPT ![c] = "build"] /\ Goto(c, "rewrite") /\ UNCHANGED faults
     \/ UNCHANGED rpc /\ Goto(c, "dead") /\ Fault
  /\ UNCHANGED <<files, seq, seen, dead, killed, overtaken>>

\* Replace active.lock, or create it if it is gone: now it carries the
\* runner's pid.
Rewrite(c) ==
  /\ wpc[c] = "rewrite"
  /\ \/ lock' = LockOf(c, "runner") /\ Goto(c, "wait") /\ UNCHANGED faults
     \/ UNCHANGED lock /\ (Goto(c, "wait") \/ Goto(c, "dead")) /\ Fault
  /\ UNCHANGED <<counter, counterLock, tickets, passes, recorded, seq, seen, dead, rpc, killed, overtaken>>

\* Wait-ForRecordedOutcome: a readable result is returned at once.
Recorded(c) ==
  /\ wpc[c] = "wait"
  /\ c \in recorded
  /\ Goto(c, "done")
  /\ UNCHANGED <<files, seq, seen, dead, rpc, killed, faults, overtaken>>

\* The runner is gone and left no readable result: write one from its exit
\* code, if that can be written.
WriteFallback(c) ==
  /\ wpc[c] = "wait"
  /\ rpc[c] = "gone"
  /\ c \notin recorded
  /\ \/ recorded' = recorded \cup {c} /\ UNCHANGED faults
     \/ UNCHANGED recorded /\ Fault
  /\ Goto(c, "check")
  /\ UNCHANGED <<counter, counterLock, tickets, lock, passes, seq, seen, dead, rpc, killed, overtaken>>

\* Mutant: whatever active.lock says by now, it is removed.
CheckLockAny(c) ==
  /\ wpc[c] = "check"
  /\ Goto(c, IF lock # NoLock THEN "remove" ELSE "done")
  /\ UNCHANGED <<files, seq, seen, dead, rpc, killed, faults, overtaken>>

\* Release active.lock if it is still this job's.
CheckLock(c) ==
  /\ wpc[c] = "check"
  /\ Goto(c, IF lock.job = c THEN "remove" ELSE "done")
  /\ UNCHANGED <<files, seq, seen, dead, rpc, killed, faults, overtaken>>

RemoveLock(c) ==
  /\ wpc[c] = "remove"
  /\ \/ lock' = NoLock /\ UNCHANGED faults
     \/ UNCHANGED lock /\ Fault
  /\ Goto(c, "done")
  /\ UNCHANGED <<counter, counterLock, tickets, passes, recorded, seq, seen, dead, rpc, killed, overtaken>>

-----------------------------------------------------------------------------
(* The runner. *)

RunnerGoto(c, label) == rpc' = [rpc EXCEPT ![c] = label]

\* The build ends.  Its result is written at once, before any hygiene, unless
\* the exit code is unknown (spawn exception) or the write fails.
EarlyResult(c) ==
  /\ rpc[c] = "build"
  /\ recorded' \in {recorded, recorded \cup {c}}
  /\ RunnerGoto(c, "hygiene")
  /\ UNCHANGED <<counter, counterLock, tickets, lock, passes, wrapper, killed, faults, overtaken>>

\* The final write may be without an exit code, or fail.
FinalResult(c) ==
  /\ rpc[c] = "hygiene"
  /\ recorded' \in {recorded, recorded \cup {c}}
  /\ RunnerGoto(c, "check")
  /\ UNCHANGED <<counter, counterLock, tickets, lock, passes, wrapper, killed, faults, overtaken>>

RunnerCheckLock(c) ==
  /\ rpc[c] = "check"
  /\ RunnerGoto(c, IF lock.job = c THEN "remove" ELSE "gone")
  /\ UNCHANGED <<files, wrapper, killed, faults, overtaken>>

RunnerRemoveLock(c) ==
  /\ rpc[c] = "remove"
  /\ \/ lock' = NoLock /\ UNCHANGED faults
     \/ UNCHANGED lock /\ Fault
  /\ RunnerGoto(c, "gone")
  /\ UNCHANGED <<counter, counterLock, tickets, passes, recorded, wrapper, killed, overtaken>>

-----------------------------------------------------------------------------
(* Kills: of a wrapper alone, of a runner with its build, perhaps amid its *)
(* final write.                                                            *)

KillWrapper(c) ==
  /\ wpc[c] \notin Ended \cup {"new"}
  /\ killed.wrappers < WrapperKills
  /\ killed' = [killed EXCEPT !.wrappers = @ + 1]
  /\ Goto(c, "dead")
  /\ UNCHANGED <<files, seq, seen, dead, rpc, faults, overtaken>>

KillRunner(c) ==
  /\ rpc[c] \notin {"none", "gone"}
  /\ killed.runners < RunnerKills
  /\ killed' = [killed EXCEPT !.runners = @ + 1]
  /\ recorded' \in {recorded, recorded \ {c}} /\ (rpc[c] # "hygiene" => recorded' = recorded)
  /\ RunnerGoto(c, "gone")
  /\ UNCHANGED <<counter, counterLock, tickets, lock, passes, wrapper, faults, overtaken>>

-----------------------------------------------------------------------------
WrapperStep(c) ==
  \/ TakeCounter(c) \/ CounterBusy(c) \/ ReadCounter(c) \/ TruncateCounter(c)
  \/ WriteCounter(c) \/ CounterFails(c) \/ DropCounterLock(c) \/ WriteTicket(c)
  \/ Look(c) \/ ReadStatus(c) \/ Reclaim(c) \/ CheckEligible(c)
  \/ Claim(c) \/ ClaimLost(c) \/ WriteBody(c) \/ Unticket(c)
  \/ CountPass(c) \/ Spawn(c)
  \/ Rewrite(c) \/ Recorded(c) \/ WriteFallback(c) \/ CheckLock(c) \/ RemoveLock(c)

RunnerStep(c) ==
  EarlyResult(c) \/ FinalResult(c) \/ RunnerCheckLock(c) \/ RunnerRemoveLock(c)

(***************************************************************************)
(* Scheduling.  Unless Slow, what a process has just read still holds when *)
(* it acts on it, milliseconds later: a poll runs to its claim, a wrapper  *)
(* rewrites active.lock right after it spawned the runner, and the check   *)
(* of active.lock is followed at once by its removal.                      *)
(***************************************************************************)
WrapperUrgent(c) == wpc[c] \in {"status", "reclaim", "elig", "claim", "rewrite", "remove"}

RunnerUrgent(c) == rpc[c] = "remove"

WrapperMayRun(c) ==
  Slow \/ \A d \in Client : ~RunnerUrgent(d) /\ (WrapperUrgent(d) => d = c)

RunnerMayRun(c) ==
  Slow \/ \A d \in Client : ~WrapperUrgent(d) /\ (RunnerUrgent(d) => d = c)

Next ==
  \E c \in Client :
    \/ WrapperMayRun(c) /\ (WrapperStep(c) \/ KillWrapper(c))
    \/ RunnerMayRun(c) /\ (RunnerStep(c) \/ KillRunner(c))

Spec == Init /\ [][Next]_vars

\* No process is starved by the operating system.
Fairness ==
  \A c \in Client :
    /\ SF_vars(WrapperMayRun(c) /\ WrapperStep(c))
    /\ SF_vars(RunnerMayRun(c) /\ RunnerStep(c))

FairSpec == Spec /\ Fairness

-----------------------------------------------------------------------------
(* Properties. *)

TypeOK ==
  /\ counter \in Nat
  /\ counterLock \in Client \cup {NoClient}
  /\ tickets \subseteq Client
  /\ lock \in {NoLock, EmptyLock} \cup [job : Client, pid : {"wrapper", "runner"}]
  /\ passes \in 0 .. K
  /\ recorded \subseteq Client
  /\ faults \in 0 .. Faults
  /\ seq \in [Client -> Nat]
  /\ wpc \in [Client -> {"new", "ticket", "body", "unticket", "count", "spawn", "rewrite",
                         "wait", "check", "remove"} \cup Allocating \cup Polling \cup Ended]
  /\ seen \in [Client -> SUBSET Client]
  /\ dead \in [Client -> 0 .. StaleThreshold]
  /\ rpc \in [Client -> {"none", "build", "hygiene", "check", "remove", "gone"}]

\* "Ensures only ONE build runs at a time across all worktrees on this
\* machine" (build-queue.ps1:6), the hygiene after the build included: "the
\* lock serializes hygiene against the next build" (build-queue-runner.ps1).
OneBuild ==
  \A c, d \in Client :
    rpc[c] \in {"build", "hygiene"} /\ rpc[d] \in {"build", "hygiene"} => c = d

\* "active.lock records the detached build's PID, not the client's, so the lock
\* is only reclaimed when the build itself dies" (docs/specs/build-queue/SPEC.md:99).
HeldWhileBuilding ==
  \A c \in Client : rpc[c] = "build" => lock.job = c

\* "Sequence numbers are unique" (SPEC.md:96), so no two jobs share a ticket, a
\* lock or a result file, wherever wrappers die in the allocation and however
\* they interleave there.
SeqUnique ==
  \A c, d \in Client :
    seq[c] = seq[d] /\ {wpc[c], wpc[d]} \cap (Allocating \cup {"failed"}) = {} /\ seq[c] # 0
      => c = d

\* "after K consecutive fast-lane claims the oldest heavy waiter is admitted"
\* (build-queue.ps1:328), though counts are written apart from the claims.
HeavyNotStarved == \A c \in Client : overtaken[c] <= K

\* "Clients are served in strict arrival (FIFO) order" (build-queue.ps1:7),
\* within a lane: a claim overtakes no waiter of its lane that came earlier.
InTurn ==
  [][\A c, d \in Client :
       wpc[c] = "claim" /\ wpc'[c] = "body" /\ wpc[d] \in Polling /\ (c \in Fast <=> d \in Fast)
         => seq[c] <= seq[d]]_vars

\* active.lock is empty, and whoever created it will not write it any more.
Jammed == lock = EmptyLock /\ \A d \in Client : wpc[d] \notin {"body", "unticket", "count", "spawn", "rewrite"}

\* Every client that has drawn a number gets its build's outcome, or dies itself
\* of a kill or of a failed operation, wherever other wrappers and runners die,
\* operations fail and active.lock is left behind: unless it is left empty,
\* which is for ever.
EveryoneServed ==
  <>[]Jammed \/ \A c \in Client : wpc[c] = "ticket" ~> wpc[c] \in {"done", "dead"}

\* "Truncate/corrupt active.lock ...: the wrapper tolerates it (fail-open /
\* self-heal) rather than wedging the queue" (SPEC.md:165): served without the
\* exception that EveryoneServed makes.
NeverWedged == \A c \in Client : wpc[c] = "ticket" ~> wpc[c] \in {"done", "dead"}

\* seq.counter.lock is a "transient exclusive-open lock" (build-queue.ps1:30):
\* whoever dies with it, it goes away.
CounterLockIsTransient == counterLock # NoClient ~> counterLock = NoClient
=============================================================================
