# The coordination plane and the work pipelines of claude-config: specifications and proofs

The repository configures autonomous coding agents.  Much of it is text
(skills, documents).  Its own hard logic is in two places.  The *coordination
plane* lets several agent processes on one machine share files under
`~/.claude/state` and under a repository, with no server, no database and no
operating-system locks: everything is a file that is created exclusively,
renamed, replaced or deleted, and any process may be killed between two of
these.  The *work pipelines* carry a feature or a bug from its queue entry to
its receipt: a router that keeps nothing in memory reads the documents of the
work item and says what comes next, agents and scripts rewrite the documents,
and a gate decides from the same documents whether the item is complete.  This
directory specifies both in TLA+, checks them with TLC and proves their central
claims with TLAPS.

Source files are under `user/scripts/` unless a path says otherwise.

## 1. Inventory

| Component | State it keeps | Operations | What makes it correct |
|---|---|---|---|
| Fencing leases (`lazy_coord.py` 41-143, 505-693) | `leases.json`, `lease-token-watermarks.json` | acquire_lease, heartbeat, verify_fencing, reclaim_expired, release_lease | a token is issued once; a stale one never passes again; a kept-up lease is not taken |
| Global directory lock (`lazy_coord.py` 146-502) | `global.lock.d/`, `owner.json` in it | acquire_lock, release_lock, reclaim of a dead holder | mutual exclusion; no lock outlives its holder for ever |
| Item lock, Python (`lazy_coord.py` 696-756) | the lease of the item | acquire_item_lock, release_item_lock | as the lease, plus a bounded wait |
| Lanes (`lazy_coord.py` 759-1256) | worktree slots, `lanes.json`, lane branches | provision_pool, scrub_slot, claim_shardable, ledger_record_*, merge_back_lanes | a slot serves one lane; a lane is merged once, in queue order |
| Item lock, PowerShell (`concurrent-lock.ps1`) | one lock file per item | acquire, release | the five legs of `concurrent-lock-contract.md` |
| Build queue (`build-queue.ps1`, `build-queue-runner.ps1`, queue functions of `build-queue-hygiene.ps1`) | `seq.counter`, `tickets/`, `active.lock`, `fast-passes.count`, `results/` | enqueue, poll, claim, spawn, wait, fallback release; build, early and final result, release | one build at a time; everybody is served; an outcome is never lost |
| Prompt registry and guard (`lazy_core/dispatch.py`, `lazy_guard.py`) | `lazy-prompt-registry.json` | register_emission, lookup_emission, consume_nonce, guard | one dispatch per emission, in the run that emitted it; the guard stays with the run's own session |
| Run marker, checkpoint, cycle marker (`lazy_core/markers.py`) | marker files, session binding, cycle counts, budget maps | run-start/-end, bind, pause, resume, cycle-begin/-end | one run per repository; a resumed run keeps its budget |
| Ledgers (`lazy_core/ledgers.py`) | append-only JSON lines | append, acknowledge, summarise | a debt is paid once, by a dispatch of the run that owes it |
| The two state machines (`lazy-state.py`, `bug-state.py`: compute_state) | none; they read the documents and write a sentinel now and then | the walk over the queue, Steps 2 to 10 for the item picked | nothing is called complete that is not; no work is walked past; no step is told for ever in vain; dependencies come first |
| Document model and pseudo-skills (`lazy_core/docmodel.py`, `pseudo.py`) | PHASES.md, SPEC.md, plans, sentinels, receipts | line scanners; `__mark_complete__`, `__mark_fixed__` and the small ones | the router and the gate read a document alike; an interrupted completion leaves no false claim |
| Gates and host capabilities (`lazy_core/gates.py`, `hostcaps.py`) | test results, skip grants, `RUNTIME_GATES.md` | evidence, exemption, auto-tick, cover, archive_fixed | a receipt is earned; nothing that is owed is lost; an archive is whole |
| Dependency graph (`lazy_core/depdag.py`) | `deps` of queue entries, Dependencies blocks | detect_dep_cycle, dep_completion_status, skip_ahead_ready | a dependency is complete, with a receipt, before what needs it |
| Notification plane (`lazy_core/notifyplane.py`) | `notify-ledger.json` | notify_halt, notify_event | one page per halt |
| Build hygiene, build queue readers and hooks, runtime plane, state directory, other hooks, reports and lint | processes, logs, reports | process control, filters, text | single-process tools |

How they interact.  An orchestrating agent probes the state machine, which
reads the documents and the run marker, and either applies the pseudo-skill it
is told or dispatches a worker with a prompt the state script emitted; a hook
runs the guard before each dispatch and reads the run marker and the registry.
The walk over the queue looks at one item after the other; for the item it
picks it takes Steps 3 to 10.  Step 10 sends the item to `__mark_complete__`,
which runs the gates; a bug then goes to archive_fixed, while the router and
the bugs that depend on it go on reading its directory.  Every lease operation
runs under the global lock; the item lock and the lanes are built on the
leases; the lanes ledger takes the same global lock.  The build queue is
separate and guarded by its own files.

What is hard: reads that are old when they are acted upon; two writes that
belong together with a crash between them; files named by a path that another
process has meanwhile given to somebody else; two scanners that decide from the
same lines by different rules; a step that is told, refused and told again; a
queue that ends with a reason that is not true; schedulers and time-outs that
must not starve or strand anybody.  `PROJECT.json` lists each such place under
`hazards`, with the properties that cover it.

## 2. Modules

### FencedLease and Leases

`FencedLease` says what the lease layer promises, with no files, locks, clock
or callers: an item has a highest token ever granted and at most one token that
is valid; a grant issues the next number; a lost token never becomes valid
again.

`Leases` is the code.  `leases` and `watermark` are the two files.  An
operation is a *call*: it takes its `now` (acquire_lease and reclaim_expired
take it before they wait for the lock, heartbeat when it writes), waits for the
lock, reads, and writes.  An operation that retires an entry writes the
watermark file (`...Retire`) and then `leases.json` (`...Commit`); both writes
are a temporary file and a rename, so each is one atomic step, and `Crash` may
come between them.  The lock is here what `acquire_lock` promises, a mutex that
a dead holder loses; `CoordLock` is about whether it keeps that promise.  A
worker that is fenced off may ignore the error and go on with its stale token,
as a zombie does.  Time is counted in ticks, `Second` of them to the second,
and `NowIso` drops the fraction as the timestamp format does.  The ghost `renewed` has
the real time of the write, and by which operation, so that a grant that was
already old when it was written is seen: LeaseHonoured measures from there, and
allows a grant (`Aged`) to be older by `LockTimeout`, the longest acquire_lock
waits, and `Pause`, an assumption on how long a call may take besides.
acquire_lease takes any slot its caller names, also one in use.

Not in `Leases`: the removal of the expired slot's directory, unreadable files
(an unreadable watermark file is read as empty, see the hazards), and the wait
loop of `acquire_item_lock`.

### CoordLock

One action per file operation of acquire_lock, the reclaim and release_lock.
`maker` is who made the directory now at the path, `owner` whom its
`owner.json` names, `fresh` whether its mtime is within the grace age, `litter`
whether a failed write left its temporary file in it.  A process acts on the
*path*: it writes its record into, renames away or removes whatever directory
is there.  `falseReclaim` remembers that a directory was renamed away from a
process that was alive and between its mkdir and its rmdir.  `Timeout` is
allowed at every wait, which covers every budget and back-off.  An inconclusive
pid probe counts as alive and an `owner.json` that cannot be read as none, as in
the code; a reused pid, told by its start time, is a dead holder.

`Slow` says whether a live process may be delayed, between two file operations,
for longer than the grace age (2 s, `lazy_coord.py:168`).  `MaxFaults` bounds the
operations and probes that fail: `WriteFails` (the best-effort write of
`owner.json`), `ReadFails`, `UnlinkFails`, `RmdirFails`, `RenameLost`.  A failed
unlink is swallowed; then rmdir finds the directory not empty and release_lock
raises, which `surfaced` remembers.

### BuildQueue

One wrapper and at most one runner per client, one action per file operation or
read-and-decide step.  The allocation of a number is `TakeCounter` (the exclusive
create of `seq.counter.lock`), `ReadCounter`, `TruncateCounter`, `WriteCounter`,
`DropCounterLock`; `CounterBusy` is a wrapper that gives up after 200 tries.  Then
`WriteTicket`; the poll `Look`, `ReadStatus`, `Reclaim`, `CheckEligible`, `Claim`;
then `WriteBody`, `Unticket`, `CountPass`, `Spawn`, `Rewrite`, and the wait with
its fallback and release (`Recorded`, `WriteFallback`, `CheckLock`, `RemoveLock`).
The runner writes an early result, does its hygiene, writes the final one and
releases `active.lock` if it still carries its number.  `recorded` are the jobs
whose result file is readable; what a write of it leaves is `BuildOutcome`'s
subject.

`Slow = FALSE` makes the steps that follow each other within milliseconds
(`WrapperUrgent`, `RunnerUrgent`) run without another process in between;
`Slow = TRUE` allows every interleaving.  `Faults` bounds the operations that fail:
what the script swallows it goes on after, anything else ends it.  `Unreadable`
says whether the read of `seq.counter` may be among them, which the code takes for
a counter of 0.  `WrapperKills` and `RunnerKills` bound the kills.

### BuildOutcome

One job and its `results/<seq>.json`: how the exit code of a build gets to the
wrapper and to `build-queue-await.ps1`.  A write is a temporary file and
File.Replace, one atomic step; where Replace throws it is WriteAllText, which
empties the file (`Truncate`) and fills it (`Fill`); and where that throws nothing
is written.  The runner writes early, before its hygiene, and finally; the wrapper
writes the outcome of a runner that is gone.  Either may be killed anywhere, also
between Truncate and Fill.  `known` is a ghost: the first exit code that was
readable in the file.  External: a killed process has an exit code other than 0.

### DispatchGuard

The files are `marker` (`lazy-run-marker.json`: which run, bound to which
session), `cycle` (`lazy-cycle-active.json`), `registry`
(`lazy-prompt-registry.json`) and `ledger` (`lazy-deny-ledger.jsonl`).  An
emission's nonce is its number, so the age of an entry is an order: `old` is
the last one past its TTL, and AgeOut moves it on.

A *command* of the state script (`RunStart`, `RunEnd`, `EmitPrompt`,
`EmitHardening`, `CycleBegin`, `CycleEnd`) is one step.  Commands are the
orchestrator's, which sets LAZY_ORCHESTRATOR, so that refuse_if_cycle_active lets
them pass in an armed cycle too.  `DropStaleMarker` is
what the first reader does to the marker of a run that crashed a day ago; a
crash itself is only that no further command comes.  A *hook* is a process per
call.  `FireRef`, `FireVerbatim`, `FireSuffix` and `FireOther` are its first
reads, by what the prompt is: a reference, an exact copy, a copy with something
appended, anything else.  Then come `Consume` and `Save` (the registry is read
and replaced), `Pay` and `AckSave` (the ledger likewise), `Unregistered` (the
consultation, the in-flight worker, the transcription slip), `Book` and
`Allow`, which binds the marker.  `HookDies` may come at any of them: the call
then goes through, because the hook fails open, but what it wrote stays.  A
hook may fire again for the same call with the same prompt.

`took[c]` and `paid[c]` are ghosts: the nonces with which call c was allowed,
and the debts its hooks acknowledged with which of them.  `Overlap` says
whether hooks and commands may run at the same time; without it, which is how
the comments of the code describe a session, each runs to its end.

Assumptions: the prompts that the script emits are sent by the run's own
session only (`_bind_marker_on_allow` relies on it); `--cycle-begin` is called
under the run, with a fresh nonce or the one last emitted.  Left out: a call of
a session that reads no marker, or somebody else's, since nothing is written
for it; cycles of skills that declare no sub-agents, whose marker the guard
ignores; runs that start within the same second; a run start over a live marker
that has a checkpoint beside it (`--run-end` writes the one and deletes the
other in one command); and the command-line read-modify-write that a hook
interrupts.

### PhasesDoc and CompletionGate

`PhasesDoc` has no state: a document is a sequence of lines (what a line is,
which section a header names, its markers, its value), and every scanner of
`docmodel.py` and `gates.py` is a function of it.  A scanner is two things: what
a line does to the scope it carries (`Enter...`), and which open rows it takes.
They differ exactly there: whether a named phase, a heading or a bold header
ends a section, and whether the word Superseded or the whole value counts.
An open row is `[ ]` or, `Tight`, `[]`: the router's scanners take both, the
gate's row pattern (`gates.py:878`) the first only (`Spaced`).  A phase is flipped by
the text of its heading (`FlipPhases`), so another phase of that heading is flipped
with it (`Namesakes`).  Left out are lines inside code fences, which all skip, and
phase headings of another level than the template's `###`.  `Line` is the set of
lines the proofs allow: any section names and values, but rows name no section
and only a bold line states a status.

`CompletionGate` lets a planner write any document line by line, sends it to the
gate when the router would, and applies the gate: `AfterTicks` (auto-tick),
`Deferred` (rows that go to `RUNTIME_GATES.md`), `Plan` (phase_completion_plan),
then `Refuse` or `Complete`.  A completion writes Complete for a feature and Fixed for a bug (`Claim`).
Everything the gate does is in one action here;
`FeaturePipeline` has its writes one by one.

### FeaturePipeline

One feature or bug.  `spec`, `research`, `doc`, `plan`, `skip`, `results`,
`spike` and the sentinels in `files` are what its directory holds; `env` is what
does not change while it is built: the host, whether the repository has a
surface to test, the flags of the run, sentinels that are there from the start.
`Step2` ... `Step10` are the tests of compute_state in the order of the source,
as lists; `Route` is the first test that holds.  `Probe` writes what the router
writes on its way.  `Bug...` are the lists of bug-state.py, given by their
difference where that is short.

The pseudo-skills are actions with their own tests, so that the router's test
and the skill's can disagree.  `__mark_complete__` is `MarkComplete` (evidence,
receipt, refusals), then one action per write: `AutoTick`, `FlipOrRefuse`, and
`WriteTail` along `CompletionTail`; `todo` are the writes still to come, and
`Crash` may come before any.  The worker skills (`SpecSkill`, `ExecutePlan`,
`McpTest` and so on) and people (`Operator`, `Handover`) are external: they leave
any of the files the router looks for.  `Drift` is a commit of other work, after
which results are of other code.

### QueueWalk

Many features, or many bugs, each reduced to a stage and its sentinels, and the
run marker's counts: `forward`, `corrective`, `defers`, `evicted`.  `Verdict` is
what the walk makes of an item, in the order of the source; `Ends` is where the
walk ends, `Fallback` the first gated item, `Flush` the end-of-run resume,
`Reason` the terminal if nothing is picked.  `Probe` also writes the budget maps
back.  `Advance`, `Linger` and `Stumble` are the ends of a worker's cycle;
`Resolve`, `Decide` and `Reconcile` are people; `NewRun` starts with a new marker.
A run over bugs has five lists instead of seven and no budget guard, skip-ahead,
research gate or host axis.  `graces` is a ghost.

`FeaturePipeline` and `QueueWalk` are two views of one function: what the first
calls `Step2` is, item by item, the head of the second's `Verdict`, and the
second's `Dispatch` is the first's Steps 4 to 10.

### BugArchive

`bug-state.py --archive-fixed` over one bug.  `at` says where in the work tree
each of three files is (the note, the receipt, the specification), `dirs` which
directories exist, `queued` and `ref` the row and the references, `head` what the
last commit has of all that, `old` an earlier bug of the same name.  `Move` is
git mv; `MoveRefused` and `MoveFile` its fallback file by file; then `FilesMoved`,
which is an error if a file stayed behind and none if only the emptied directory
did, `Repoint`, `Trim`, `Commit`.  Another process may hold a file open, any
operation may fail (`StepFails`, the failing branches of `ArchiveFixed` and
`Repoint`), and the call may die between any two steps (`Crash`).  `RouterSees` and
`DepStatus` are what the router and the dependents of the bug read meanwhile;
`Report` writes a BLOCKED.md where the bug was, which makes the directory again;
`Resolve` renames it.  `mishaps` is a ghost: the steps in which calls ended short,
"home" if an emptied directory stayed, "note" if BLOCKED.md made it again.

The operators whose comment begins with "Mutant" in these modules are plausible
slips in the definition that follows; each breaks a property that a run checks,
and no specification uses them.

### MC modules

`MCLeases`, `MCCoordLock`, `MCBuildQueue` and `MCDispatchGuard` add symmetry sets
to the modules for the runs without liveness.  Workers, items, slots, processes,
calls and clients of one lane are interchangeable: no definition compares one
with a particular one.  `MCCompletionGate` names the lines documents are made of,
`MCFeaturePipeline` the documents and environments, `MCQueueWalk` the queue and
the kinds of run; `MCBugArchive` only names the instance, and `BuildOutcome` needs
none.

## 3. Runs

| Run | Instance | Checks | Shows |
|---|---|---|---|
| `leases` | 2 workers, 2 items, 1 slot, TTL 2 ticks = 1 s, lock timeout 1 tick, 3 ticks, tokens up to 2 | OneHolderPerToken, FencedForEver, LeaseHonoured, ImplementsFencedLease | tokens are never issued twice, stale ones stay fenced, a lease lasts its TTL from its real grant or heartbeat but for the wait and the fraction of a second the code loses, and the two files implement FencedLease through crashes between their writes |
| `lock_crash` | 3 processes, 2 deaths, 1 failing operation or probe, any delay, fair | MutexUnlessFalseReclaim, NoOrphanLock, OrphanCleared | only a false reclaim breaks the mutex; a lock outlives its holder only if he died or his release raised; orphans go away |
| `lock_reclaim_race` | 3 processes, 1 death, all prompt | NoFalseReclaim (violated) | two reclaimers of one dead holder: the slower takes the faster one's live lock |
| `bq_safe` | 1 heavy and 2 fast jobs, 1 runner killed | OneBuild, HeavyNotStarved, InTurn | one build at a time, at most K fast claims in a row over a waiting heavy job, first come first served within a lane |
| `bq_slow` | 2 jobs, any delay, 1 wrapper and 1 runner killed, 1 failing operation, fair | SeqUnique, EveryoneServed | no number is drawn twice, wherever an allocation is interrupted, and every wrapper that lives returns unless active.lock is left empty |
| `outcome` | 1 job, 2 failing operations, kills anywhere, fair | NoFalseGreen, RecordedIsTold, OutcomeTold | no failed build is called green, what was recorded is what is told, and somebody who waits is told something |
| `guard` | 2 calls, 1 cycle and 1 hardening prompt, registry of 2, 3 emissions, 2 debts, 4 of both, 2 runs, no overlap | OneDispatchPerEmission, DebtPaidOnce, NoBystanderDebt, OrchestratorBinds, VerbatimRefireStands, WorkerNeedsDispatch, OwnRunOnly | what the guard promises holds while one hook or command runs at a time, whichever hook dies and whichever run crashes, with debts of one run or of two |
| `gate_docs` | every document of up to 5 lines out of 20, up to 2 passed tests or a structural skip | RouterAgreesWithGate, NothingOwed, CoherentWithTopStatus, TicksNoDeliverable | the router and the gate agree but for six named gaps, completing leaves nothing owed, no deliverable is ticked |
| `pipeline` | 3 documents, 7 feature and 3 bug environments, 1 test, 2 spike rounds, 1 crash, 1 drift, fair | CompletionClaimHasReceipt, ReceiptEarned, ClosedOwesNothing, RoutedIsAccepted, InterruptedIsResumed, Served | from queue entry to receipt: claims have receipts, receipts are earned, completions that died resume, and no step is told for ever in vain |
| `walk` | 3 items, b waits for c behind it, 3 kinds of feature run and 2 of bug run, cap 1, 2 troubles, fair | NoFalseCompletion, StopsOnlyWhenDone, DepsFirst, FinishLineIsReached, NoMonopoly | the walk never stops past work, never calls an unfinished queue complete, and nothing starves the others but by grace |
| `archive` | 1 bug, any earlier bug of its name, 4 faults, fair | ArchivedIsCommitted, SeenAsFixed, Resumes | a reported archive leaves nothing open, and is whole and committed but for named earlier mishaps; the bug stays fixed for everyone while its files move together; a failed archive called again ends |
| `archive_rerun` | the same, 2 faults | RerunIsSafe (violated) | without the named mishaps as exceptions a re-run that reports ok is not safe |

### Bounds

`MaxToken = 2` with `MaxClock = 3` lets an item be granted, retired (by release,
expiry, or a refused call that records a watermark) and granted again while a
zombie carries the first token; with `LockTimeout = 1` a grant may be half its TTL
old when it is written; `TTL = Second = 2` makes the lost fraction of a
second matter.  The proofs need none of these bounds.  In the lock runs the
third process is the second reclaimer; a second death can hit the reclaimer
itself, and a failure the release or the reclaim of either.  In the queue `StaleThreshold = 2` (the code's is 3) is the smallest
value at which one dead observation is not enough, and `K = 1` (the code's is
3) the smallest at which fast jobs overtake at all and must stop; two fast jobs
can then exceed it.  A wrapper kill is counted separately from a runner kill
because their effects differ.  One failing operation meets each of those that
can fail, after and before a kill.  Queue runs end when all clients are served or
dead, so deadlock is not checked there.

In the guard run three emissions through a registry of two make the ring drop
one, and let the same text be there twice, once consumed by each call; the
second run is the one after a crash.  Two debts, of one run or of two, are what
it takes to pay the wrong one; `MaxWork` keeps three emissions and two debts from
coming together.  A hook that has to book a debt beyond `MaxDebt` can only die.

In `gate_docs` the twenty lines are one of each kind that some scanner treats
on its own (headers with and without markers, rows with every combination that
matters); five lines hold a phase, its status, a header, and a row before or
after another phase or header, which is where scopes leak.  Two phases of one
heading that both matter take more lines; the proofs have them.  The documents of
`pipeline` are the three shapes on which its steps differ: rows under a
verification header without a marker, two phases with a marked row, one plain
row.  Its environments are chosen so that each test of the router's lists is
reached in one of them: cloud, device, structural skip, spike, parking, each
answer of the capability probe, each sentinel that may be there from the start,
and three of those for bugs.  A spike cap of 2
(the code's is 3) is the smallest at which a round may fail and be repeated.

In `walk` three items are a head, one behind it that waits for the third, and
the third, which may be worked ahead; `Cap = 1` makes the budget guard trip
after one cycle, `MaxForward = Cap + MaxTroubles` is where counts stop to matter
(an assumption of the module).  Two troubles put two items off in different
ways in one walk, which is what the terminals have to get right.  Four faults in
`archive` are a held file, a failed attempt, another one, and a kill.  Deadlock is not checked
where a work item or a document may be finished.

### Fairness

`CoordLock!FairSpec`: each process that has called acquire_lock or holds the
lock takes its next step, and time passes.  `OrphanCleared` assumes besides, in
its own premise, that somebody keeps looking at the lock: a caller gives up
after its time-out and nothing in the code calls again.  A directory whose
`owner.json` could not be unlinked is no orphan while the process it names lives:
nobody gets past that one, and nothing is claimed of it.

`BuildQueue!FairSpec`: strong fairness of each wrapper and each runner, because
a process can be held up for a moment by another one's short section, again and
again, and an operating system does not let that starve it.

`BuildOutcome!Spec`: the runner and the wrapper each take their next step (weak).

`FeaturePipeline!FairSpec`: the orchestrator's loop probes, and applies or runs
what it is told (weak).  A skill that is run again and again gets its work done
now and then (strong): without that a feature on which no agent ever succeeds
refutes everything.  Nothing is assumed of people, of the host, or of drift.

`QueueWalk!FairSpec`: the loop probes when it has no answer and ends the cycles
it started.  A worker need not get anywhere: NoMonopoly is about exactly that.

`BugArchive!FairSpec`: a call goes on, and an archive that was reported partial
is called again, as the skill says.  Nobody is known to call again after a kill,
so nothing is claimed of that.

Nothing is assumed anywhere of kills, failing writes or arrivals.

## 4. Proofs

`LeasesProofs` (for every set of workers, items and slots, every TTL, clock and
token bound): `TypeCorrect`, and the four properties of run `leases` as
`OneHolder`, `ZombiesStayFenced`, `LeasesAreHonoured` and `Refinement`.

OneHolderPerToken is not inductive: between its two writes a worker holds a
copy of `leases.json` from which entries are gone.  `IInv` adds that exactly the
lock's holder is between the writes (`LockInv`), that its copy differs from the
file only in entries whose tokens the watermark file already has, for a reason
(`CommitInv`), that no carried token exceeds what the two files remember
(`HeldInv`), and how the recorded time relates to the real time of the write
(`TimeInv`), which for a grant may be `LockTimeout + Pause` later.
`Top(i)`, the larger of the entry's token and the watermark, is what the
refinement maps to the abstract highest token: every retire step leaves it
alone, and only a commit of acquire_lease raises it, by one.

`CoordLockProofs` (for every set of processes and every bound on deaths):

* `LockTypeCorrect`, `Mutex`, `NoOrphans`: under `Sound`, until a false reclaim
  the directory at the path was made by whoever behaves as its owner, and
  `owner.json` names its maker, and its maker is between mkdir and rmdir, dead, or
  has raised out of release_lock.
* `BenignMutex`: without deaths, stalls beyond the grace age and failing
  operations (`Benign`) the lock is a mutex outright (`AtMostOneHolder`); `Protected` is the
  invariant that a directory without `owner.json` stays fresh from before a
  contender looks until it has looked.

The two meet in the lock variable of `Leases`: its assumption is `Mutex` without
its exception.

`BuildQueueProofs` (for every set of clients, every threshold, every number of
kills and failing operations): `QueueTypeCorrect`, and

* `NumbersAreUnique`, while `seq.counter` can be read (`~Unreadable`).  The counter
  is emptied before it is written, so it is not always above the numbers drawn:
  `NumberInv` says that it is whenever somebody may read it, because its lock is
  free or a reader has it; that only a wrapper with the lock allocates; and that
  what it is about to write is above all that were drawn (`Drawn`).  A wrapper
  that dies in between keeps the lock for ever.
* `OneBuildAtATime` assumes `~Slow`, `WrapperKills = 0` and `Faults = 0`: then `Owns`
  ties the place of each wrapper to what `active.lock` says and to whether its
  runner lives, and `OneBody` that only one wrapper is between creating the lock
  and writing it.  No assumption can go: a kill of the wrapper between
  Start-Process and the rewrite refutes OneBuild (section 5).
* `HeavyJobsAreNotStarved`, under the same assumptions, because it needs the lock to
  be one: `passes` counts the fast claims since the last heavy one, but a claim
  writes the count steps after it took the lock, so `CountInv` says which wrapper
  still owes its write (`Pending`) and that the count is right when none does
  (`Settled`).  The promise in the code is "after K consecutive fast-lane claims"
  (`build-queue.ps1:328`); with two heavy jobs a given one may be overtaken more
  than K times in all.
* `JobsAreServedInTurn`, for `~Slow` and any kills and failures: `PollInv` says that a
  wrapper that polls has its ticket, which only a dead wrapper loses, and that
  what a poll has read of the tickets still holds when it claims (`Fresh`).

`QueueWalkProofs` (for every queue without repetition, every dependency graph,
cap, and set of run kinds, features and bugs): `WalkTypeCorrect`, `StopsWhenDone`,
`CompletionIsTrue`, `DependenciesFirst`, `FinishLine`.  The walk is a search for a
first element, so `LeastNumber` (every non-empty set of numbers has a least one)
is proved first, from the library's fact that strict inclusion of finite sets is
well founded.  `ProbeStandsByIt` says that the maps a probe writes back do not
change any verdict.  DepsFirst is not inductive, because the flush takes a
deferred feature back without a look at its dependencies; `IInv` adds that a
feature that had a cycle in this run had its dependencies complete, and a receipt
stays (`CycledInv`), and that what is dispatched has them (`DispatchInv`).

`FeaturePipelineProofs` (for every document a planner may write, every
environment and any number of crashes, drifts, tests and spike rounds):

* `ClaimHasReceipt`.  The strengthening `ReceiptFirst` says that where the write of
  SPEC.md is still to come, that of the receipt comes before it or is done.
* `ReceiptsAreEarned`.  The hazard is the way from VALIDATED.md to the receipt:
  workers and drifts go on meanwhile, `/mcp-test` may run again and fall short, or
  leave a skip that only the pipeline granted, and VALIDATED.md stays.  `EarnedInv`
  says why that is caught: such a validation waits for a device or still has a
  verification row that this host could test (`ValidationStands`), so step 10
  re-routes it; and what the router said stays true until it is done
  (`AnswerStands`, `WritingStands`).  It rests on three things.  `RouteIsGrounded`
  goes through all tests of the router in their order, of a feature and of a
  bug: what each answer takes for granted.  `CollectedIsExempt`: each row the scan
  for uncovered verification rows collects is one the router holds exempt, so that a
  worker, who ticks and drops other rows only, leaves it (`WorkKeepsTestable`); it
  comes from the lemmas of `CompletionGateProofs`, which are used through an
  instance of that module.  `TestableRemain`: without passed tests to count, the
  re-route asks for exactly those rows.
* `ClosedFeaturesOweNothing`.  The hazard is what happens to PHASES.md around and
  after the receipt: rows are still ticked, dropped and marked, and a gate that
  died may run again.  `ClosedInv`: the gate closes the document, in the sense of
  `Closed` (no row is open but those let go and those of RUNTIME_GATES.md), before
  it writes the receipt (`CompletionStands`), and `GateCloses`, `FlipTopKeeps` and
  `WorkKeeps` say that no later write opens it again.  The hypothesis `Templated` is
  on the documents that planners write: a phase states its status below its header;
  no two phases have the same heading, by which the gate finds what it flips; the
  first status line is not a Superseded phase's (else the gate revives that
  phase, see CoherentWithTopStatus in section 5); no row is both dropped and for
  verification (`DoubleDiscount`).  The documents of the run satisfy it.  The last
  part does not stay true as it is, because a tester may mark a dropped row:
  `SkipStands` says that where the structural skip lets the gate count such rows,
  no `/mcp-test` runs.  The other gaps of section 5 need no exception here.
* `RoutedStepsAreAccepted`.  The hazard is a step that the router names and the
  pseudo-skill refuses, at every probe anew.  `AcceptedInv` says what the router
  read and that it still stands when the pseudo-skill reads it (`AnswerHolds`):
  what sends an item to the gate (`Sendable`) survives ticks that fail to cover
  everything (`TickedOut`), and is what the flip of the phases finds
  (`WritingHolds`).  `RefusalIsGap` is then `SentIsAccepted` of the gate, through
  the instance.  `HostStands` says that where no `/mcp-test` runs there are no
  results and no skip but the structural one.  The hypothesis `GapFree` is on the
  documents that planners write: their status lines stand below the headers, and
  none has a gap of the gate (section 5) that its text alone makes: an open phase
  without a row, a row for another host, a dropped row that the auto-tick takes,
  a phase that only the router takes for superseded, an open box written `[]`, two
  phases of one heading.  It has to be shown of every
  later document up to the receipt (`DocHolds`): `WorkKeepsNoGap`, `TicksKeepSent`
  and `FlipsKeepNoGap` of `CompletionGateProofs` say that what workers, ticks and
  flips do to a document makes none.  The documents of the run satisfy GapFree,
  and TLC finds no state of it outside `AcceptedInv`.

`DispatchGuardProofs` (for any number of calls, prompts, runs, emissions and
debts and any cap of the registry) has two invariants.

* `AnyInv` holds whatever overlaps: types (`GuardTypeCorrect`: the registry never
  grows past its cap, although every writer appends to what it read earlier),
  and what a bystander's call may see.  From it `NobodyElseBinds` and
  `BystandersOweNothing`.
* `SerialInv` is for `~Overlap`, one hook or command at a time, which is what the
  comments of the guard assume of a session; section 5 says what overlap does.
  `TableInv`: registry numbers rise, a consumed entry was taken by the call it
  names, and what a call took is in the registry under its name or has left it.
  `PaidInv`: an emission that paid was taken, and the debt it paid is
  acknowledged.  `HookInv`: what a hook read is still so when it writes.  From it
  `OneDispatch`, `DebtsArePaidOnce`, `RefireStands`, `WorkersAreDispatched`,
  `OnlyOwnRun`.

`BugArchiveProofs` (for any number of faults): `ArchiveTypeCorrect`,
`ArchiveIsCommitted`, `FixedForEveryone`.  `IInv` says where the three files can be
(`Placed`, `Single`), what a call that has come to a step has done (`Progress`),
that the files are together unless a move ended half way (`Together`), what HEAD
has of them under the bug's own name and under a dated one (`OwnName`,
`OtherName`), what it has of the references (`Refs`), and when the emptied
directory is gone (`Gone`).  The exceptions are causes, not outcomes: each conjunct
is conditioned on the steps in which earlier calls ended (`mishaps`), and the
proof is that no other history leads to a torn or uncommitted archive.

`CompletionGateProofs` (for every document of lines in `Line` and any number of
tests): `NoDeliverableIsTicked`, `CompletedStaysCoherent`,
`CompletedOwesNothing`, `SentIsAccepted`.  `GateInv` is short: a document has the
template's shape, what was sent was found done and covered, and a ledger holds
what the gate would list now.  The work is in what the scanners compute on
*every* document.  They are recursive functions over lines.  `SetInduction` (a
set that has 0 and with a number its successor has every number) and `Recursion`
do induction with sets in place of predicates: `RouterScan` to `CoverScan` say
that each scanner has a scope at every line and steps from one to the next, and
`ScannersAgree` says how the scopes of all five are related at every line of
every document (`Agree`: the router's superseded is the auto-tick's and the
cover's, and the ledger's implies it; its verification is parse_phases' and the
cover's; and so on, with an implication wherever the code really differs).
`TicksKeepScopes` and `ValuesKeepParse` say that ticking rows and rewriting
values moves no scope; a flip by heading is taken apart into the phases that are
planned and their `Namesakes`; `OwedCounts` relates the gate's count per phase to the
rows it stands for.  CompletedStaysCoherent and CompletedOwesNothing except a
document in which a Superseded phase has the heading of another one
(`SupersededTwin`): the code wakes it.  Two of the gaps of section 5, `SupersededInWord` and
`DoubleDiscount`, were found by these proofs and then by TLC, when lines for them
were added to the run.

Only model-checked: everything under fairness (OrphanCleared, EveryoneServed,
OutcomeTold, InterruptedIsResumed, Served, NoMonopoly, Resumes), and `BuildOutcome`.
Every other property of a passing run is proved.  The type invariants of `Leases`,
`CoordLock`, `BuildQueue`, `DispatchGuard`, `QueueWalk` and `BugArchive` are proved and
not run; `AtMostOneHolder` likewise.

## 5. What the runs say about the code

1. *The reclaim of the directory lock races* (`lock_reclaim_race`): "exactly one
   reclaimer ever wins" (`lazy_coord.py:411`) holds for one directory, not for the
   path.
2. *A partial archive is not safe to re-run* (`archive_rerun`), against
   `gates.py:2527`.  In the run the first attempt moves the bug to the dated name
   and ends; the second takes the earlier bug's directory for its own and reports
   ok, and the moved files are in no commit.  RerunIsSafe has two more parts, each
   false by itself: after a fallback that left files behind, the rest goes to
   another archive ("resolve the locks and re-run", `gates.py:2741`: RerunMakesWhole);
   and references that an earlier attempt repointed are not staged again
   (`gates.py:2827`: RerunCommitsReferences).

### Stated in a module, false, and in no run

Each quotes what the repository says of the code, and each can be named in the
given configuration to see TLC's counterexample.

Build queue:

* `SeqUnique` with `Unreadable = TRUE` (`bq_slow.cfg`): "Sequence numbers are unique
  and strictly increasing" (`docs/specs/build-queue/SPEC.md:96`), but a failed read
  of `seq.counter` counts as 0 (`build-queue.ps1:175`), and the next job draws 1
  again.
* `HeldWhileBuilding` (`bq_safe.cfg` with `WrapperKills = 1`): "`active.lock` records the
  detached build's PID, not the client's" (SPEC.md:99), but until the rewrite it is
  the wrapper's (`build-queue.ps1:552`); killed in between, it leaves a build under
  a lock that the next waiter reclaims, and `OneBuild` is false too.
* `NeverWedged` (`bq_slow.cfg`, a PROPERTY): a truncated active.lock is tolerated
  "rather than wedging the queue" (SPEC.md:165), but an empty one, left by a wrapper
  killed between CreateNew and the write (`build-queue.ps1:394`), is unknown for
  ever and never reclaimed.
* `CounterLockIsTransient` (`bq_slow.cfg`, a PROPERTY): a "transient exclusive-open
  lock" (`build-queue.ps1:30`), but one that a killed wrapper left stays.
* `KillLeavesResult` (`outcome.cfg`): "A kill anywhere from here down leaves the
  truthful early result above" (`build-queue-runner.ps1:423`), but the fallback of
  the final write empties the file first (line 499).
* `AwaitIsTruthful` (`outcome.cfg`): 125 for a result that "carries no exit_code"
  (`build-queue-await.ps1:29`), but `[int]$null` is 0 (line 210), so a build that
  could not be started is heard as PASS.

Guard:

* `HardeningPaysThisRun` (`guard.cfg`): a crashed run's debt "no longer forces the NEXT
  run to dispatch a hardening round" (`ledgers.py:1616`), but a hardening dispatch
  pays the oldest debt of any run (`ledgers.py:3359`), and the live run's own stays.
* `RefireNeverPays` (`guard.cfg`): "never on an idempotent re-fire" (`lazy_guard.py:448`),
  but the guard looks for a fresh emission of the prompt before it looks for the
  caller's own consumed one, so a hook that fires again may take a second emission
  and pay a second debt.
* `OneDispatchPerEmission` with `Overlap = TRUE` (`guard.cfg`): two hooks both let a call
  pass with the same emission; the registry is read, changed and replaced without
  a lock.

Router, gate and walk:

* `StaleEvidenceIsRerun` (`pipeline.cfg`): "a refuse verdict (forged / stale / missing
  results) yields 0 so every candidate row is treated as uncovered"
  (`gates.py:1189`), but a refusal for drift keeps its `pass_count`
  (`gates.py:532-545`), so the feature is sent to the gate, refused, and sent again,
  and not to `/mcp-test`.
* `InterruptedCompletionResumes` (`pipeline.cfg`): the evidence test comes before
  the test for a receipt (`pseudo.py:1067`), so a call that died after it removed
  VALIDATED.md is refused ever after.  By then SPEC.md says Complete, no probe
  asks again, and only the queue and roadmap entries stay behind.
* `FlipsPlannedOnly` (`gate_docs.cfg`, a PROPERTY): the flips rewrite the status "inside each
  to-be-flipped phase's section" (`pseudo.py:1327`), but a phase is found by its
  heading's text (1332, 1346), so a Superseded phase of the same heading becomes
  Complete, and its open rows are rows of a phase that is Complete.
* `CoherentWithTopStatus` without its condition `HasTopStatus` (`gate_docs.cfg`): a
  PHASES.md without a top-level status whose first phase is Superseded is
  rewritten to Complete with its boxes open (`pseudo.py:1470`); a second pass
  through the gate would refuse it.
* `GraceIsOneShot` (`walk.cfg`): "exactly ONE grace cycle past the ceiling for a
  near-complete feature, then the guard re-asserts"
  (`docs/bugs/_archive/budget-guard-defers-near-complete-feature/PHASES.md:15`), but a
  grant is recorded nowhere (`lazy-state.py:2607`), so it is given again and again.

Leases and archive:

* `DistinctSlots` (`leases.cfg`): acquire_lease stores the slot its caller chose
  (`lazy_coord.py:568`), so two workers that picked the same free slot both get
  it.
* `ArchivedIsComplete` (`archive.cfg`): dependents look in `docs/bugs/_archive/<id>`
  (`depdag.py:382-384`), never under the dated name, so what depends on a fixed bug
  is refused if an earlier bug of its name was closed without a fix.

### Gaps between the router and the gate

RouterAgreesWithGate and RoutedIsAccepted name them; the first six are visible in a
document.  In each the router sends the item to the gate, the gate refuses, and
the next probe sends it again:

* a phase without a checkbox whose status is not terminal (`EmptyOpenPhase`);
* a verification row for another host (`HostRow`);
* a verification row that was dropped, which the auto-tick counts and the router
  does not (`DroppedCheck`);
* a phase that the router takes for superseded and the gate does not
  (`SupersededInWord`): its status is "Superseded by ..", which the router finds
  by the word and the gate compares whole (`docmodel.py:1531`, `2263`), or it has
  no number and stands below a Superseded one, which ends its scope for the gate
  only (`docmodel.py:1507`);
* a row under a verification header without the marker, under a structural skip,
  where no `/mcp-test` can run that would add it (`UnmarkedCheck`);
* an open row written `[]`, which the router exempts and the gate's pattern does not
  see as a row to tick (`TightCheck`; `docmodel.py:1157`, `gates.py:878`);
* results with an observation gap, which exempt the file but tick no further row;
* a RETRO_DONE.md older than the phases, or an outstanding gate verdict, at which
  the router does not look;
* results of other code (StaleEvidenceIsRerun, above).

The exemption under a structural skip takes a row that is both dropped and a
verification off its phase's count twice (`DoubleDiscount`,
`docmodel.py:2275-2285`), so that another row of the phase may stay open and be
listed nowhere.

A comment says the gate "REFUSES with ZERO writes"; by then the auto-tick and
`RUNTIME_GATES.md` have been written (`CompletionGate!Refuse`).

### The walk

* A feature may be evicted although it never had a turn after its defer
  (`lazy-state.py:2647`): every walk past it counts.
* A near-complete feature with a BLOCKED.md is not near complete for the guard,
  and is evicted.
* The terminal all-deferred is given whenever something is deferred by the
  operator, also when others are parked or wait for dependencies.
* The end-of-run flush takes an item back without the dependency gate; it is
  sound because of `CycledInv`.

### Bugs

* bug-state.py has no flip of a plan the cloud has saturated, which the skill
  text promises; in the cloud such a bug goes to execute-plan again.
* A bug in the queue whose SPEC.md says Superseded is not skipped by compute_state,
  as it is by the scan of the disk (`bug-state.py:739`), and goes to the
  investigation.
* A comment at `bug-state.py:1697` says SPEC.md is guaranteed to exist; for a row
  of the queue it is not.

### The archive

ArchivedIsCommitted, SeenAsFixed and Resumes say in their texts which earlier
mishaps they except; what happens there:

* A fallback that stopped half way leaves files in two directories.  A commit of
  that deletes the first part from HEAD, and a second call archives the rest
  elsewhere; meanwhile the router may find the bug unfinished.
* A call that ended after the move to the dated name is resumed at the plain name,
  which is the earlier bug.
* An emptied directory that could not be removed (`gates.py:2746-2751`), or that
  BLOCKED.md made again, hides the archive from the dependents.
* A dated archive next to an earlier Won't-fix of the same name makes its
  dependents BLOCKED.
* Empty directories of failed attempts use up both names until the next day.
* Nothing calls again after a kill, and the consistency check finds no queue row
  whose directory was moved.

### The guard

Only an exact copy is idempotent.  When the hook fires again for a call that was
allowed by reference, the second firing is denied and books a debt; for a call
that was allowed with a suffix it is denied as well, and under a bound marker it
books a debt unless the suffix is short enough to count as a slip.  An exact
copy of a text that was emitted twice takes the second emission when its hook
fires again, and if it is of class hardening it pays a second debt.  A cycle
marker that a crashed run left is not cleared by the next `--run-start`: if its
emission had been dispatched, and the registry is still there, the exemption
for that cycle's worker is open until the next `--cycle-begin`.

### Read while planning, not modelled

The ledger functions of the lanes take the global lock, which is not re-entrant,
and their callers may hold it (`lazy_coord.py` 1036-1047 and 1160-1214).  A
checkpoint does not carry the budget maps, so a resumed run forgets its defers
and evictions (`markers.py:733`).

## 6. Not modelled, and the plan

Not modelled because it is text, or one process with no state that another part
reads: reports and lint tools, prompt injection, build hygiene, the status
readers of the build queue, the runtime plane, the state directory.  Of the
state machines: the order in which bugs are found on the disk, the terminals for
a missing queue or a scoped id, malformed entries, the subcommands that write
queue rows.  Of the document model: code fences, plan and sentinel parsing below
the fields the router reads, the rewriting of documents other than PHASES.md and
SPEC.md.  Of the gates: the content of verdicts and the capability probe, whose
answers are part of `env`.  The long test functions inside lazy-state.py and
bug-state.py are no part of the system.

Next, in this order:

1. `Lanes`: slots with their worktrees, claim_shardable, the ledger and the
   merge-back over the leases, a crash between merge and ledger entry, the
   non-re-entrant lock.
2. `RunMarker`: start, bind, clobber refusal, checkpoint and resume with a
   crash between unlink and restore.
3. `ItemLockPs1` (a refinement of the same abstract lock as `CoordLock`),
   `NotifyHalt`, and the pure algorithms of `depdag.py` against reference
   definitions.
4. `FeaturePipeline` as a refinement of one item of `QueueWalk`: the stage of an
   item is a function of its files.
