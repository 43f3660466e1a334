----------------------------- MODULE CoordLock ------------------------------
(***************************************************************************)
(* The global directory lock of user/scripts/lazy_coord.py: acquire_lock,  *)
(* release_lock, and the reclaim of a dead holder's lock.                  *)
(*                                                                         *)
(* One action is one file operation.  The lock is the existence of a       *)
(* directory; the maker writes owner.json into it after making it; and     *)
(* every operation names the directory by its path, so it hits whatever    *)
(* directory is there at that moment, the process's own or not.            *)
(***************************************************************************)
EXTENDS Naturals, FiniteSets

CONSTANTS
  Proc,          \* processes that take the lock
  NoProc,
  MaxDead,       \* bound: how many of them may die
  Slow,          \* may a live process be delayed, between two file
                 \* operations, for longer than the grace age?
  MaxFaults      \* bound: how many file operations or probes may fail

ASSUME CoordLockAssumption ==
  /\ NoProc \notin Proc
  /\ MaxDead \in Nat
  /\ Slow \in BOOLEAN
  /\ MaxFaults \in Nat

VARIABLES
  maker,         \* who made the directory at the path; NoProc: no directory
  owner,         \* whom its owner.json names; NoProc: no readable owner.json
  fresh,         \* is its mtime within grace_seconds?
  litter,        \* does it hold the temp file of a failed owner.json write?
  surfaced,      \* did its maker's release_lock raise OSError?
  pc,            \* the next file operation of each process
  faults,        \* operations and probes that failed so far
  falseReclaim   \* ghost: a directory was renamed away from a live owner

dir  == <<maker, owner, fresh, litter, surfaced>>
vars == <<dir, pc, faults, falseReclaim>>

Acquiring == {"mkdir", "read", "stat", "rename", "wait"}

\* Between its mkdir and its rmdir a process owns the directory.
Owning == {"write", "cs", "unlink", "rmdir"}

Dead(p) == pc[p] = "dead"

Goto(p, label) == pc' = [pc EXCEPT ![p] = label]

\* A process goes on and leaves the path alone.
Pass(p, from, to) ==
  pc[p] = from /\ Goto(p, to) /\ UNCHANGED <<dir, falseReclaim>>

\* An operation fails, or a probe is inconclusive.
Fault == faults < MaxFaults /\ faults' = faults + 1

Init ==
  /\ maker = NoProc
  /\ owner = NoProc
  /\ fresh = FALSE
  /\ litter = FALSE
  /\ surfaced = FALSE
  /\ faults = 0
  /\ pc = [p \in Proc |-> "idle"]
  /\ falseReclaim = FALSE

-----------------------------------------------------------------------------
(* acquire_lock *)

Acquire(p) == Pass(p, "idle", "mkdir") /\ UNCHANGED faults

\* Mutant: mkdir with exist_ok.
MkdirExistOk(p) ==
  /\ pc[p] = "mkdir"
  /\ maker' = p /\ owner' = NoProc
  /\ fresh' = TRUE /\ litter' = FALSE /\ surfaced' = FALSE
  /\ Goto(p, "write")
  /\ UNCHANGED <<faults, falseReclaim>>

Mkdir(p) ==
  /\ pc[p] = "mkdir"
  /\ maker = NoProc
  /\ maker' = p /\ owner' = NoProc
  /\ fresh' = TRUE /\ litter' = FALSE /\ surfaced' = FALSE
  /\ Goto(p, "write")
  /\ UNCHANGED <<faults, falseReclaim>>

FileExists(p) == maker # NoProc /\ Pass(p, "mkdir", "read") /\ UNCHANGED faults

\* _write_lock_owner replaces owner.json in the directory now at the path.
WriteOwner(p) ==
  /\ pc[p] = "write"
  /\ maker # NoProc
  /\ owner' = p /\ fresh' = TRUE /\ litter' = FALSE
  /\ Goto(p, "cs")
  /\ UNCHANGED <<maker, surfaced, faults, falseReclaim>>

\* The write fails, before or after its temp file is there, and the failure is
\* swallowed: the caller holds the lock.
WriteFails(p) ==
  /\ pc[p] = "write"
  /\ \/ maker = NoProc /\ UNCHANGED <<fresh, litter, faults>>
     \/ maker # NoProc /\ Fault /\ UNCHANGED <<fresh, litter>>
     \/ maker # NoProc /\ Fault /\ fresh' = TRUE /\ litter' = TRUE
  /\ Goto(p, "cs")
  /\ UNCHANGED <<maker, owner, surfaced, falseReclaim>>

-----------------------------------------------------------------------------
(* _maybe_reclaim_stale_lock *)

\* Mutant: a recorded owner is waited for, dead or not.
ReadOwnerTrusting(p) ==
  /\ Pass(p, "read", IF owner = NoProc THEN "stat" ELSE "wait")
  /\ UNCHANGED faults

\* Read owner.json: none, or naming a confirmed-dead process, or a live one.
ReadOwner(p) ==
  /\ Pass(p, "read", IF owner = NoProc THEN "stat"
                      ELSE IF Dead(owner) THEN "rename" ELSE "wait")
  /\ UNCHANGED faults

\* owner.json is there and cannot be read, which counts as none; or it was read
\* and the probe of its process cannot tell, which counts as alive.
ReadFails(p) == owner # NoProc /\ Fault /\ (Pass(p, "read", "stat") \/ Pass(p, "read", "wait"))

\* No owner.json was read: only a directory past the grace age is stale.
StatDir(p) ==
  /\ Pass(p, "stat", IF maker # NoProc /\ ~fresh THEN "rename" ELSE "wait")
  /\ UNCHANGED faults

\* _rename_then_remove takes away the directory now at the path, which need
\* not be the one that was found stale.
Rename(p) ==
  /\ pc[p] = "rename"
  /\ maker # NoProc
  /\ falseReclaim' = (falseReclaim \/ pc[maker] \in Owning)
  /\ maker' = NoProc /\ owner' = NoProc
  /\ fresh' = FALSE /\ litter' = FALSE /\ surfaced' = FALSE
  /\ Goto(p, "mkdir")
  /\ UNCHANGED faults

\* The directory is gone, or held open by a reader.
RenameLost(p) ==
  /\ IF maker = NoProc THEN UNCHANGED faults ELSE Fault
  /\ Pass(p, "rename", "wait")

\* Sleep and try again, or raise TimeoutError.
Retry(p) == Pass(p, "wait", "mkdir") /\ UNCHANGED faults

Timeout(p) == Pass(p, "wait", "idle") /\ UNCHANGED faults

-----------------------------------------------------------------------------
(* release_lock *)

Leave(p) == Pass(p, "cs", "unlink") /\ UNCHANGED faults

Unlink(p) ==
  /\ pc[p] = "unlink"
  /\ owner' = NoProc
  /\ fresh' = (fresh \/ owner # NoProc)
  /\ Goto(p, "rmdir")
  /\ UNCHANGED <<maker, litter, surfaced, faults, falseReclaim>>

\* The unlink fails, which is swallowed: owner.json stays.
UnlinkFails(p) == owner # NoProc /\ Fault /\ Pass(p, "unlink", "rmdir")

\* os.rmdir succeeds, or the directory is gone already.
Rmdir(p) ==
  /\ pc[p] = "rmdir"
  /\ owner = NoProc /\ ~litter
  /\ maker' = NoProc
  /\ fresh' = FALSE /\ surfaced' = FALSE
  /\ Goto(p, "idle")
  /\ UNCHANGED <<owner, litter, faults, falseReclaim>>

\* Mutant: the failure of os.rmdir is swallowed as that of the unlink is.
RmdirSwallowed(p) ==
  /\ pc[p] = "rmdir" /\ maker # NoProc
  /\ IF owner # NoProc \/ litter THEN UNCHANGED faults ELSE Fault
  /\ Goto(p, "idle")
  /\ UNCHANGED <<dir, falseReclaim>>

\* The directory is not empty, or held open: OSError out of release_lock.
RmdirFails(p) ==
  /\ pc[p] = "rmdir" /\ maker # NoProc
  /\ IF owner # NoProc \/ litter THEN UNCHANGED faults ELSE Fault
  /\ surfaced' = TRUE
  /\ Goto(p, "idle")
  /\ UNCHANGED <<maker, owner, fresh, litter, falseReclaim>>

-----------------------------------------------------------------------------
\* A process is killed, perhaps amid its write, and stays dead.
Crash(p) ==
  /\ pc[p] \in Acquiring \cup Owning
  /\ Cardinality({q \in Proc : Dead(q)}) < MaxDead
  /\ litter' \in {litter, litter \/ (pc[p] = "write" /\ maker # NoProc)}
  /\ Goto(p, "dead")
  /\ UNCHANGED <<maker, owner, fresh, surfaced, faults, falseReclaim>>

\* The directory's mtime falls out of the grace age.
GraceElapses ==
  /\ maker # NoProc
  /\ fresh
  /\ Slow \/ \A p \in Proc : pc[p] \notin {"write", "rmdir", "stat"}
  /\ fresh' = FALSE
  /\ UNCHANGED <<maker, owner, litter, surfaced, pc, faults, falseReclaim>>

\* What a process does next once it has called acquire_lock.
Proceed(p) ==
  \/ Mkdir(p) \/ FileExists(p) \/ WriteOwner(p) \/ WriteFails(p)
  \/ ReadOwner(p) \/ ReadFails(p) \/ StatDir(p) \/ Rename(p) \/ RenameLost(p)
  \/ Retry(p) \/ Timeout(p)
  \/ Leave(p) \/ Unlink(p) \/ UnlinkFails(p) \/ Rmdir(p) \/ RmdirFails(p)

Next ==
  \/ GraceElapses
  \/ \E p \in Proc : Acquire(p) \/ Proceed(p) \/ Crash(p)

Spec == Init /\ [][Next]_vars

\* Processes run and time passes: a live process takes its next step, so it
\* leaves the critical section and its waits end.
Fairness ==
  /\ \A p \in Proc : WF_vars(Proceed(p))
  /\ WF_vars(GraceElapses)

FairSpec == Spec /\ Fairness

-----------------------------------------------------------------------------
(* Properties. *)

TypeOK ==
  /\ maker \in Proc \cup {NoProc}
  /\ owner \in Proc \cup {NoProc}
  /\ fresh \in BOOLEAN
  /\ litter \in BOOLEAN
  /\ surfaced \in BOOLEAN
  /\ faults \in 0 .. MaxFaults
  /\ pc \in [Proc -> {"idle", "dead"} \cup Acquiring \cup Owning]
  /\ falseReclaim \in BOOLEAN
  /\ maker = NoProc => owner = NoProc /\ ~fresh /\ ~litter /\ ~surfaced

\* The lock is a mutex: acquire_lock has returned to at most one live process
\* that has not begun to release.
AtMostOneHolder ==
  \A p, q \in Proc : pc[p] = "cs" /\ pc[q] = "cs" => p = q

\* Only a false reclaim can break the mutex: the rest of the protocol, with
\* its unlocked reads, lost renames, crashes and failed writes, does not.
MutexUnlessFalseReclaim == ~falseReclaim => AtMostOneHolder

\* "A genuine problem surfaces at rmdir" (lazy_coord.py:498): while failures of
\* the write and the unlink of owner.json are swallowed, a directory outlives
\* its maker's release only if release_lock raised; else it is there only while
\* a live process is between mkdir and rmdir, or because that process died.
\* (Unless a false reclaim came first.)
NoOrphanLock ==
  ~falseReclaim /\ maker # NoProc => pc[maker] \in Owning \cup {"dead"} \/ surfaced

\* "Exactly one reclaimer ever wins" (lazy_coord.py:411-412) and a live holder
\* is never evicted: the directory renamed away is no live owner's.
NoFalseReclaim == ~falseReclaim

\* owner.json names a dead process, or there is none and the directory's maker
\* is dead or has given it up.
Orphan ==
  /\ maker # NoProc
  /\ IF owner = NoProc THEN pc[maker] \notin Owning ELSE Dead(owner)

\* An orphaned lock blocks nobody for ever: while processes keep coming for the
\* lock, and not every look at it fails, the directory goes away (acquire_lock,
\* lazy_coord.py:455-458).  A directory whose owner.json could not be unlinked
\* is no orphan while the process it names lives: nobody gets past that.
OrphanCleared ==
  ([]<>(\E p \in Proc : pc[p] = "read")) => (Orphan ~> ~Orphan)

-----------------------------------------------------------------------------
(* Why MutexUnlessFalseReclaim holds: the strengthening proved inductive in *)
(* CoordLockProofs.                                                        *)

\* The directory at the path was made by whoever behaves as its owner.
OwnInv == \A p \in Proc : pc[p] \in Owning => maker = p

\* owner.json names the directory's maker, and not before the maker wrote it.
OwnerInv ==
  /\ owner \in {NoProc, maker}
  /\ \A p \in Proc : pc[p] = "write" => owner = NoProc

IInv == TypeOK /\ (~falseReclaim => OwnInv /\ OwnerInv) /\ NoOrphanLock
=============================================================================
