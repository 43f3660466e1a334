-------------------------- MODULE CoordLockProofs ---------------------------
(***************************************************************************)
(* Proofs about CoordLock, for every number of processes, deaths and       *)
(* failing operations, with or without slow processes.                     *)
(***************************************************************************)
EXTENDS CoordLock, FiniteSetTheorems, TLAPS

USE CoordLockAssumption

\* Nothing is there at first.
LEMMA InitTypeOK == Init => TypeOK
<1>. SUFFICES ASSUME Init  PROVE TypeOK
  OBVIOUS
<1>1. pc \in [Proc -> {"idle", "dead"} \cup Acquiring \cup Owning]
  BY DEF Init
<1>2. faults \in 0 .. MaxFaults
  BY DEF Init
<1>. QED  BY <1>1, <1>2 DEF Init, TypeOK

\* Every file operation preserves the types, and a missing directory has
\* neither an owner.json nor an age.
LEMMA TypeStep == TypeOK /\ [Next]_vars => TypeOK'
<1>. SUFFICES ASSUME TypeOK, [Next]_vars  PROVE TypeOK'
  OBVIOUS
<1>. USE DEF TypeOK, Goto, Pass, Fault, Acquiring, Owning, dir
<1>1. CASE GraceElapses
  BY <1>1 DEF GraceElapses
<1>2. ASSUME NEW p \in Proc, Acquire(p) \/ Proceed(p) \/ Crash(p)  PROVE TypeOK'
  <2>1. CASE Acquire(p)
    BY <2>1 DEF Acquire
  <2>2. CASE Crash(p)
    BY <2>2 DEF Crash
  <2>3. CASE Mkdir(p)
    BY <2>3 DEF Mkdir
  <2>4. CASE FileExists(p)
    BY <2>4 DEF FileExists
  <2>5. CASE WriteOwner(p)
    BY <2>5 DEF WriteOwner
  <2>6. CASE WriteFails(p)
    <3>1. pc' \in [Proc -> {"idle", "dead"} \cup Acquiring \cup Owning]
      BY <2>6 DEF WriteFails
    <3>2. UNCHANGED <<maker, owner, surfaced, falseReclaim>> /\ faults' \in 0 .. MaxFaults
      BY <2>6 DEF WriteFails
    <3>3. CASE UNCHANGED <<fresh, litter>>
      BY <3>1, <3>2, <3>3
    <3>4. CASE maker # NoProc /\ fresh' = TRUE /\ litter' = TRUE
      BY <3>1, <3>2, <3>4
    <3>. QED  BY <2>6, <3>3, <3>4 DEF WriteFails
  <2>7. CASE ReadOwner(p)
    BY <2>7 DEF ReadOwner
  <2>8. CASE StatDir(p)
    BY <2>8 DEF StatDir
  <2>9. CASE Rename(p)
    BY <2>9 DEF Rename
  <2>10. CASE RenameLost(p)
    BY <2>10 DEF RenameLost
  <2>11. CASE Retry(p)
    BY <2>11 DEF Retry
  <2>12. CASE Timeout(p)
    BY <2>12 DEF Timeout
  <2>13. CASE Leave(p)
    BY <2>13 DEF Leave
  <2>14. CASE Unlink(p)
    BY <2>14 DEF Unlink
  <2>15. CASE Rmdir(p)
    BY <2>15 DEF Rmdir
  <2>16. CASE RmdirFails(p)
    BY <2>16 DEF RmdirFails
  <2>17. CASE ReadFails(p)
    BY <2>17 DEF ReadFails
  <2>18. CASE UnlinkFails(p)
    BY <2>18 DEF UnlinkFails
  <2>. QED  BY <1>2, <2>1, <2>2, <2>3, <2>4, <2>5, <2>6, <2>7, <2>8,
               <2>9, <2>10, <2>11, <2>12, <2>13, <2>14, <2>15, <2>16, <2>17, <2>18 DEF Proceed
<1>3. CASE UNCHANGED vars
  BY <1>3 DEF vars
<1>. QED  BY <1>1, <1>2, <1>3 DEF Next

\* A false reclaim is never forgotten.
LEMMA GhostStep == [Next]_vars /\ ~falseReclaim' /\ TypeOK => ~falseReclaim
BY DEF Next, vars, dir, Proceed, GraceElapses, Acquire, Crash, Mkdir, FileExists, WriteOwner,
       WriteFails, ReadOwner, ReadFails, StatDir, Rename, RenameLost, Retry, Timeout, Leave, Unlink,
       UnlinkFails, Rmdir, RmdirFails, Pass, TypeOK

\* The part of the invariant that holds until a live process's directory is
\* taken away.
Sound ==
  /\ TypeOK /\ OwnInv /\ OwnerInv
  /\ (maker # NoProc => pc[maker] \in Owning \cup {"dead"} \/ surfaced)

\* Every step other than a false reclaim keeps Sound.
LEMMA SoundStep ==
  ASSUME Sound, [Next]_vars, ~falseReclaim'
  PROVE  Sound'
<1>0. TypeOK /\ TypeOK'
  BY TypeStep DEF Sound
<1>. USE <1>0 DEF TypeOK, Goto, Pass, Fault, Acquiring, Owning, dir, OwnInv, OwnerInv, Sound
<1>1. CASE GraceElapses
  BY <1>1 DEF GraceElapses
<1>2. ASSUME NEW p \in Proc, Acquire(p) \/ Proceed(p) \/ Crash(p)  PROVE Sound'
  <2>1. CASE Acquire(p)
    BY <2>1 DEF Acquire
  <2>2. CASE Crash(p)
    BY <2>2 DEF Crash
  <2>3. CASE Mkdir(p)
    BY <2>3 DEF Mkdir
  <2>4. CASE FileExists(p) \/ RenameLost(p) \/ Retry(p) \/ Timeout(p) \/ Leave(p)
    BY <2>4 DEF FileExists, RenameLost, Retry, Timeout, Leave
  <2>5. CASE WriteOwner(p)
    BY <2>5 DEF WriteOwner
  <2>6. CASE WriteFails(p)
    BY <2>6 DEF WriteFails
  <2>7. CASE ReadOwner(p)
    BY <2>7 DEF ReadOwner
  <2>8. CASE StatDir(p)
    BY <2>8 DEF StatDir
  <2>9. CASE Rename(p)
    BY <2>9 DEF Rename, Dead
  <2>10. CASE Unlink(p)
    BY <2>10 DEF Unlink
  <2>11. CASE Rmdir(p)
    BY <2>11 DEF Rmdir
  <2>12. CASE RmdirFails(p)
    BY <2>12 DEF RmdirFails
  <2>13. CASE ReadFails(p) \/ UnlinkFails(p)
    BY <2>13 DEF ReadFails, UnlinkFails
  <2>. QED  BY <1>2, <2>1, <2>2, <2>3, <2>4, <2>5, <2>6, <2>7, <2>8, <2>9, <2>10,
               <2>11, <2>12, <2>13 DEF Proceed
<1>3. CASE UNCHANGED vars
  BY <1>3 DEF vars
<1>. QED  BY <1>1, <1>2, <1>3 DEF Next

\* The strengthening holds throughout.
LEMMA IInvAlways == Spec => []IInv
<1>1. Init => IInv
  <2>. SUFFICES ASSUME Init  PROVE IInv
    OBVIOUS
  <2>1. TypeOK
    BY InitTypeOK
  <2>. QED  BY <2>1 DEF Init, IInv, OwnInv, OwnerInv, NoOrphanLock, Owning
<1>2. IInv /\ [Next]_vars => IInv'
  <2>. SUFFICES ASSUME IInv, [Next]_vars  PROVE IInv'
    OBVIOUS
  <2>1. TypeOK'
    BY TypeStep DEF IInv
  <2>2. CASE ~falseReclaim'
    <3>1. Sound
      BY <2>2, GhostStep DEF IInv, Sound, NoOrphanLock
    <3>. QED  BY <2>1, <2>2, <3>1, SoundStep DEF IInv, Sound, NoOrphanLock
  <2>3. CASE falseReclaim'
    BY <2>1, <2>3 DEF IInv, NoOrphanLock
  <2>. QED  BY <2>2, <2>3
<1>. QED  BY <1>1, <1>2, PTL DEF Spec

\* The lock's variables keep their types.
THEOREM LockTypeCorrect == Spec => []TypeOK
<1>1. IInv => TypeOK
  BY DEF IInv
<1>. QED  BY <1>1, IInvAlways, PTL

\* Mutual exclusion, for any number of processes, crashes, slow processes and
\* failed operations: it is lost only through a false reclaim.
THEOREM Mutex == Spec => []MutexUnlessFalseReclaim
<1>1. IInv => MutexUnlessFalseReclaim
  BY DEF IInv, MutexUnlessFalseReclaim, AtMostOneHolder, OwnInv, Owning
<1>. QED  BY <1>1, IInvAlways, PTL

\* A directory outlives its maker's release only if the release raised.
THEOREM NoOrphans == Spec => []NoOrphanLock
<1>1. IInv => NoOrphanLock
  BY DEF IInv
<1>. QED  BY <1>1, IInvAlways, PTL

-----------------------------------------------------------------------------
(* Without deaths, delays beyond the grace age and failed operations,      *)
(* nothing is ever found stale.                                            *)

Benign == MaxDead = 0 /\ ~Slow /\ MaxFaults = 0

\* An owner.json is missing only in the two windows where the grace age
\* protects its directory, from before a contender looks until after.
Protected ==
  /\ ~litter /\ ~surfaced
  /\ \A p \in Proc : /\ pc[p] \notin {"dead", "rename"}
                     /\ pc[p] = "rmdir" => owner = NoProc
  /\ maker # NoProc /\ owner = NoProc => pc[maker] \in {"write", "rmdir"} /\ fresh
  /\ maker # NoProc /\ (\E p \in Proc : pc[p] = "stat") => fresh

\* While an owner is protected, no step reclaims from it.
LEMMA ProtectedStep ==
  ASSUME Benign, Sound, ~falseReclaim, Protected, [Next]_vars
  PROVE  ~falseReclaim' /\ Protected'
<1>0. TypeOK /\ TypeOK'
  BY TypeStep DEF Sound
<1>. USE <1>0 DEF TypeOK, Goto, Pass, Fault, Acquiring, Owning, dir, OwnInv, OwnerInv, Sound, Protected, Benign
<1>1. CASE GraceElapses
  BY <1>1 DEF GraceElapses
<1>2. ASSUME NEW p \in Proc, Acquire(p) \/ Proceed(p) \/ Crash(p)
      PROVE  ~falseReclaim' /\ Protected'
  <2>1. CASE Acquire(p)
    BY <2>1 DEF Acquire
  <2>2. CASE Crash(p)
    <3>1. {q \in Proc : Dead(q)} = {}
      BY DEF Dead
    <3>. QED  BY <2>2, <3>1, FS_EmptySet DEF Crash
  <2>3. CASE Mkdir(p)
    BY <2>3 DEF Mkdir
  <2>4. CASE FileExists(p) \/ Retry(p) \/ Timeout(p) \/ Leave(p)
    BY <2>4 DEF FileExists, Retry, Timeout, Leave
  <2>5. CASE WriteOwner(p)
    BY <2>5 DEF WriteOwner
  <2>6. CASE WriteFails(p)
    BY <2>6 DEF WriteFails
  <2>7. CASE ReadOwner(p)
    BY <2>7 DEF ReadOwner, Dead
  <2>8. CASE StatDir(p)
    BY <2>8 DEF StatDir
  <2>9. CASE Rename(p) \/ RenameLost(p)
    BY <2>9 DEF Rename, RenameLost
  <2>10. CASE Unlink(p)
    BY <2>10 DEF Unlink
  <2>11. CASE Rmdir(p)
    BY <2>11 DEF Rmdir
  <2>12. CASE RmdirFails(p)
    BY <2>12 DEF RmdirFails
  <2>13. CASE ReadFails(p) \/ UnlinkFails(p)
    BY <2>13 DEF ReadFails, UnlinkFails
  <2>. QED  BY <1>2, <2>1, <2>2, <2>3, <2>4, <2>5, <2>6, <2>7, <2>8, <2>9, <2>10,
               <2>11, <2>12, <2>13 DEF Proceed
<1>3. CASE UNCHANGED vars
  BY <1>3 DEF vars
<1>. QED  BY <1>1, <1>2, <1>3 DEF Next

\* Then the lock is a mutex outright, for any number of processes.
THEOREM BenignMutex == ASSUME Benign PROVE Spec => []AtMostOneHolder
<1>. DEFINE Inv == Sound /\ ~falseReclaim /\ Protected
<1>1. Init => Inv
  <2>. SUFFICES ASSUME Init  PROVE Inv
    OBVIOUS
  <2>1. TypeOK
    BY InitTypeOK
  <2>. QED  BY <2>1 DEF Init, Sound, OwnInv, OwnerInv, Protected, Owning
<1>2. Inv /\ [Next]_vars => Inv'
  BY SoundStep, ProtectedStep
<1>3. Inv => AtMostOneHolder
  BY DEF Sound, OwnInv, AtMostOneHolder, Owning
<1>. QED  BY <1>1, <1>2, <1>3, PTL DEF Spec
=============================================================================
