------------------------- MODULE BuildQueueProofs ---------------------------
(***************************************************************************)
(* What the build queue promises of numbers, builds and lanes, for any set *)
(* of clients and any number of kills, each from what it has to assume.    *)
(***************************************************************************)
EXTENDS BuildQueue, TLAPS

WPCs == {"new", "ticket", "body", "unticket", "count", "spawn", "rewrite", "wait", "check",
         "remove"} \cup Allocating \cup Polling \cup Ended

\* At the start everything is in its type.
LEMMA InitTypeOK == Init => TypeOK
<1> SUFFICES ASSUME Init PROVE TypeOK
  OBVIOUS
<1>1. wpc \in [Client -> WPCs]
  BY DEF Init, WPCs
<1>2. /\ counter \in Nat /\ counterLock \in Client \cup {NoClient} /\ tickets \subseteq Client
      /\ lock \in {NoLock, EmptyLock} /\ passes \in 0 .. K /\ recorded \subseteq Client
      /\ faults \in 0 .. Faults
  BY BuildQueueAssumption DEF Init
<1>3. /\ seq \in [Client -> Nat] /\ seen \in [Client -> SUBSET Client]
      /\ dead \in [Client -> 0 .. StaleThreshold]
  BY BuildQueueAssumption DEF Init
<1>4. rpc \in [Client -> {"none", "build", "hygiene", "check", "remove", "gone"}]
  BY DEF Init
<1> QED
  BY <1>1, <1>2, <1>3, <1>4 DEF TypeOK, WPCs

\* What a step of the wrappers and runners of any client does.
LEMMA StepOf ==
  ASSUME Next
  PROVE  \E c \in Client : WrapperStep(c) \/ KillWrapper(c) \/ RunnerStep(c) \/ KillRunner(c)
BY DEF Next

\* A wrapper moves itself alone, from one label to another.
LEMMA WrapperMoves ==
  ASSUME TypeOK, NEW c \in Client, WrapperStep(c) \/ KillWrapper(c)
  PROVE  wpc' \in [Client -> WPCs] /\ \A d \in Client : d # c => wpc'[d] = wpc[d]
<1> USE DEF Goto, TypeOK, WPCs, Allocating, Polling, Ended
<1>1. CASE \/ TakeCounter(c) \/ CounterBusy(c) \/ ReadCounter(c) \/ TruncateCounter(c)
           \/ WriteCounter(c) \/ CounterFails(c) \/ DropCounterLock(c) \/ WriteTicket(c)
  BY <1>1 DEF TakeCounter, CounterBusy, ReadCounter, TruncateCounter, WriteCounter, CounterFails,
              DropCounterLock, WriteTicket
<1>2. CASE Look(c) \/ ReadStatus(c) \/ Reclaim(c) \/ CheckEligible(c) \/ Claim(c) \/ ClaimLost(c)
  BY <1>2 DEF Look, ReadStatus, Reclaim, CheckEligible, Claim, ClaimLost
<1>3. CASE \/ WriteBody(c) \/ Unticket(c) \/ CountPass(c) \/ Spawn(c) \/ Rewrite(c)
           \/ Recorded(c) \/ WriteFallback(c) \/ CheckLock(c) \/ RemoveLock(c) \/ KillWrapper(c)
  BY <1>3 DEF WriteBody, Unticket, CountPass, Spawn, Rewrite, Recorded, WriteFallback, CheckLock,
              RemoveLock, KillWrapper
<1> QED
  BY <1>1, <1>2, <1>3 DEF WrapperStep

\* A step fails at most as often as the bound says.
LEMMA FaultBound ==
  ASSUME TypeOK, Fault
  PROVE  faults' \in 0 .. Faults
BY BuildQueueAssumption DEF Fault, TypeOK

\* What a wrapper's step leaves in the files is in its type.
LEMMA TypeOfWrapper ==
  ASSUME TypeOK, NEW c \in Client, WrapperStep(c)
  PROVE  TypeOK'
<1> USE BuildQueueAssumption
<1>0. wpc' \in [Client -> WPCs]
  BY WrapperMoves
<1> USE FaultBound DEF TypeOK, NoLock, EmptyLock, LockOf
<1>1. CASE TakeCounter(c)
  BY <1>0, <1>1 DEF TakeCounter, WPCs
<1>2. CASE CounterBusy(c)
  BY <1>0, <1>2 DEF CounterBusy, files, WPCs
<1>3. CASE ReadCounter(c)
  BY <1>0, <1>3 DEF ReadCounter, files, WPCs
<1>4. CASE TruncateCounter(c)
  BY <1>0, <1>4 DEF TruncateCounter, WPCs
<1>5. CASE WriteCounter(c)
  BY <1>0, <1>5 DEF WriteCounter, WPCs
<1>6. CASE CounterFails(c)
  BY <1>0, <1>6 DEF CounterFails, WPCs
<1>7. CASE DropCounterLock(c)
  BY <1>0, <1>7 DEF DropCounterLock, WPCs
<1>8. CASE WriteTicket(c)
  BY <1>0, <1>8 DEF WriteTicket, WPCs
<1>9. CASE Look(c)
  BY <1>0, <1>9 DEF Look, WPCs
<1>10. CASE ReadStatus(c)
  <2> DEFINE n == IF LockStatus # "dead" THEN 0
                  ELSE IF dead[c] < StaleThreshold THEN dead[c] + 1 ELSE StaleThreshold
  <2>1. n \in 0 .. StaleThreshold
    OBVIOUS
  <2>2. dead' \in [Client -> 0 .. StaleThreshold]
    BY <1>10, <2>1 DEF ReadStatus
  <2> QED
    BY <1>0, <1>10, <2>2 DEF ReadStatus, files, WPCs
<1>11. CASE Reclaim(c)
  BY <1>0, <1>11 DEF Reclaim, WPCs
<1>12. CASE CheckEligible(c)
  BY <1>0, <1>12 DEF CheckEligible, files, WPCs
<1>13. CASE Claim(c)
  BY <1>0, <1>13 DEF Claim, WPCs
<1>14. CASE ClaimLost(c)
  BY <1>0, <1>14 DEF ClaimLost, files, WPCs
<1>15. CASE WriteBody(c)
  BY <1>0, <1>15 DEF WriteBody, WPCs
<1>16. CASE Unticket(c)
  BY <1>0, <1>16 DEF Unticket, WPCs
<1>17. CASE CountPass(c)
  BY <1>0, <1>17 DEF CountPass, WPCs
<1>18. CASE Spawn(c)
  BY <1>0, <1>18 DEF Spawn, files, WPCs
<1>19. CASE Rewrite(c)
  BY <1>0, <1>19 DEF Rewrite, WPCs
<1>20. CASE Recorded(c)
  BY <1>0, <1>20 DEF Recorded, files, WPCs
<1>21. CASE WriteFallback(c)
  BY <1>0, <1>21 DEF WriteFallback, WPCs
<1>22. CASE CheckLock(c)
  BY <1>0, <1>22 DEF CheckLock, files, WPCs
<1>23. CASE RemoveLock(c)
  BY <1>0, <1>23 DEF RemoveLock, WPCs
<1> QED
  BY <1>1, <1>2, <1>3, <1>4, <1>5, <1>6, <1>7, <1>8, <1>9, <1>10, <1>11, <1>12, <1>13, <1>14,
     <1>15, <1>16, <1>17, <1>18, <1>19, <1>20, <1>21, <1>22, <1>23 DEF WrapperStep

\* Runners touch active.lock, their result and themselves; kills one label.
LEMMA TypeOfRunner ==
  ASSUME TypeOK, NEW c \in Client, RunnerStep(c) \/ KillRunner(c) \/ KillWrapper(c)
  PROVE  TypeOK'
<1> USE FaultBound DEF TypeOK, Goto, RunnerGoto, Ended, NoLock, wrapper
<1>1. CASE EarlyResult(c)
  BY <1>1 DEF EarlyResult
<1>2. CASE FinalResult(c)
  BY <1>2 DEF FinalResult
<1>3. CASE RunnerCheckLock(c)
  BY <1>3 DEF RunnerCheckLock, files
<1>4. CASE RunnerRemoveLock(c)
  BY <1>4 DEF RunnerRemoveLock
<1>5. CASE KillRunner(c)
  BY <1>5 DEF KillRunner, files
<1>6. CASE KillWrapper(c)
  BY <1>6 DEF KillWrapper, files
<1> QED
  BY <1>1, <1>2, <1>3, <1>4, <1>5, <1>6 DEF RunnerStep

\* Types are kept by every step.
LEMMA TypeStep == TypeOK /\ [Next]_vars => TypeOK'
<1> SUFFICES ASSUME TypeOK, [Next]_vars PROVE TypeOK'
  OBVIOUS
<1>1. CASE Next
  BY <1>1, StepOf, TypeOfWrapper, TypeOfRunner
<1>2. CASE UNCHANGED vars
  BY <1>2 DEF vars, files, wrapper, TypeOK
<1> QED
  BY <1>1, <1>2

\* The queue's files and processes keep their types for any set of clients.
THEOREM QueueTypeCorrect == Spec => []TypeOK
  BY InitTypeOK, TypeStep, PTL DEF Spec

-----------------------------------------------------------------------------
(***************************************************************************)
(* Numbers.  While seq.counter is empty nobody else reads it: its lock has *)
(* one holder, and stays with a holder that died or could not remove it.   *)
(***************************************************************************)

\* c's number counts: it is not being drawn and its drawing did not fail.
Drawn(c) == wpc[c] \notin Allocating \cup {"failed"}

NumberInv ==
  /\ \A c \in Client : wpc[c] \in Allocating => counterLock = c
  /\ \A c \in Client : wpc[c] \in {"new", "read"} => seq[c] = 0
  /\ \A c \in Client : counterLock = NoClient \/ wpc[c] = "read" =>
       \A d \in Client : Drawn(d) => seq[d] <= counter
  /\ \A c \in Client : wpc[c] \in {"truncate", "write", "unlock"} =>
       \A d \in Client : Drawn(d) => seq[d] < seq[c]
  /\ \A c \in Client : wpc[c] = "truncate" => seq[c] = counter + 1
  /\ \A c \in Client : wpc[c] = "unlock" => seq[c] = counter
  /\ SeqUnique

\* Nobody draws, takes or drops anything: who was drawing may stop doing so.
LEMMA NumbersStay ==
  ASSUME TypeOK, NumberInv, UNCHANGED <<seq, counter, counterLock>>,
         \A d \in Client : /\ wpc'[d] \in Allocating \cup {"new"} => wpc'[d] = wpc[d]
                           /\ wpc[d] = "failed" => wpc'[d] = "failed"
  PROVE  NumberInv'
<1>1. ASSUME NEW c \in Client, wpc[c] \in Allocating
      PROVE  counterLock = c /\ counterLock # NoClient /\ \A d \in Client : d # c => wpc[d] \notin Allocating
  BY <1>1, BuildQueueAssumption DEF NumberInv
<1>2. ASSUME NEW d \in Client, Drawn(d)', ~Drawn(d) PROVE wpc[d] \in Allocating
  BY <1>2 DEF Drawn
<1>3. SeqUnique'
  <2> SUFFICES ASSUME NEW c \in Client, NEW d \in Client, c # d, Drawn(c)', Drawn(d)', seq[c] # 0
               PROVE  seq[c] # seq[d]
    BY DEF SeqUnique, Drawn
  <2>1. CASE Drawn(c) /\ Drawn(d)
    BY <2>1 DEF NumberInv, SeqUnique, Drawn
  <2>2. ASSUME NEW x \in Client, NEW y \in Client, x # y, ~Drawn(x), Drawn(x)', Drawn(y)', seq[x] # 0
        PROVE  seq[y] < seq[x]
    <3>1. wpc[x] \in {"truncate", "write", "unlock"} /\ wpc[y] \notin Allocating
      BY <1>1, <1>2, <2>2 DEF NumberInv, Allocating
    <3> QED
      BY <1>2, <2>2, <3>1 DEF NumberInv
  <2>3. CASE ~Drawn(c)
    BY <2>2, <2>3 DEF TypeOK
  <2>4. CASE ~Drawn(d)
    BY <2>2, <2>4 DEF TypeOK
  <2> QED
    BY <2>1, <2>3, <2>4
<1>4. \A c \in Client : wpc'[c] \in {"new", "read"} => seq'[c] = 0
  BY DEF NumberInv, Allocating
<1>5. ASSUME NEW c \in Client, wpc'[c] \in Allocating, NEW d \in Client, Drawn(d)' PROVE Drawn(d) /\ wpc'[c] = wpc[c]
  BY <1>1, <1>2, <1>5 DEF Drawn
<1>6. ASSUME counterLock = NoClient, NEW d \in Client, Drawn(d)' PROVE Drawn(d)
  BY <1>1, <1>2, <1>6
<1> QED
  BY <1>3, <1>4, <1>5, <1>6 DEF NumberInv, Allocating

\* A step of the allocation: c itself draws, nobody else does.
LEMMA NumberStepOf ==
  ASSUME ~Unreadable, TypeOK, NumberInv, NEW c \in Client, WrapperStep(c) \/ KillWrapper(c)
  PROVE  NumberInv'
<1> USE BuildQueueAssumption
<1>0. wpc' \in [Client -> WPCs] /\ (\A d \in Client : d # c => wpc'[d] = wpc[d]) /\ wpc \in [Client -> WPCs]
  BY WrapperMoves DEF TypeOK, WPCs
<1>a. ASSUME wpc[c] \in Allocating
      PROVE  counterLock = c /\ c # NoClient /\ \A d \in Client : d # c => wpc[d] \notin Allocating
  BY <1>a DEF NumberInv
<1>1. CASE TakeCounter(c)
  <2>1. /\ wpc[c] = "new" /\ wpc'[c] = "read" /\ counterLock = NoClient /\ counterLock' = c
        /\ UNCHANGED <<counter, seq>>
    BY <1>0, <1>1 DEF TakeCounter, Goto
  <2>2. \A d \in Client : wpc[d] \notin Allocating
    BY <2>1 DEF NumberInv
  <2>3. \A d \in Client : Drawn(d)' => Drawn(d)
    BY <1>0, <2>1 DEF Drawn, Allocating
  <2>4. SeqUnique'
    BY <2>1, <2>3 DEF NumberInv, SeqUnique, Drawn
  <2> QED
    BY <1>0, <2>1, <2>2, <2>3, <2>4 DEF NumberInv, Allocating
<1>2. CASE ReadCounter(c)
  <2>1. /\ wpc[c] = "read" /\ wpc'[c] = "truncate" /\ seq' = [seq EXCEPT ![c] = counter + 1]
        /\ UNCHANGED <<counter, counterLock>>
    BY <1>0, <1>2 DEF ReadCounter, Goto, files
  <2>2. /\ counterLock = c /\ c # NoClient /\ \A d \in Client : d # c => wpc[d] \notin Allocating
    BY <1>a, <2>1 DEF Allocating
  <2>3. \A d \in Client : d # c => seq'[d] = seq[d] /\ Drawn(d)' = Drawn(d)
    BY <1>0, <2>1 DEF Drawn, TypeOK
  <2>4. ~Drawn(c) /\ ~Drawn(c)' /\ seq'[c] = counter + 1 /\ seq \in [Client -> Nat] /\ counter \in Nat
    BY <2>1 DEF Drawn, Allocating, TypeOK
  <2>5. \A d \in Client : Drawn(d) => seq[d] <= counter
    BY <2>1 DEF NumberInv
  <2>6. \A d \in Client : Drawn(d)' => seq'[d] < seq'[c]
    BY <2>3, <2>4, <2>5
  <2>7. SeqUnique'
    BY <2>3, <2>4 DEF NumberInv, SeqUnique, Drawn
  <2> QED
    BY <1>0, <2>1, <2>2, <2>3, <2>4, <2>6, <2>7 DEF NumberInv, Allocating
<1>3. CASE TruncateCounter(c) \/ WriteCounter(c)
  <2>1. /\ wpc[c] \in {"truncate", "write"} /\ UNCHANGED <<seq, counterLock>>
        /\ \/ wpc'[c] = "write"
           \/ wpc'[c] = "unlock" /\ counter' = seq[c]
    BY <1>0, <1>3 DEF TruncateCounter, WriteCounter, Goto
  <2>2. counterLock = c /\ c # NoClient /\ \A d \in Client : d # c => wpc[d] \notin Allocating
    BY <1>a, <2>1 DEF Allocating
  <2>3. \A d \in Client : Drawn(d)' = Drawn(d)
    BY <1>0, <2>1 DEF Drawn, Allocating
  <2>4. SeqUnique'
    BY <2>1, <2>3 DEF NumberInv, SeqUnique, Drawn
  <2>5. \A d \in Client : Drawn(d)' => seq'[d] < seq'[c]
    BY <2>1, <2>3 DEF NumberInv
  <2> QED
    BY <1>0, <2>1, <2>2, <2>4, <2>5 DEF NumberInv, Allocating
<1>4. CASE CounterFails(c)
  <2>1. /\ wpc[c] = "truncate" /\ wpc'[c] = "failed" /\ counterLock' = NoClient /\ UNCHANGED <<seq, counter>>
    BY <1>0, <1>4 DEF CounterFails, Goto
  <2>2. \A d \in Client : d # c => wpc[d] \notin Allocating
    BY <1>a, <2>1 DEF Allocating
  <2>3. \A d \in Client : Drawn(d)' => Drawn(d) /\ seq[d] < seq[c]
    BY <1>0, <2>1 DEF Drawn, NumberInv
  <2>4. SeqUnique'
    BY <2>1, <2>3 DEF NumberInv, SeqUnique, Drawn
  <2>5. seq[c] = counter + 1 /\ counter \in Nat /\ seq \in [Client -> Nat]
    BY <2>1 DEF NumberInv, TypeOK
  <2>6. \A d \in Client : Drawn(d)' => seq'[d] <= counter'
    BY <2>1, <2>3, <2>5
  <2> QED
    BY <1>0, <2>1, <2>2, <2>4, <2>6 DEF NumberInv, Allocating
<1>5. CASE DropCounterLock(c) /\ counterLock' = NoClient
  <2>1. /\ wpc[c] = "unlock" /\ wpc'[c] = "ticket" /\ UNCHANGED <<seq, counter>>
    BY <1>0, <1>5 DEF DropCounterLock, Goto
  <2>2. \A d \in Client : d # c => wpc[d] \notin Allocating
    BY <1>a, <2>1 DEF Allocating
  <2>3. \A d \in Client : d # c /\ Drawn(d)' => Drawn(d) /\ seq[d] < seq[c]
    BY <1>0, <2>1 DEF Drawn, NumberInv
  <2>4. seq[c] = counter /\ counter \in Nat /\ seq \in [Client -> Nat]
    BY <2>1 DEF NumberInv, TypeOK
  <2>5. SeqUnique'
    <3> SUFFICES ASSUME NEW x \in Client, NEW y \in Client, x # y, Drawn(x)', Drawn(y)', seq[x] # 0
                 PROVE  seq[x] # seq[y]
      BY <2>1 DEF SeqUnique, Drawn
    <3> QED
      BY <2>3, <2>4 DEF NumberInv, SeqUnique, Drawn
  <2>6. \A d \in Client : Drawn(d)' => seq'[d] <= counter'
    BY <2>1, <2>3, <2>4
  <2> QED
    BY <1>0, <2>1, <2>2, <2>5, <2>6 DEF NumberInv, Allocating
<1>6. CASE \/ CounterBusy(c) \/ WriteTicket(c) \/ KillWrapper(c)
           \/ DropCounterLock(c) /\ counterLock' # NoClient
  <2>1. UNCHANGED <<seq, counter, counterLock>> /\ wpc[c] # "failed"
        /\ wpc'[c] \notin Allocating \cup {"new"}
    BY <1>0, <1>6 DEF CounterBusy, WriteTicket, KillWrapper, DropCounterLock, Goto, files, Allocating, Ended
  <2> QED
    BY <1>0, <2>1, NumbersStay
<1>7. CASE Look(c) \/ ReadStatus(c) \/ Reclaim(c) \/ CheckEligible(c) \/ Claim(c) \/ ClaimLost(c)
  <2>1. UNCHANGED <<seq, counter, counterLock>> /\ wpc[c] # "failed"
        /\ wpc'[c] \notin Allocating \cup {"new"}
    BY <1>0, <1>7 DEF Look, ReadStatus, Reclaim, CheckEligible, Claim, ClaimLost, Goto, files, Allocating
  <2> QED
    BY <1>0, <2>1, NumbersStay
<1>8. CASE \/ WriteBody(c) \/ Unticket(c) \/ CountPass(c) \/ Spawn(c) \/ Rewrite(c)
           \/ Recorded(c) \/ WriteFallback(c) \/ CheckLock(c) \/ RemoveLock(c)
  <2>1. UNCHANGED <<seq, counter, counterLock>> /\ wpc[c] # "failed"
        /\ wpc'[c] \notin Allocating \cup {"new"}
    BY <1>0, <1>8 DEF WriteBody, Unticket, CountPass, Spawn, Rewrite, Recorded, WriteFallback,
              CheckLock, RemoveLock, Goto, files, Allocating
  <2> QED
    BY <1>0, <2>1, NumbersStay
<1> QED
  BY <1>1, <1>2, <1>3, <1>4, <1>5, <1>6, <1>7, <1>8 DEF WrapperStep

\* Every step keeps the numbers unique.
LEMMA NumberStep ==
  ASSUME ~Unreadable, TypeOK, NumberInv, [Next]_vars
  PROVE  NumberInv'
<1>1. ASSUME NEW c \in Client, RunnerStep(c) \/ KillRunner(c) PROVE NumberInv'
  <2>1. UNCHANGED <<seq, counter, counterLock, wpc>>
    BY <1>1 DEF RunnerStep, EarlyResult, FinalResult, RunnerCheckLock, RunnerRemoveLock, KillRunner,
                files, wrapper
  <2> QED
    BY <2>1, NumbersStay
<1>2. CASE UNCHANGED vars
  BY <1>2, NumbersStay DEF vars, files, wrapper
<1>3. CASE Next
  BY <1>1, <1>3, StepOf, NumberStepOf
<1> QED
  BY <1>2, <1>3

\* "Sequence numbers are unique" (docs/specs/build-queue/SPEC.md:96) while
\* seq.counter can be read, though it is emptied before it is written, its lock
\* may be abandoned or left behind, and wrappers die anywhere.
THEOREM NumbersAreUnique ==
  ASSUME ~Unreadable
  PROVE  Spec => []SeqUnique
<1>1. Init => TypeOK /\ NumberInv
  BY InitTypeOK DEF Init, NumberInv, SeqUnique, Allocating
<1>2. TypeOK /\ NumberInv /\ [Next]_vars => TypeOK' /\ NumberInv'
  BY TypeStep, NumberStep
<1>3. NumberInv => SeqUnique
  BY DEF NumberInv
<1> QED
  BY <1>1, <1>2, <1>3, PTL DEF Spec

-----------------------------------------------------------------------------
(***************************************************************************)
(* One build.  When what a process has just read still holds when it acts  *)
(* on it, only runners are killed and no operation fails, active.lock      *)
(* names every runner that is alive, and is reclaimed only when the one it *)
(* names is not.                                                           *)
(***************************************************************************)

Alive == {"build", "hygiene", "check", "remove"}

Early == {"new", "ticket", "body", "unticket", "count", "spawn"} \cup Allocating \cup Polling

NotKilled == killed.wrappers = 0 /\ killed \in [wrappers : Nat, runners : Nat]

\* Where a wrapper is tells what active.lock says and whether its runner lives.
Owns(c) ==
  /\ wpc[c] \in Early => rpc[c] = "none"
  /\ wpc[c] = "body" => lock = EmptyLock
  /\ wpc[c] \in {"unticket", "count", "spawn", "rewrite"} => lock = LockOf(c, "wrapper")
  /\ wpc[c] = "rewrite" => rpc[c] = "build"
  /\ wpc[c] \in {"check", "remove"} => rpc[c] = "gone"
  /\ wpc[c] = "remove" => lock.job = c
  /\ wpc[c] = "reclaim" => LockStatus = "dead"
  /\ rpc[c] \in Alive => lock.job = c /\ (wpc[c] = "rewrite" \/ lock.pid = "runner")

OneBody == \A c, d \in Client : wpc[c] = "body" /\ wpc[d] = "body" => c = d

LockInv == TypeOK /\ OneBody /\ \A c \in Client : Owns(c)

\* Whoever acts, nobody else is between reading and acting.
LEMMA OthersAreNotUrgent ==
  ASSUME ~Slow, NEW c \in Client
  PROVE  /\ WrapperMayRun(c) =>
              \A d \in Client : rpc[d] # "remove" /\ (d # c => ~WrapperUrgent(d))
         /\ RunnerMayRun(c) =>
              \A d \in Client : ~WrapperUrgent(d) /\ (d # c => rpc[d] # "remove")
BY DEF WrapperMayRun, RunnerMayRun, RunnerUrgent

\* With no failure to spare no operation fails.
LEMMA NoFault ==
  ASSUME Faults = 0, TypeOK
  PROVE  ~Fault
BY DEF Fault, TypeOK

\* The steps that leave active.lock and the runners alone.
LEMMA QuietStep ==
  ASSUME LockInv, TypeOK', NEW c \in Client,
         UNCHANGED <<lock, rpc>>,
         \A d \in Client : d # c => wpc'[d] = wpc[d] /\ ~WrapperUrgent(d),
         wpc'[c] # "reclaim", wpc'[c] # "body",
         \/ /\ wpc[c] \in Early /\ wpc'[c] \in Early \cup {"failed"}
            /\ wpc'[c] \notin {"unticket", "count", "spawn"}
         \/ wpc[c] = "unticket" /\ wpc'[c] = "count"
         \/ wpc[c] = "count" /\ wpc'[c] = "spawn"
         \/ wpc[c] = "wait" /\ wpc'[c] = "done"
         \/ wpc[c] = "wait" /\ rpc[c] = "gone" /\ wpc'[c] = "check"
         \/ wpc[c] = "check" /\ wpc'[c] = "done"
         \/ wpc[c] = "check" /\ wpc'[c] = "remove" /\ lock.job = c
  PROVE  LockInv'
<1>1. OneBody'
  BY DEF LockInv, OneBody
<1>2. ASSUME NEW d \in Client, d # c PROVE Owns(d)'
  BY <1>2 DEF LockInv, Owns, WrapperUrgent
<1>3. Owns(c)'
  BY DEF LockInv, Owns, Early, Alive, Allocating, Polling
<1> QED
  BY <1>1, <1>2, <1>3 DEF LockInv

\* Every step of a wrapper keeps the owner of active.lock and the one body.
LEMMA WrapperLockStep ==
  ASSUME ~Slow, Faults = 0, LockInv, TypeOK', NEW c \in Client, WrapperMayRun(c), WrapperStep(c)
  PROVE  LockInv'
<1> USE BuildQueueAssumption
<1>0. /\ \A d \in Client : rpc[d] # "remove" /\ (d # c => ~WrapperUrgent(d))
      /\ TypeOK /\ ~Fault
  BY OthersAreNotUrgent, NoFault DEF LockInv
<1>1. CASE TakeCounter(c)
  BY <1>0, <1>1, QuietStep DEF TakeCounter, Goto, TypeOK, Early, Allocating, Polling
<1>2. CASE CounterBusy(c)
  BY <1>0, <1>2, QuietStep DEF CounterBusy, Goto, TypeOK, Early, Allocating, Polling, files
<1>3. CASE ReadCounter(c)
  BY <1>0, <1>3, QuietStep DEF ReadCounter, files, Goto, TypeOK, Early, Allocating, Polling
<1>4. CASE TruncateCounter(c)
  BY <1>0, <1>4, QuietStep DEF TruncateCounter, Goto, TypeOK, Early, Allocating, Polling
<1>5. CASE WriteCounter(c)
  BY <1>0, <1>5, QuietStep DEF WriteCounter, Goto, TypeOK, Early, Allocating, Polling
<1>6. CASE CounterFails(c)
  BY <1>0, <1>6, QuietStep DEF CounterFails, Goto, TypeOK, Early, Allocating, Polling
<1>7. CASE DropCounterLock(c)
  BY <1>0, <1>7, QuietStep DEF DropCounterLock, Goto, TypeOK, Early, Allocating, Polling
<1>8. CASE WriteTicket(c)
  BY <1>0, <1>8, QuietStep DEF WriteTicket, Goto, TypeOK, Early, Allocating, Polling
<1>9. CASE Look(c)
  BY <1>0, <1>9, QuietStep DEF Look, Goto, TypeOK, Early, Allocating, Polling
<1>10. CASE ReadStatus(c)
  <2>1. UNCHANGED <<lock, rpc>> /\ \A d \in Client : d # c => wpc'[d] = wpc[d]
    BY <1>0, <1>10 DEF ReadStatus, Goto, TypeOK, files
  <2>2. CASE wpc'[c] = "reclaim"
    <3>1. LockStatus = "dead"
      BY <1>0, <1>10, <2>2 DEF ReadStatus, ShouldReclaim, Goto, TypeOK
    <3>2. LockStatus' = "dead"
      BY <1>0, <1>10, <2>1, <3>1 DEF LockStatus, PidAlive, Ended, TypeOK, ReadStatus
    <3> QED
      BY <1>0, <1>10, <2>1, <2>2, <3>2 DEF LockInv, OneBody, Owns, WrapperUrgent, Early, Allocating, Polling, Alive, ReadStatus
  <2>3. CASE wpc'[c] # "reclaim"
    <3>1. wpc[c] = "status" /\ wpc'[c] \in {"elig", "look"}
      BY <1>0, <1>10, <2>3 DEF ReadStatus, Goto, TypeOK
    <3> QED
      BY <1>0, <2>1, <2>3, <3>1, QuietStep DEF Early, Allocating, Polling
  <2> QED
    BY <2>2, <2>3
<1>11. CASE Reclaim(c)
  BY <1>0, <1>11 DEF Reclaim, LockInv, OneBody, Owns, WrapperUrgent, LockStatus, PidAlive, NoLock, EmptyLock, LockOf, Goto, Early, Allocating, Polling, Alive, Ended, TypeOK, files
<1>12. CASE CheckEligible(c)
  BY <1>0, <1>12, QuietStep DEF CheckEligible, Goto, TypeOK, Early, Allocating, Polling, files
<1>13. CASE Claim(c)
  <2>1. /\ lock = NoLock /\ lock' = EmptyLock /\ rpc' = rpc /\ rpc[c] = "none" /\ wpc'[c] = "body"
        /\ \A d \in Client : d # c => wpc'[d] = wpc[d]
    BY <1>0, <1>13 DEF Claim, Goto, TypeOK, LockInv, Owns, Early, Allocating, Polling
  <2>2. ASSUME NEW d \in Client
        PROVE  rpc[d] \notin Alive /\ wpc[d] \notin {"body", "unticket", "count", "spawn", "rewrite", "remove"}
    BY <2>1 DEF LockInv, Owns, NoLock, EmptyLock, LockOf
  <2>3. OneBody'
    BY <2>1, <2>2 DEF OneBody
  <2>4. Owns(c)'
    BY <2>1 DEF Owns, Alive, Early
  <2>5. ASSUME NEW d \in Client, d # c PROVE Owns(d)'
    BY <1>0, <2>1, <2>2, <2>5 DEF LockInv, Owns, WrapperUrgent
  <2> QED
    BY <2>3, <2>4, <2>5 DEF LockInv
<1>14. CASE ClaimLost(c)
  BY <1>0, <1>14, QuietStep DEF ClaimLost, Goto, TypeOK, Early, Allocating, Polling, files
<1>15. CASE WriteBody(c)
  BY <1>0, <1>15 DEF WriteBody, LockInv, OneBody, Owns, WrapperUrgent, LockStatus, PidAlive, NoLock, EmptyLock, LockOf, Goto, Early, Allocating, Polling, Alive, Ended, TypeOK, files
<1>16. CASE Unticket(c)
  BY <1>0, <1>16, QuietStep DEF Unticket, Goto, TypeOK, Early, Allocating, Polling
<1>17. CASE CountPass(c)
  BY <1>0, <1>17, QuietStep DEF CountPass, Goto, TypeOK, Early, Allocating, Polling
<1>18. CASE Spawn(c)
  BY <1>0, <1>18 DEF Spawn, LockInv, OneBody, Owns, WrapperUrgent, LockStatus, PidAlive, NoLock, EmptyLock, LockOf, Goto, Early, Allocating, Polling, Alive, Ended, TypeOK, files
<1>19. CASE Rewrite(c)
  BY <1>0, <1>19 DEF Rewrite, LockInv, OneBody, Owns, WrapperUrgent, LockStatus, PidAlive, NoLock, EmptyLock, LockOf, Goto, Early, Allocating, Polling, Alive, Ended, TypeOK, files
<1>20. CASE Recorded(c)
  BY <1>0, <1>20, QuietStep DEF Recorded, Goto, TypeOK, Early, Allocating, Polling, files
<1>21. CASE WriteFallback(c)
  BY <1>0, <1>21, QuietStep DEF WriteFallback, Goto, TypeOK, Early, Allocating, Polling
<1>22. CASE CheckLock(c)
  BY <1>0, <1>22, QuietStep DEF CheckLock, Goto, TypeOK, Early, Allocating, Polling, files
<1>23. CASE RemoveLock(c)
  BY <1>0, <1>23 DEF RemoveLock, LockInv, OneBody, Owns, WrapperUrgent, LockStatus, PidAlive, NoLock, EmptyLock, LockOf, Goto, Early, Allocating, Polling, Alive, Ended, TypeOK, files
<1> QED
  BY <1>1, <1>2, <1>3, <1>4, <1>5, <1>6, <1>7, <1>8, <1>9, <1>10, <1>11, <1>12, <1>13, <1>14, <1>15, <1>16, <1>17, <1>18, <1>19, <1>20, <1>21, <1>22, <1>23 DEF WrapperStep

\* So does every step of a runner, whose lock bears its number.
LEMMA RunnerLockStep ==
  ASSUME ~Slow, Faults = 0, LockInv, TypeOK', NEW c \in Client, RunnerMayRun(c), RunnerStep(c) \/ KillRunner(c)
  PROVE  LockInv'
<1> USE BuildQueueAssumption
<1>0. /\ \A d \in Client : ~WrapperUrgent(d) /\ (d # c => rpc[d] # "remove")
      /\ TypeOK /\ ~Fault
  BY OthersAreNotUrgent, NoFault DEF LockInv
<1>1. CASE EarlyResult(c) \/ FinalResult(c) \/ RunnerCheckLock(c) \/ KillRunner(c)
  <2>1. /\ UNCHANGED <<lock, wpc>> /\ rpc[c] \in Alive /\ rpc'[c] \in Alive \cup {"gone"}
        /\ \A d \in Client : d # c => rpc'[d] = rpc[d]
    BY <1>0, <1>1 DEF EarlyResult, FinalResult, RunnerCheckLock, KillRunner, RunnerGoto, wrapper,
                      files, TypeOK, Alive
  <2> QED
    BY <1>0, <2>1 DEF LockInv, OneBody, Owns, WrapperUrgent, Early, Polling, Alive
<1>2. CASE RunnerRemoveLock(c)
  BY <1>0, <1>2 DEF RunnerRemoveLock, RunnerGoto, wrapper, LockInv, OneBody, Owns, WrapperUrgent,
                    NoLock, EmptyLock, LockOf, Early, Polling, Alive, TypeOK
<1> QED
  BY <1>1, <1>2 DEF RunnerStep

\* The count of killed wrappers stays at its bound of nought.
LEMMA NoKillStep ==
  ASSUME WrapperKills = 0, NotKilled, [Next]_vars
  PROVE  NotKilled' /\ \A c \in Client : ~KillWrapper(c)
<1>1. ASSUME NEW c \in Client PROVE ~KillWrapper(c)
  BY DEF KillWrapper, NotKilled
<1>2. ASSUME NEW c \in Client, KillRunner(c) PROVE NotKilled'
  BY <1>2 DEF KillRunner, NotKilled
<1>3. ASSUME NEW c \in Client, WrapperStep(c) \/ RunnerStep(c) PROVE UNCHANGED killed
  BY <1>3 DEF WrapperStep, RunnerStep, EarlyResult, FinalResult, RunnerCheckLock, RunnerRemoveLock,
              TakeCounter, CounterBusy, ReadCounter, TruncateCounter, WriteCounter, CounterFails,
              DropCounterLock, WriteTicket, Look, ReadStatus, Reclaim, CheckEligible, Claim, ClaimLost,
              WriteBody, Unticket, CountPass, Spawn, Rewrite, Recorded, WriteFallback, CheckLock, RemoveLock
<1>4. CASE UNCHANGED vars
  BY <1>1, <1>4 DEF vars, NotKilled
<1>5. CASE Next
  BY <1>1, <1>2, <1>3, <1>5, StepOf DEF NotKilled
<1> QED
  BY <1>4, <1>5

\* At the start active.lock is not there and nobody runs.
LEMMA LockInit == Init => LockInv /\ NotKilled
<1> SUFFICES ASSUME Init PROVE LockInv /\ NotKilled
  OBVIOUS
<1>1. TypeOK
  BY InitTypeOK
<1> QED
  BY <1>1 DEF Init, LockInv, NotKilled, OneBody, Owns, Early, Allocating, Polling, Alive

\* Steps of wrappers and runners keep the owner of active.lock.
LEMMA LockStep ==
  ASSUME ~Slow, WrapperKills = 0, Faults = 0, LockInv, NotKilled, [Next]_vars
  PROVE  LockInv' /\ NotKilled'
<1>1. TypeOK' /\ NotKilled' /\ \A c \in Client : ~KillWrapper(c)
  BY TypeStep, NoKillStep DEF LockInv
<1>2. CASE UNCHANGED vars
  BY <1>1, <1>2 DEF vars, files, wrapper, LockInv, OneBody, Owns, LockStatus, PidAlive
<1>3. CASE Next
  BY <1>1, <1>3, WrapperLockStep, RunnerLockStep DEF Next
<1> QED
  BY <1>1, <1>2, <1>3

\* "Ensures only ONE build runs at a time across all worktrees on this machine"
\* (build-queue.ps1:6), for any number of jobs and of runners killed anywhere.
THEOREM OneBuildAtATime ==
  ASSUME ~Slow, WrapperKills = 0, Faults = 0
  PROVE  Spec => []OneBuild
<1>1. Init => LockInv /\ NotKilled
  BY LockInit
<1>2. LockInv /\ NotKilled /\ [Next]_vars => LockInv' /\ NotKilled'
  BY LockStep
<1>3. LockInv => OneBuild
  BY DEF LockInv, Owns, OneBuild, Alive
<1> QED
  BY <1>1, <1>2, <1>3, PTL DEF Spec

-----------------------------------------------------------------------------
(***************************************************************************)
(* The lanes.  A poll that nobody interrupts claims with the tickets it    *)
(* saw, and every waiter's ticket is among them.                           *)
(***************************************************************************)

\* Only dead wrappers' tickets are pruned, and a wrapper waits behind its own.
WaiterHasTicket == \A c \in Client : wpc[c] \in Polling => c \in tickets

\* A poll is as good as new until its claim.
Fresh(c) ==
  /\ wpc[c] \in {"status", "reclaim", "elig", "claim"} => seen[c] = tickets
  /\ wpc[c] = "claim" => Eligible(c)

PollInv == WaiterHasTicket /\ \A c \in Client : Fresh(c)

\* A ticket goes when its wrapper has claimed, or has ended.
LEMMA TicketStep ==
  ASSUME TypeOK, WaiterHasTicket, [Next]_vars
  PROVE  WaiterHasTicket'
<1> USE DEF WaiterHasTicket
<1>0. ASSUME NEW c \in Client, WrapperStep(c) \/ KillWrapper(c),
             \A d \in Client : d # c /\ d \in tickets => d \in tickets' \/ wpc[d] \notin Polling,
             wpc'[c] \in Polling => c \in tickets'
      PROVE  WaiterHasTicket'
  <2> SUFFICES ASSUME NEW d \in Client, d # c, wpc'[d] \in Polling PROVE d \in tickets'
    BY <1>0
  <2> QED
    BY <1>0, WrapperMoves
<1>1. ASSUME NEW c \in Client, WriteTicket(c) PROVE WaiterHasTicket'
  <2>1. /\ tickets \subseteq tickets'
        /\ wpc'[c] \in Polling => c \in tickets'
    BY <1>1 DEF WriteTicket, Goto, TypeOK, Polling
  <2> QED
    BY <1>0, <1>1, <2>1 DEF WrapperStep
<1>2. ASSUME NEW c \in Client, Unticket(c) PROVE WaiterHasTicket'
  <2>1. wpc'[c] = "count" /\ (tickets' = tickets \ {c} \/ tickets' = tickets)
    BY <1>2 DEF Unticket, Goto, TypeOK
  <2> QED
    BY <1>0, <1>2, <2>1 DEF WrapperStep, Polling
<1>3. ASSUME NEW c \in Client, Look(c) PROVE WaiterHasTicket'
  <2>1. ASSUME NEW d \in Client, wpc[d] \in Polling PROVE d \notin DeadTickets(c)
    BY <2>1 DEF DeadTickets, Ended, Polling
  <2>2. tickets' = tickets \ DeadTickets(c) /\ wpc[c] \in Polling
    BY <1>3 DEF Look, Polling
  <2> QED
    BY <1>0, <1>3, <2>1, <2>2 DEF WrapperStep
<1>4. ASSUME NEW c \in Client, WrapperStep(c) \/ KillWrapper(c), ~WriteTicket(c), ~Unticket(c), ~Look(c)
      PROVE  WaiterHasTicket'
  <2>1. UNCHANGED tickets
    BY <1>4 DEF WrapperStep, TakeCounter, CounterBusy, ReadCounter, TruncateCounter, WriteCounter,
              CounterFails, DropCounterLock, ReadStatus, Reclaim, CheckEligible, Claim, ClaimLost,
              WriteBody, CountPass, Spawn, Rewrite, Recorded, WriteFallback, CheckLock, RemoveLock,
              KillWrapper, files
  <2>2. wpc'[c] \in Polling => wpc[c] \in Polling
    BY <1>4 DEF WrapperStep, TakeCounter, CounterBusy, ReadCounter, TruncateCounter, WriteCounter,
              CounterFails, DropCounterLock, ReadStatus, Reclaim, CheckEligible, Claim, ClaimLost,
              WriteBody, CountPass, Spawn, Rewrite, Recorded, WriteFallback, CheckLock, RemoveLock,
              KillWrapper, Goto, TypeOK, Polling
  <2> QED
    BY <1>0, <1>4, <2>1, <2>2
<1>5. ASSUME NEW c \in Client, RunnerStep(c) \/ KillRunner(c) PROVE WaiterHasTicket'
  BY <1>5 DEF RunnerStep, EarlyResult, FinalResult, RunnerCheckLock, RunnerRemoveLock,
              KillRunner, files, wrapper
<1>6. CASE UNCHANGED vars
  BY <1>6 DEF vars, files, wrapper
<1>7. CASE Next
  BY <1>1, <1>2, <1>3, <1>4, <1>5, <1>7, StepOf
<1> QED
  BY <1>6, <1>7

\* A wrapper's poll is fresh, step by step, and nobody else is amid one.
LEMMA FreshStepOf ==
  ASSUME ~Slow, TypeOK, PollInv, NEW c \in Client, WrapperMayRun(c), WrapperStep(c) \/ KillWrapper(c)
  PROVE  \A d \in Client : Fresh(d)'
<1>0. /\ \A d \in Client : d # c => ~WrapperUrgent(d) /\ wpc'[d] = wpc[d]
      /\ Fresh(c)
  BY OthersAreNotUrgent, WrapperMoves DEF PollInv
<1>1. \A d \in Client : d # c => Fresh(d)'
  BY <1>0 DEF Fresh, WrapperUrgent
<1>2. CASE Look(c)
  <2>1. c \in tickets /\ c \notin DeadTickets(c)
    BY <1>2 DEF PollInv, WaiterHasTicket, Polling, Look, DeadTickets, Ended
  <2>2. seen'[c] = tickets' /\ wpc'[c] = "status"
    BY <1>2, <2>1 DEF Look, Goto, TypeOK
  <2> QED
    BY <1>1, <2>2 DEF Fresh
<1>3. CASE CheckEligible(c)
  <2>1. /\ wpc[c] = "elig" /\ wpc'[c] \in {"claim", "look"} /\ (wpc'[c] = "claim" => Eligible(c))
        /\ UNCHANGED <<tickets, seen, seq, passes>>
    BY <1>3 DEF CheckEligible, Goto, TypeOK, files
  <2>2. Eligible(c)' = Eligible(c)
    BY <2>1 DEF Eligible, First, Heavy
  <2> QED
    BY <1>0, <1>1, <2>1, <2>2 DEF Fresh
<1>4. CASE ReadStatus(c) \/ Reclaim(c)
  <2>1. /\ wpc[c] \in {"status", "reclaim"} /\ wpc'[c] # "claim"
        /\ UNCHANGED <<tickets, seen>>
    BY <1>4 DEF ReadStatus, Reclaim, Goto, TypeOK, files
  <2> QED
    BY <1>0, <1>1, <2>1 DEF Fresh
<1>5. ASSUME ~Look(c), ~CheckEligible(c), ~ReadStatus(c), ~Reclaim(c) PROVE Fresh(c)'
  <2>1. wpc'[c] \notin {"status", "reclaim", "elig", "claim"}
    BY <1>5 DEF WrapperStep, TakeCounter, CounterBusy, ReadCounter, TruncateCounter, WriteCounter,
              CounterFails, DropCounterLock, WriteTicket, Claim, ClaimLost, WriteBody, Unticket,
              CountPass, Spawn, Rewrite, Recorded, WriteFallback, CheckLock, RemoveLock, KillWrapper,
              Goto, TypeOK
  <2> QED
    BY <2>1 DEF Fresh
<1> QED
  BY <1>1, <1>2, <1>3, <1>4, <1>5

\* Every step keeps the polls fresh: runners do not step amid one.
LEMMA PollStep ==
  ASSUME ~Slow, TypeOK, PollInv, [Next]_vars
  PROVE  PollInv'
<1>1. ASSUME NEW c \in Client, RunnerMayRun(c), RunnerStep(c) \/ KillRunner(c)
      PROVE  \A d \in Client : Fresh(d)'
  <2>1. UNCHANGED wpc
    BY <1>1 DEF RunnerStep, EarlyResult, FinalResult, RunnerCheckLock, RunnerRemoveLock, KillRunner,
                wrapper
  <2> QED
    BY <1>1, <2>1, OthersAreNotUrgent DEF Fresh, WrapperUrgent
<1>2. CASE UNCHANGED vars
  BY <1>2, TicketStep DEF vars, files, wrapper, PollInv, Fresh, Eligible, First, Heavy
<1>3. CASE Next
  BY <1>1, <1>3, TicketStep, FreshStepOf DEF Next, PollInv
<1> QED
  BY <1>2, <1>3

\* At the start nobody polls.
LEMMA PollInit == Init => PollInv
BY DEF Init, PollInv, WaiterHasTicket, Fresh, Polling

\* A claim is made by the first of its lane.
LEMMA ClaimInTurn ==
  ASSUME PollInv, NEW c \in Client, NEW d \in Client, wpc[c] = "claim", wpc[d] \in Polling,
         c \in Fast <=> d \in Fast
  PROVE  seq[c] <= seq[d]
BY DEF PollInv, WaiterHasTicket, Fresh, Eligible, First, Heavy

\* "Clients are served in strict arrival (FIFO) order" (build-queue.ps1:7) within
\* their lane, for any number of jobs, wherever wrappers and runners die and
\* operations fail, as long as a poll is not held up between reading and claiming.
THEOREM JobsAreServedInTurn ==
  ASSUME ~Slow
  PROVE  Spec => InTurn
<1>1. Init => TypeOK /\ PollInv
  BY InitTypeOK, PollInit
<1>2. TypeOK /\ PollInv /\ [Next]_vars => TypeOK' /\ PollInv'
  BY TypeStep, PollStep
<1>3. PollInv => \A c, d \in Client : wpc[c] = "claim" /\ wpc'[c] = "body" /\ wpc[d] \in Polling
                                    /\ (c \in Fast <=> d \in Fast) => seq[c] <= seq[d]
  BY ClaimInTurn
<1> QED
  BY <1>1, <1>2, <1>3, PTL DEF Spec, InTurn

-----------------------------------------------------------------------------
(***************************************************************************)
(* Nobody starves a heavy job.  A claim comes first and is counted later,  *)
(* but active.lock is held in between, so at most one claim is not yet     *)
(* counted.                                                                *)
(***************************************************************************)

\* c holds active.lock and has not counted its claim.
Claimed(c) == wpc[c] \in {"body", "unticket", "count"}

\* Every claim that is counted is in passes.
Settled == (\A c \in Client : ~Claimed(c)) => \A h \in Client : overtaken[h] <= passes

\* The one that is not is the claim of the lock's holder.
Pending ==
  \A c \in Client : Claimed(c) =>
    \A h \in Client : IF c \in Fast THEN overtaken[h] <= passes + 1 ELSE overtaken[h] = 0

CountInv ==
  /\ overtaken \in [Client -> Nat]
  /\ HeavyNotStarved /\ Settled /\ Pending

\* A step that claims and counts nothing.
LEMMA QuietCount ==
  ASSUME CountInv, UNCHANGED <<passes, overtaken>>, \A d \in Client : Claimed(d)' = Claimed(d)
  PROVE  CountInv'
BY DEF CountInv, Settled, Pending, HeavyNotStarved

\* While one wrapper holds active.lock nobody else does.
LEMMA OneClaimed ==
  ASSUME LockInv
  PROVE  /\ \A c, d \in Client : Claimed(c) /\ Claimed(d) => c = d
         /\ lock = NoLock => \A c \in Client : ~Claimed(c)
BY BuildQueueAssumption DEF LockInv, OneBody, Owns, Claimed, NoLock, EmptyLock, LockOf

\* A claim: it overtakes only with a pass left, and makes a heavy start anew.
LEMMA ClaimCounts ==
  ASSUME LockInv, PollInv, CountInv, NEW c \in Client, Claim(c)
  PROVE  CountInv'
<1>0. /\ TypeOK /\ passes \in 0 .. K /\ K \in Nat
      /\ lock = NoLock /\ wpc[c] = "claim"
      /\ wpc' = [wpc EXCEPT ![c] = "body"] /\ passes' = passes
      /\ wpc'[c] = "body" /\ \A d \in Client : d # c => wpc'[d] = wpc[d]
  BY BuildQueueAssumption DEF Claim, Goto, LockInv, TypeOK
<1>1. \A d \in Client : ~Claimed(d) /\ overtaken[d] <= passes /\ overtaken[d] \in Nat
  BY <1>0, OneClaimed DEF CountInv, Settled
<1>2. \A d \in Client : Claimed(d)' => d = c
  BY <1>0, <1>1 DEF Claimed
<1>3. Claimed(c)'
  BY <1>0 DEF Claimed
<1>4. ASSUME c \in Fast, NEW h \in FirstHeavy PROVE passes < K
  <2>1. h \in seen[c] \cap Heavy
    BY <1>0 DEF FirstHeavy, PollInv, Fresh
  <2>2. Eligible(c)
    BY <1>0 DEF PollInv, Fresh
  <2> QED
    BY <1>4, <2>1, <2>2 DEF Eligible
<1>5. ASSUME NEW h \in Client
      PROVE  /\ overtaken'[h] \in Nat /\ overtaken'[h] <= K
             /\ c \in Fast => overtaken'[h] <= passes + 1
             /\ c \notin Fast => overtaken'[h] = 0
  <2>1. overtaken'[h] = IF c \notin Fast THEN 0
                        ELSE IF h \in FirstHeavy THEN overtaken[h] + 1 ELSE overtaken[h]
    BY DEF Claim
  <2> QED
    BY <1>0, <1>1, <1>4, <2>1
<1>6. overtaken' \in [Client -> Nat]
  BY <1>5 DEF Claim
<1> QED
  BY <1>0, <1>2, <1>3, <1>5, <1>6 DEF CountInv, HeavyNotStarved, Settled, Pending

\* Every step of a wrapper keeps the claims in step with their count.
LEMMA WrapperCounts ==
  ASSUME Faults = 0, LockInv, PollInv, CountInv, NEW c \in Client, WrapperStep(c)
  PROVE  CountInv'
<1>0. TypeOK /\ ~Fault /\ \A d \in Client : d # c => wpc'[d] = wpc[d]
  BY NoFault, WrapperMoves DEF LockInv
<1>1. CASE Claim(c)
  BY <1>1, ClaimCounts
<1>2. CASE WriteBody(c) \/ Unticket(c)
  <2>1. /\ wpc[c] \in {"body", "unticket"} /\ wpc'[c] \in {"unticket", "count"}
        /\ UNCHANGED <<passes, overtaken>>
    BY <1>0, <1>2 DEF WriteBody, Unticket, Goto, TypeOK
  <2> QED
    BY <1>0, <2>1, QuietCount DEF Claimed
<1>3. CASE CountPass(c)
  <2>1. /\ wpc[c] = "count" /\ wpc'[c] = "spawn"
        /\ passes' = IF c \notin Fast THEN 0 ELSE IF passes < K THEN passes + 1 ELSE K
        /\ overtaken' = overtaken /\ passes \in 0 .. K
    BY <1>0, <1>3 DEF CountPass, Goto, TypeOK
  <2>2. \A d \in Client : ~Claimed(d)'
    BY <1>0, <2>1, OneClaimed DEF Claimed
  <2>3. \A h \in Client : overtaken[h] \in Nat /\ overtaken[h] <= K
                          /\ IF c \in Fast THEN overtaken[h] <= passes + 1 ELSE overtaken[h] = 0
    BY <2>1 DEF CountInv, HeavyNotStarved, Pending, Claimed
  <2>4. \A h \in Client : overtaken'[h] <= passes'
    BY <2>1, <2>3, BuildQueueAssumption
  <2> QED
    BY <2>1, <2>2, <2>4 DEF CountInv, Settled, Pending, HeavyNotStarved
<1>4. CASE \/ TakeCounter(c) \/ CounterBusy(c) \/ ReadCounter(c) \/ TruncateCounter(c)
           \/ WriteCounter(c) \/ CounterFails(c) \/ DropCounterLock(c) \/ WriteTicket(c)
           \/ Look(c) \/ ReadStatus(c) \/ Reclaim(c) \/ CheckEligible(c) \/ ClaimLost(c)
  <2>1. ~Claimed(c) /\ ~Claimed(c)' /\ UNCHANGED <<passes, overtaken>>
    BY <1>0, <1>4 DEF TakeCounter, CounterBusy, ReadCounter, TruncateCounter, WriteCounter,
              CounterFails, DropCounterLock, WriteTicket, Look, ReadStatus, Reclaim, CheckEligible,
              ClaimLost, Goto, TypeOK, Claimed, files
  <2> QED
    BY <1>0, <2>1, QuietCount DEF Claimed
<1>5. CASE \/ Spawn(c) \/ Rewrite(c) \/ Recorded(c) \/ WriteFallback(c) \/ CheckLock(c) \/ RemoveLock(c)
  <2>1. ~Claimed(c) /\ ~Claimed(c)' /\ UNCHANGED <<passes, overtaken>>
    BY <1>0, <1>5 DEF Spawn, Rewrite, Recorded, WriteFallback, CheckLock, RemoveLock, Goto, TypeOK,
              Claimed, files
  <2> QED
    BY <1>0, <2>1, QuietCount DEF Claimed
<1> QED
  BY <1>1, <1>2, <1>3, <1>4, <1>5 DEF WrapperStep

\* Runners claim and count nothing.
LEMMA RunnerCounts ==
  ASSUME CountInv, NEW c \in Client, RunnerStep(c) \/ KillRunner(c)
  PROVE  CountInv'
<1>1. UNCHANGED <<passes, wpc, overtaken>>
  BY DEF RunnerStep, EarlyResult, FinalResult, RunnerCheckLock, RunnerRemoveLock, KillRunner,
         files, wrapper
<1> QED
  BY <1>1, QuietCount DEF Claimed

\* "after K consecutive fast-lane claims the oldest heavy waiter is admitted"
\* (build-queue.ps1:328), for any number of jobs in either lane, whatever K is
\* and wherever runners are killed.
THEOREM HeavyJobsAreNotStarved ==
  ASSUME ~Slow, WrapperKills = 0, Faults = 0
  PROVE  Spec => []HeavyNotStarved
<1> DEFINE I == PollInv /\ LockInv /\ NotKilled /\ CountInv
<1>1. Init => I
  <2> SUFFICES ASSUME Init PROVE CountInv
    BY PollInit, LockInit
  <2> QED
    BY BuildQueueAssumption DEF Init, CountInv, Settled, Pending, Claimed, HeavyNotStarved
<1>2. I /\ [Next]_vars => I'
  <2> SUFFICES ASSUME I, [Next]_vars PROVE I'
    OBVIOUS
  <2>1. PollInv' /\ LockInv' /\ NotKilled' /\ \A c \in Client : ~KillWrapper(c)
    BY PollStep, LockStep, NoKillStep DEF LockInv
  <2>2. CASE UNCHANGED vars
    BY <2>1, <2>2, QuietCount DEF vars, files, wrapper, Claimed
  <2>3. CASE Next
    BY <2>1, <2>3, WrapperCounts, RunnerCounts DEF Next
  <2> QED
    BY <2>1, <2>2, <2>3
<1>3. I => HeavyNotStarved
  BY DEF CountInv
<1> QED
  BY <1>1, <1>2, <1>3, PTL DEF Spec
=============================================================================
