---------------------------- MODULE BuildOutcome ----------------------------
(***************************************************************************)
(* How the outcome of one queued build reaches who asked for it: the file  *)
(* results/<seq>.json that the runner of build-queue-runner.ps1 writes     *)
(* early and again after its hygiene, the wrapper of build-queue.ps1 that  *)
(* waits for it, and build-queue-await.ps1.  A write is a temporary file   *)
(* and File.Replace, or WriteAllText where that throws, as it does when    *)
(* there is nothing to replace; what fails is swallowed.                   *)
(***************************************************************************)
EXTENDS Naturals

CONSTANT Faults     \* bound: how many operations on files fail

ASSUME BuildOutcomeAssumption == Faults \in Nat

VARIABLES
  result,     \* results/<seq>.json: "none", "torn", or its exit code
  built,      \* what the build came to
  phase,      \* where runner and wrapper are
  step,       \* where each is in the write of its phase
  text,       \* the exit code it is writing
  exitCode,   \* with what the runner's process ended
  told,       \* with what the wrapper exits
  heard,      \* and build-queue-await.ps1
  faults,     \* how many operations failed
  known       \* ghost: the first exit code that was readable in result

vars == <<result, built, phase, step, text, exitCode, told, heard, faults, known>>

Process == {"runner", "wrapper"}

Code == {"green", "red"}    \* exit codes: zero, and any other

Fault == faults < Faults /\ faults' = faults + 1

Init ==
  /\ result = "none"
  /\ built = "none"
  /\ phase = [runner |-> "build", wrapper |-> "poll"]
  /\ step = [p \in Process |-> "idle"]
  /\ text = [p \in Process |-> "none"]
  /\ exitCode = "none"
  /\ told = "none"
  /\ heard = "none"
  /\ faults = 0
  /\ known = "none"

Goto(p, to) == phase' = [phase EXCEPT ![p] = to]

-----------------------------------------------------------------------------
(* A write of process p, and the phase that follows it. *)

After == [early |-> "hygiene", final |-> "release", salvage |-> "release", merge |-> "tell"]

\* The temporary file is written.
Begin(p, writing, code) ==
  /\ Goto(p, writing)
  /\ step' = [step EXCEPT ![p] = "replace"]
  /\ text' = [text EXCEPT ![p] = code]

End(p) ==
  /\ Goto(p, After[phase[p]])
  /\ step' = [step EXCEPT ![p] = "idle"]

Put(content) ==
  /\ result' = content
  /\ known' = IF known = "none" /\ content \in Code THEN content ELSE known

Replace(p) ==
  /\ step[p] = "replace"
  /\ \/ result # "none" /\ Put(text[p]) /\ End(p) /\ UNCHANGED faults
     \/ /\ IF result = "none" THEN UNCHANGED faults ELSE Fault
        /\ step' = [step EXCEPT ![p] = "truncate"]
        /\ UNCHANGED <<result, phase, known>>
  /\ UNCHANGED <<built, text, exitCode, told, heard>>

\* WriteAllText opens the file, which empties it, and fills it.
Truncate(p) ==
  /\ step[p] = "truncate"
  /\ \/ Put("torn") /\ step' = [step EXCEPT ![p] = "fill"] /\ UNCHANGED <<phase, faults>>
     \/ Fault /\ End(p) /\ UNCHANGED <<result, known>>
  /\ UNCHANGED <<built, text, exitCode, told, heard>>

Fill(p) ==
  /\ step[p] = "fill"
  /\ \/ Put(text[p]) /\ UNCHANGED faults
     \/ Fault /\ UNCHANGED <<result, known>>
  /\ End(p)
  /\ UNCHANGED <<built, text, exitCode, told, heard>>

Write(p) == Replace(p) \/ Truncate(p) \/ Fill(p)

-----------------------------------------------------------------------------
(* The runner. *)

\* The build's exit code, after its log was classified; null when it could
\* not be started.
BuildCode == IF built \in Code THEN built ELSE "null"

BuildEnds ==
  /\ phase.runner = "build"
  /\ built' \in Code \cup {"unspawned"}
  /\ Goto("runner", "ended")
  /\ UNCHANGED <<result, step, text, exitCode, told, heard, faults, known>>

\* A known exit code is written before any hygiene.
EarlyWrite ==
  /\ phase.runner = "ended"
  /\ \/ built \in Code /\ Begin("runner", "early", built) /\ UNCHANGED faults
     \/ built \notin Code /\ Goto("runner", "hygiene") /\ UNCHANGED <<step, text, faults>>
     \/ built \in Code /\ Fault /\ Goto("runner", "hygiene") /\ UNCHANGED <<step, text>>
  /\ UNCHANGED <<result, built, exitCode, told, heard, known>>

FinalWrite ==
  /\ phase.runner = "hygiene"
  /\ \/ Begin("runner", "final", BuildCode) /\ UNCHANGED faults
     \/ Fault /\ Goto("runner", "unsaved") /\ UNCHANGED <<step, text>>
  /\ UNCHANGED <<result, built, exitCode, told, heard, known>>

\* Mutant: exit $null, which PowerShell takes for success.
RunnerCodeNull == IF built = "red" THEN "red" ELSE "green"

\* The runner never ends with zero for a build that did not start.
RunnerCode == IF built \in Code THEN built ELSE "red"

\* The temporary file of the final write failed: write what is there once
\* more, or a minimal result if nothing is or it cannot be read.
Salvage ==
  /\ phase.runner = "unsaved"
  /\ \/ Begin("runner", "salvage", IF result # "none" THEN result ELSE RunnerCode) /\ UNCHANGED faults
     \/ Begin("runner", "salvage", RunnerCode) /\ Fault
     \/ Goto("runner", "release") /\ Fault /\ UNCHANGED <<step, text>>
  /\ UNCHANGED <<result, built, exitCode, told, heard, known>>

RunnerExits ==
  /\ phase.runner = "release"
  /\ exitCode' = RunnerCode
  /\ Goto("runner", "gone")
  /\ UNCHANGED <<result, built, step, text, told, heard, faults, known>>

-----------------------------------------------------------------------------
(* The wrapper: Wait-ForRecordedOutcome, then the fallback. *)

Tells(code) == told' = code /\ Goto("wrapper", "told")

Poll ==
  /\ phase.wrapper = "poll"
  /\ result \in Code
  /\ Tells(result)
  /\ UNCHANGED <<result, built, step, text, exitCode, heard, faults, known>>

\* Mutant: a file that is there is taken to become readable.
SeeExitWithoutFile ==
  /\ phase.wrapper = "poll"
  /\ phase.runner = "gone"
  /\ result = "none"
  /\ Goto("wrapper", "last")
  /\ UNCHANGED <<result, built, step, text, exitCode, told, heard, faults, known>>

\* Nothing was readable, and now the runner is gone.
SeeExit ==
  /\ phase.wrapper = "poll"
  /\ phase.runner = "gone"
  /\ Goto("wrapper", "last")
  /\ UNCHANGED <<result, built, step, text, exitCode, told, heard, faults, known>>

\* Mutant: no read after the runner was seen to be gone.
LastReadSkipped ==
  /\ phase.wrapper = "last"
  /\ Goto("wrapper", "fallback")
  /\ UNCHANGED <<result, built, step, text, exitCode, told, heard, faults, known>>

\* "one final read".
LastRead ==
  /\ phase.wrapper = "last"
  /\ \/ result \in Code /\ Tells(result)
     \/ result \notin Code /\ Goto("wrapper", "fallback") /\ UNCHANGED told
  /\ UNCHANGED <<result, built, step, text, exitCode, heard, faults, known>>

\* The process's exit code goes into what is there, or into a new result.
Merge ==
  /\ phase.wrapper = "fallback"
  /\ Goto("wrapper", "merge")
  /\ text' = [text EXCEPT !.wrapper = exitCode]
  /\ \/ step' = [step EXCEPT !.wrapper = "replace"] /\ UNCHANGED faults
     \/ step' = [step EXCEPT !.wrapper = "truncate"] /\ Fault
  /\ UNCHANGED <<result, built, exitCode, told, heard, known>>

Tell ==
  /\ phase.wrapper = "tell"
  /\ Tells(exitCode)
  /\ UNCHANGED <<result, built, step, text, exitCode, heard, faults, known>>

-----------------------------------------------------------------------------
(* build-queue-await.ps1: [int]$null is 0. *)

AwaitRead ==
  /\ heard = "none"
  /\ result \notin {"none", "torn"}
  /\ heard' = IF result = "null" THEN "green" ELSE result
  /\ UNCHANGED <<result, built, phase, step, text, exitCode, told, faults, known>>

\* 124 or 125; 1 once the build is seen to be dead.
AwaitGivesUp ==
  /\ heard = "none"
  /\ result \in {"none", "torn"}
  /\ heard' \in {"unknown"} \cup (IF phase.runner = "gone" THEN {"red"} ELSE {})
  /\ UNCHANGED <<result, built, phase, step, text, exitCode, told, faults, known>>

-----------------------------------------------------------------------------
\* TerminateProcess, anywhere: the exit code of what is killed is not zero.
Kill(p) ==
  /\ phase[p] \notin {"gone", "told", "dead"}
  /\ Goto(p, IF p = "runner" THEN "gone" ELSE "dead")
  /\ step' = [step EXCEPT ![p] = "idle"]
  /\ exitCode' = IF p = "runner" THEN "red" ELSE exitCode
  /\ UNCHANGED <<result, built, text, told, heard, faults, known>>

RunnerStep == BuildEnds \/ EarlyWrite \/ FinalWrite \/ Salvage \/ RunnerExits \/ Write("runner")

WrapperStep == Poll \/ SeeExit \/ LastRead \/ Merge \/ Tell \/ Write("wrapper")

Next == RunnerStep \/ WrapperStep \/ AwaitRead \/ AwaitGivesUp \/ \E p \in Process : Kill(p)

\* The build ends, and no process is starved by the operating system.
Fairness == WF_vars(RunnerStep) /\ WF_vars(WrapperStep)

Spec == Init /\ [][Next]_vars /\ Fairness

-----------------------------------------------------------------------------
(* Properties. *)

\* No "false green" (build-queue-runner.ps1:574-577, build-queue-hygiene.ps1:2608):
\* neither the wrapper nor the record says zero of a build that failed or was
\* never started, wherever runner and wrapper die and writes fail.
NoFalseGreen == "green" \in {told, result} => built = "green"

\* "A readable result ALWAYS wins over process-liveness" (build-queue-hygiene.ps1:2600),
\* so a runner killed in its hygiene does not turn a recorded outcome into its
\* own: unless an operation failed, the wrapper tells what was recorded first.
RecordedIsTold == told # "none" /\ known # "none" /\ faults = 0 => told = known

\* A wrapper that is not killed exits with an outcome, also when its runner
\* dies before it has written one or amid the write.
OutcomeTold == <>(told \in Code \/ phase.wrapper = "dead")

\* "A kill anywhere from here down leaves the truthful early result above"
\* (build-queue-runner.ps1:423-424).
KillLeavesResult == phase.runner = "gone" /\ known # "none" => result = known

\* "125 ... the result file is present but unreadable / carries no exit_code"
\* (build-queue-await.ps1:29-31): what has no exit code is not a success.
AwaitIsTruthful == heard = "green" => built = "green"
=============================================================================
