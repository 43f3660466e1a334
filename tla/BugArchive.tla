------------------------------ MODULE BugArchive ------------------------------
(***************************************************************************)
(* The end of a fixed bug: bug-state.py --archive-fixed.                   *)
(*                                                                         *)
(* Its directory is moved under _archive/, the references to it are        *)
(* repointed, its row leaves the queue and one commit records it all.  The *)
(* call takes many steps on the file system and in git; other processes    *)
(* may hold its files, and it may die between any two.  Meanwhile the      *)
(* router and the bugs that depend on this one look at what is there.      *)
(***************************************************************************)
EXTENDS Naturals, Sequences

CONSTANT MaxFaults   \* bound on crashes, failures of git and files held by others

ASSUME BugArchiveAssumption == MaxFaults \in Nat

VARIABLES
  old,      \* the earlier bug of the same name in _archive/, if any
  status,   \* **Status:** in SPEC.md
  dirs,     \* the directories that exist
  at,       \* where in the work tree each of the bug's files is
  blocked,  \* the note in the bug's own directory is still called BLOCKED.md
  queued,   \* queue.json has the bug's row
  ref,      \* where the references to the bug point
  head,     \* what HEAD has of at, queued and ref
  call,     \* the running --archive-fixed
  said,     \* its last result
  held,     \* the files at home another process has open
  faults,
  mishaps   \* ghost: the steps in which calls ended short, "home" if the emptied
            \* directory stayed, "note" if BLOCKED.md made it again

tree  == <<dirs, at, blocked>>
links == <<queued, ref>>
vars  == <<old, status, tree, links, head, call, said, held, faults, mishaps>>

\* docs/bugs/<id>, docs/bugs/_archive/<id> and _archive/<id>-archived-<date>.
Place == {"home", "archive", "dated"}
Order == <<"NOTE", "FIXED", "SPEC">>    \* as git ls-files sorts them
File  == {"NOTE", "FIXED", "SPEC"}      \* NOTE: BLOCKED.md, or its resolved name

At(p) == {f \in File : p \in at[f]}
Idle  == [pc |-> "idle", dest |-> "archive", todo |-> {}, left |-> FALSE, repointed |-> FALSE]

Moved(files, dest) ==
  [f \in File |-> IF f \in files THEN (at[f] \ {"home"}) \cup {dest} ELSE at[f]]

-----------------------------------------------------------------------------
(* What others make of it. *)

HasReceipt == "FIXED" \in At("home")

\* load_bug_queue and the completion gate of compute_state.
RouterSees ==
  LET here == IF "SPEC" \in At("home") THEN status ELSE "none"
      over == here = "Wont-fix" \/ (here = "Fixed" /\ HasReceipt)
  IN  IF "home" \notin dirs \/ (~queued /\ (here = "none" \/ over)) THEN "absent"
      ELSE IF over THEN "done"
      ELSE IF here = "Fixed" THEN "completion-unverified"
      ELSE IF blocked THEN "blocked"
      ELSE "work"

\* Mutant: the archive is not looked into.
DepStatusHomeOnly ==
  IF "home" \notin dirs THEN "missing"
  ELSE IF "SPEC" \notin At("home") THEN "incomplete"
  ELSE IF status = "Wont-fix" THEN "unsatisfiable"
  ELSE IF status = "Fixed" /\ HasReceipt THEN "complete"
  ELSE "incomplete"

\* dep_completion_status of a bug that depends on this one.
DepStatus ==
  LET first == IF "home" \in dirs THEN "home" ELSE "archive"
      has   == At(first)
      other == first = "archive" /\ old # "none"
      is    == IF other THEN old ELSE IF "SPEC" \in has THEN status ELSE "none"
  IN  CASE first \notin dirs -> "missing"
        [] first \in dirs /\ is = "Wont-fix" -> "unsatisfiable"
        [] first \in dirs /\ is = "Fixed" /\ (other \/ "FIXED" \in has) -> "complete"
        [] OTHER -> "incomplete"

-----------------------------------------------------------------------------
Init ==
  /\ old \in {"none", "Fixed", "Wont-fix"}
  /\ status = "open"
  /\ dirs = IF old = "none" THEN {"home"} ELSE {"home", "archive"}
  /\ at = [f \in File |-> IF f = "SPEC" THEN {"home"} ELSE {}]
  /\ blocked = FALSE
  /\ queued \in BOOLEAN /\ ref = "home"
  /\ head = [at |-> at, queued |-> queued, ref |-> ref]
  /\ call = Idle /\ said = "none" /\ held = {} /\ faults = 0 /\ mishaps = {}

Quiet == call.pc = "idle" /\ ~blocked

\* apply_pseudo __mark_fixed__, or a person who closes the bug: without a fix,
\* or as fixed with no receipt.
Close ==
  /\ Quiet /\ status = "open"
  /\ \/ status' = "Fixed" /\ at' = [at EXCEPT !["FIXED"] = {"home"}]
     \/ status' \in {"Fixed", "Wont-fix"} /\ UNCHANGED at
  /\ UNCHANGED <<old, dirs, blocked, links, head, call, said, held, faults, mishaps>>

\* --backfill-receipts: beside every SPEC.md that says Fixed.
Backfill ==
  /\ Quiet /\ status = "Fixed" /\ ~at["SPEC"] \subseteq at["FIXED"]
  /\ at' = [at EXCEPT !["FIXED"] = @ \cup at["SPEC"]]
  /\ UNCHANGED <<old, status, dirs, blocked, links, head, call, said, held, faults, mishaps>>

Fault == faults < MaxFaults /\ faults' = faults + 1

Says(what) == said' = what /\ call' = Idle

Hold(f) ==
  /\ Fault /\ f \in At("home") \ held /\ held' = held \cup {f}
  /\ UNCHANGED <<old, status, tree, links, head, call, said, mishaps>>

Release(f) ==
  /\ f \in held /\ held' = held \ {f}
  /\ UNCHANGED <<old, status, tree, links, head, call, said, faults, mishaps>>

-----------------------------------------------------------------------------
(* archive_fixed *)

\* Mutant: a call that does not find the directory gives up.
ResumableNever == FALSE

\* The directory is gone and its archive is there.
Resumable == "home" \notin dirs /\ "archive" \in dirs

\* Steps 1 to 3, and the choice of a destination.  The evidence lines or git
\* add may fail.
ArchiveFixed ==
  LET gated == HasReceipt \/ ("SPEC" \in At("home") /\ status = "Wont-fix")
      free  == {p \in {"archive", "dated"} : p \notin dirs}
      dest  == IF "archive" \in free THEN "archive" ELSE "dated"
  IN  /\ Quiet /\ status # "open"
      /\ \/ /\ Resumable /\ UNCHANGED faults
            /\ call' = [Idle EXCEPT !.pc = "repoint"] /\ said' = "none"
         \/ /\ IF "home" \in dirs THEN ~gated \/ free = {} ELSE ~Resumable
            /\ Says("refused") /\ UNCHANGED faults
         \/ "home" \in dirs /\ gated /\ Fault /\ Says("failed")
         \/ /\ "home" \in dirs /\ gated /\ free # {} /\ UNCHANGED faults
            /\ call' = [Idle EXCEPT !.pc = "move", !.dest = dest] /\ said' = "none"
      /\ UNCHANGED <<old, status, tree, links, head, held, mishaps>>

\* Step 4: git mv of the directory.
Move ==
  /\ call.pc = "move" /\ held = {}
  /\ at' = Moved(At("home"), call.dest)
  /\ dirs' = (dirs \ {"home"}) \cup {call.dest}
  /\ call' = [call EXCEPT !.pc = "repoint"]
  /\ UNCHANGED <<old, status, blocked, links, head, said, held, faults, mishaps>>

\* All retries failed, for a file or the directory itself is open elsewhere:
\* one file after the other, in the order of git ls-files.
MoveRefused ==
  /\ call.pc = "move"
  /\ \/ held # {} /\ UNCHANGED faults
     \/ held = {} /\ Fault
  /\ dirs' = dirs \cup {call.dest}
  /\ call' = [call EXCEPT !.pc = "file", !.todo = At("home")]
  /\ UNCHANGED <<old, status, at, blocked, links, head, said, held, mishaps>>

MoveFile ==
  /\ call.pc = "file"
  /\ \E i \in DOMAIN Order :
       LET f == Order[i] IN
       /\ f \in call.todo /\ \A j \in 1 .. i - 1 : Order[j] \notin call.todo
       /\ at' = IF f \in held THEN at ELSE Moved({f}, call.dest)
       /\ call' = [call EXCEPT !.todo = @ \ {f}, !.left = @ \/ f \in held]
  /\ UNCHANGED <<old, status, dirs, blocked, links, head, said, held, faults, mishaps>>

\* Mutant: what stayed behind is not looked at.
FilesMovedRegardless ==
  /\ call.pc = "file" /\ call.todo = {}
  /\ call' = [call EXCEPT !.pc = "repoint"]
  /\ dirs' = dirs \ {"home"}
  /\ UNCHANGED <<old, status, at, blocked, links, head, said, held, faults, mishaps>>

\* Files left behind are an error; an emptied directory that cannot be removed
\* is not.
FilesMoved ==
  /\ call.pc = "file" /\ call.todo = {}
  /\ \/ /\ call.left /\ Says("failed") /\ mishaps' = mishaps \cup {"file"}
        /\ UNCHANGED <<dirs, faults>>
     \/ /\ ~call.left /\ call' = [call EXCEPT !.pc = "repoint"] /\ UNCHANGED said
        /\ \/ dirs' = dirs \ {"home"} /\ UNCHANGED <<faults, mishaps>>
           \/ Fault /\ mishaps' = mishaps \cup {"home"} /\ UNCHANGED dirs
  /\ UNCHANGED <<old, status, at, blocked, links, head, held>>

\* Step 5; files that cannot be read are passed over.
Repoint ==
  /\ call.pc = "repoint"
  /\ \/ /\ ref' = IF ref = "home" THEN call.dest ELSE ref
        /\ call' = [call EXCEPT !.pc = "trim", !.repointed = ref = "home"]
        /\ UNCHANGED faults
     \/ Fault /\ call' = [call EXCEPT !.pc = "trim"] /\ UNCHANGED ref
  /\ UNCHANGED <<old, status, tree, queued, head, said, held, mishaps>>

\* Step 6.
Trim ==
  /\ call.pc = "trim" /\ queued' = FALSE /\ call' = [call EXCEPT !.pc = "commit"]
  /\ UNCHANGED <<old, status, tree, ref, head, said, held, faults, mishaps>>

\* Mutant: the commit names the destination only, not what left the source.
CommitDestOnly ==
  /\ call.pc = "commit"
  /\ head' = [at     |-> [f \in File |-> (head.at[f] \ {call.dest}) \cup (at[f] \cap {call.dest})],
              queued |-> queued,
              ref    |-> IF call.repointed THEN ref ELSE head.ref]
  /\ Says("ok")
  /\ UNCHANGED <<old, status, tree, links, held, faults, mishaps>>

\* Step 7: the commit is limited to the paths this call has to do with.
Commit ==
  LET owned == {"home", call.dest} IN
  /\ call.pc = "commit"
  /\ head' = [at     |-> [f \in File |-> (head.at[f] \ owned) \cup (at[f] \cap owned)],
              queued |-> queued,
              ref    |-> IF call.repointed THEN ref ELSE head.ref]
  /\ Says("ok")
  /\ UNCHANGED <<old, status, tree, links, held, faults, mishaps>>

\* An operation of git or of the file system fails, or queue.json is malformed.
StepFails ==
  /\ Fault /\ call.pc # "idle" /\ Says("failed")
  /\ mishaps' = mishaps \cup {call.pc}
  /\ UNCHANGED <<old, status, tree, links, head, held>>

\* The process is killed; nobody is told anything.
Crash ==
  /\ Fault /\ call.pc # "idle" /\ Says("killed")
  /\ mishaps' = mishaps \cup {call.pc}
  /\ UNCHANGED <<old, status, tree, links, head, held>>

-----------------------------------------------------------------------------
(* The orchestrator, when the call was not ok, and the person who reads it. *)

\* BLOCKED.md is written where the bug was, which makes the directory again.
Report ==
  /\ Quiet /\ said \in {"refused", "failed"}
  /\ at' = [at EXCEPT !["NOTE"] = @ \cup {"home"}]
  /\ dirs' = dirs \cup {"home"} /\ blocked' = TRUE
  /\ mishaps' = mishaps \cup (IF "home" \in dirs THEN {} ELSE {"note"})
  /\ UNCHANGED <<old, status, links, head, call, said, held, faults>>

\* --neutralize-sentinel renames it; a person may take it away with a
\* directory that held nothing else.
Resolve ==
  /\ blocked /\ blocked' = FALSE
  /\ \/ UNCHANGED <<dirs, at>>
     \/ /\ At("home") = {"NOTE"} /\ dirs' = dirs \ {"home"}
        /\ at' = [at EXCEPT !["NOTE"] = @ \ {"home"}]
  /\ UNCHANGED <<old, status, links, head, call, said, held, faults, mishaps>>

Steps == Move \/ MoveRefused \/ MoveFile \/ FilesMoved \/ Repoint \/ Trim \/ Commit

Next ==
  \/ ArchiveFixed \/ Steps \/ Close \/ Backfill \/ StepFails \/ Crash \/ Report \/ Resolve
  \/ \E f \in File : Hold(f) \/ Release(f)

Spec == Init /\ [][Next]_vars

\* A call goes on until it is done, and one that failed is called again.  Nobody
\* is known to call again after a kill.
Fairness ==
  /\ WF_vars(Steps)
  /\ WF_vars(said = "failed" /\ ArchiveFixed)

FairSpec == Spec /\ Fairness

-----------------------------------------------------------------------------
(* Properties *)

\* Types; a call that is under way has its directory, a row is not put back.
TypeOK ==
  /\ old \in {"none", "Fixed", "Wont-fix"} /\ status \in {"open", "Fixed", "Wont-fix"}
  /\ dirs \subseteq Place /\ at \in [File -> SUBSET Place] /\ blocked \in BOOLEAN
  /\ queued \in BOOLEAN /\ ref \in Place
  /\ head \in [at : [File -> SUBSET Place], queued : BOOLEAN, ref : Place]
  /\ call \in [pc : {"idle", "move", "file", "repoint", "trim", "commit"},
               dest : {"archive", "dated"}, todo : SUBSET File,
               left : BOOLEAN, repointed : BOOLEAN]
  /\ said \in {"none", "ok", "refused", "failed", "killed"}
  /\ held \subseteq File /\ faults \in 0 .. MaxFaults
  /\ mishaps \subseteq {"move", "file", "repoint", "trim", "commit", "home", "note"}

WholeAt(p) == at["SPEC"] = {p} /\ at["FIXED"] \subseteq {p}

\* An archive that was reported done leaves nothing open: none of the bug's files
\* is where it was, in the work tree or in HEAD, and its row is gone from the
\* queue of both, whatever failed or died and however many attempts it took.
NothingLeftOpen ==
  said = "ok" =>
    /\ At("home") = {} /\ \A f \in File : "home" \notin head.at[f]
    /\ ~queued /\ ~head.queued

\* "safe to re-run after a partial failure" (gates.py:2527): an archive that was
\* reported done leaves nothing open.  After attempts in which the files were moved
\* together it is whole, HEAD has what the work tree has, and the references too
\* if no earlier attempt ended between their change and the commit; under a dated
\* name, at a first attempt.  RerunIsSafe, below, has none of these conditions and
\* is false.
ArchivedIsCommitted ==
  /\ NothingLeftOpen
  /\ /\ said = "ok" /\ "file" \notin mishaps
     /\ old = "none" \/ mishaps \cap {"repoint", "trim", "commit"} = {}
     => /\ \E p \in {"archive", "dated"} : WholeAt(p)
        /\ head.at = at
        /\ mishaps \cap {"trim", "commit"} = {} => head.ref = ref

\* A bug with a receipt is fixed for everyone before, amid and after its archive:
\* the router neither works on it nor doubts it, and what depends on it is let go,
\* whichever step fails or dies, as long as its files move together, nothing takes
\* their place and no earlier bug had the name (see ArchivedIsComplete).
SeenAsFixed ==
  /\ status = "Fixed" /\ at["FIXED"] # {} /\ old = "none"
  /\ call.pc # "file" /\ mishaps \cap {"file", "home", "note"} = {}
  => RouterSees \in {"absent", "done"} /\ DepStatus = "complete"

\* "a re-run after a partial failure ... resumes from the archive destination"
\* (mark-fixed-archive.md:90-92): it gets to the end unless it is killed, a torn
\* or emptied directory is in the way, both names are taken or a person has a turn.
Resumes ==
  said = "failed" ~>
    \/ said \in {"ok", "killed"} \/ blocked
    \/ "home" \in dirs /\ ~WholeAt("home")
    \/ {"archive", "dated"} \subseteq dirs

\* "per-file git mv fallback left files behind -- PARTIAL STATE, resolve the locks
\* and re-run" (gates.py:2740-2741): a re-run that reports success has brought the
\* bug's files together.
RerunMakesWhole == said = "ok" => \E p \in {"archive", "dated"} : WholeAt(p)

\* "re-running resumes from the archive destination rather than redoing the move"
\* (gates.py:2566-2568), under a dated name too: what an attempt moved there is in
\* HEAD when a re-run reports success.
RerunCommitsMove == said = "ok" => head.at = at

\* "commit failed ... PARTIAL STATE (changes are staged), commit manually or
\* re-run" (gates.py:2852-2855): when a re-run reports success, the references it
\* or an earlier attempt repointed are in HEAD.
RerunCommitsReferences == said = "ok" => head.ref = ref

\* "safe to re-run after a partial failure" (gates.py:2527): however the earlier
\* attempts ended, a call that reports success has left one whole archive, and
\* HEAD has what the work tree has.  Each of the three parts is false.
RerunIsSafe == RerunMakesWhole /\ RerunCommitsMove /\ RerunCommitsReferences

\* dep_completion_status finds a fixed bug in "docs/bugs/<id>/ THEN
\* docs/bugs/_archive/<id>/ (__mark_fixed__ archives on fix)" (depdag.py:382-384):
\* what depends on a fixed bug is let go once its archive was reported done.
ArchivedIsComplete ==
  said = "ok" /\ status = "Fixed" /\ (\E p \in Place : WholeAt(p)) => DepStatus = "complete"
=============================================================================
