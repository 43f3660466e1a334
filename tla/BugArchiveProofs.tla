-------------------------- MODULE BugArchiveProofs --------------------------
(***************************************************************************)
(* What --archive-fixed promises of a bug that it reported archived and of *)
(* one that is on its way, for any number of crashes, failures of git and  *)
(* files held open, and any number of attempts.                            *)
(***************************************************************************)
EXTENDS BugArchive, TLAPS

-----------------------------------------------------------------------------
(* The inductive invariant. *)

Late == call.pc \in {"repoint", "trim", "commit"}

\* A file lies in a directory that exists, and so does what a call works on; past
\* the move none is where the bug was.
Placed ==
  /\ \A f \in File : at[f] \subseteq dirs /\ head.at[f] \subseteq dirs \cup {"home"}
  /\ Late \/ call.pc = "file" => call.dest \in dirs
  /\ call.pc = "file" => \A f \in call.todo : "home" \in at[f]
  /\ call.pc = "file" /\ ~call.left => \A f \in File : "home" \in at[f] => f \in call.todo
  /\ Late \/ said = "ok" => \A f \in File : "home" \notin at[f]

\* The bug's SPEC.md is in one place; a receipt is there once the move has begun.
Single ==
  /\ \E p \in Place : at["SPEC"] = {p}
  /\ status = "open" => at["SPEC"] = {"home"} /\ call.pc = "idle" /\ said # "ok"
  /\ status = "Fixed" /\ (call.pc \in {"move", "file"} \/ at["SPEC"] # {"home"}) => at["FIXED"] # {}

\* How far a call is, and what an ok means.
Progress ==
  /\ call.pc # "idle" => said = "none" /\ ~blocked
  /\ blocked => said \in {"refused", "failed"}
  /\ call.pc = "commit" \/ said = "ok" => ~queued
  /\ said = "ok" => ~head.queued /\ \A f \in File : "home" \notin head.at[f]

\* SPEC.md and receipt are together unless a move file by file ended half way.
Together ==
  "file" \notin mishaps =>
    /\ call.pc # "file" => \E p \in Place : WholeAt(p)
    /\ call.pc = "move" => WholeAt("home")
    /\ call.pc = "file" => \A f \in {"SPEC", "FIXED"} : at[f] \subseteq {"home", call.dest}

\* Then the bug is archived under its own name, if no earlier one has it.
OwnName ==
  old = "none" /\ "file" \notin mishaps =>
    /\ "dated" \notin dirs
    /\ call.pc # "idle" => call.dest = "archive"
    /\ WholeAt("home") /\ call.pc # "file" => "archive" \notin dirs
    /\ said = "ok" => head.at = at

\* The bug beside an earlier one: not moved, moved, or committed.
Unmoved ==
  /\ ~Late
  /\ \A f \in File : head.at[f] \subseteq {"home"}
  /\ call.pc # "file" => \A f \in File : at[f] \subseteq {"home"}

MovedOnly ==
  /\ Late /\ call.dest = "dated"
  /\ \A f \in File : at[f] \subseteq {"dated"} /\ head.at[f] \subseteq {"home"}

Committed ==
  /\ call.pc = "idle" \/ (Late /\ call.dest = "archive")
  /\ at["SPEC"] = {"dated"}
  /\ \A f \in File : head.at[f] = at[f] \ {"home"}

\* It is archived in one go under the dated name, if nothing ends past the move.
OtherName ==
  old # "none" /\ mishaps \cap {"file", "repoint", "trim", "commit"} = {} =>
    /\ "archive" \in dirs
    /\ \A f \in File : "archive" \notin at[f]
    /\ call.pc \in {"move", "file"} => call.dest = "dated"
    /\ Unmoved \/ MovedOnly \/ Committed

\* The references of HEAD are those of the work tree, or the call knows better.
Refs ==
  mishaps \cap {"trim", "commit"} = {} =>
    head.ref = ref \/ (call.pc \in {"trim", "commit"} /\ call.repointed)

\* Nothing is left where a bug was that was moved together.
Gone ==
  mishaps \cap {"file", "home", "note"} = {} /\ call.pc # "file" /\ at["SPEC"] # {"home"} =>
    "home" \notin dirs

IInv == TypeOK /\ Placed /\ Single /\ Progress /\ Together /\ OwnName /\ OtherName /\ Refs /\ Gone

-----------------------------------------------------------------------------
(* Its steps. *)

\* The record of a call.
Calls == [pc : {"idle", "move", "file", "repoint", "trim", "commit"},
          dest : {"archive", "dated"}, todo : SUBSET File,
          left : BOOLEAN, repointed : BOOLEAN]

\* A bug that is open satisfies it.
LEMMA InitIInv == Init => IInv
<1> SUFFICES ASSUME Init PROVE IInv
  OBVIOUS
<1> USE BugArchiveAssumption DEF Init
<1>1. TypeOK
  <2>1. at \in [File -> SUBSET Place] /\ ref \in Place /\ dirs \subseteq Place /\ queued \in BOOLEAN
    BY DEF Place
  <2>2. head \in [at : [File -> SUBSET Place], queued : BOOLEAN, ref : Place]
    <3>1. head = [at |-> at, queued |-> queued, ref |-> ref]
      OBVIOUS
    <3> QED BY ONLY <2>1, <3>1
  <2>3. call \in Calls
    BY DEF Idle, Calls
  <2>4. /\ old \in {"none", "Fixed", "Wont-fix"} /\ status \in {"open", "Fixed", "Wont-fix"}
        /\ said \in {"none", "ok", "refused", "failed", "killed"}
        /\ held \subseteq File /\ faults \in 0 .. MaxFaults
        /\ mishaps \subseteq {"move", "file", "repoint", "trim", "commit", "home", "note"}
    OBVIOUS
  <2>5. blocked \in BOOLEAN
    OBVIOUS
  <2> QED BY ONLY <2>1, <2>2, <2>3, <2>4, <2>5 DEF TypeOK, Calls
<1>2. /\ at["SPEC"] = {"home"} /\ at["FIXED"] = {} /\ call.pc = "idle"
      /\ \A f \in File : at[f] \subseteq {"home"} /\ head.at[f] \subseteq {"home"}
  BY DEF Idle, File
<1>3. Placed /\ Gone
  BY <1>2 DEF Placed, Gone, Late
<1>4. Single /\ Progress
  BY <1>2 DEF Single, Progress, Place
<1>5. Together
  BY <1>2 DEF Together, WholeAt, Place
<1>6. OwnName /\ OtherName /\ Refs
  BY <1>2 DEF OwnName, OtherName, Unmoved, Refs, Late
<1> QED BY <1>1, <1>3, <1>4, <1>5, <1>6 DEF IInv

\* What people and other processes do.
LEMMA OthersKeep ==
  ASSUME IInv, Close \/ Backfill \/ Report \/ Resolve \/ \E f \in File : Hold(f) \/ Release(f)
  PROVE  IInv'
<1> USE BugArchiveAssumption DEF IInv
<1>1. CASE Close
  <2> USE <1>1 DEF Close, Quiet, links, At, File
  <2>1. TypeOK'
    BY DEF TypeOK, Place
  <2>2. at["SPEC"] = {"home"} /\ at'["SPEC"] = {"home"} /\ said # "ok" /\ said' # "ok" /\ ~Late /\ ~Late'
    BY DEF Single, TypeOK, Late
  <2>3. Placed' /\ Gone'
    BY <2>2 DEF Placed, Gone, TypeOK
  <2>4. Single' /\ Progress'
    BY <2>2 DEF Single, Progress, TypeOK, Place
  <2>5. Together' /\ OwnName' /\ Refs'
    BY <2>2 DEF Together, OwnName, Refs, WholeAt, TypeOK, Place
  <2>6. OtherName'
    BY <2>2 DEF OtherName, Unmoved, MovedOnly, Committed, TypeOK
  <2> QED BY <2>1, <2>3, <2>4, <2>5, <2>6
<1>2. CASE Backfill
  <2> USE <1>2 DEF Backfill, Quiet, links, At, File
  <2>1. TypeOK'
    BY DEF TypeOK, Place
  <2>2. /\ UNCHANGED <<old, status, dirs, blocked, queued, ref, head, call, said, held, faults, mishaps>>
        /\ call.pc = "idle" /\ ~Late /\ ~Late'
        /\ at'["SPEC"] = at["SPEC"] /\ at'["NOTE"] = at["NOTE"]
        /\ at'["FIXED"] = at["FIXED"] \cup at["SPEC"]
    BY DEF TypeOK, Late
  <2>3. Placed' /\ Gone'
    BY <2>2 DEF Placed, Gone
  <2>4. Single' /\ Progress'
    BY <2>2 DEF Single, Progress, Place
  <2>5. Together'
    BY <2>2 DEF Together, WholeAt, Place
  <2>6. ASSUME "file" \notin mishaps PROVE at["SPEC"] = {"home"}
    BY <2>2, <2>6 DEF Together, WholeAt, Single
  <2>7. OwnName'
    BY <2>2, <2>6 DEF OwnName, WholeAt, Placed
  <2>8. OtherName'
    BY <2>2, <2>6 DEF OtherName, Unmoved, MovedOnly, Committed
  <2>9. Refs'
    BY <2>2 DEF Refs
  <2> QED BY <2>1, <2>3, <2>4, <2>5, <2>7, <2>8, <2>9
<1>3. CASE Report
  <2> USE <1>3 DEF Report, Quiet, links, At, File
  <2>1. TypeOK'
    BY DEF TypeOK, Place
  <2>2. /\ UNCHANGED <<old, status, queued, ref, head, call, said, held, faults>>
        /\ call.pc = "idle" /\ ~Late /\ ~Late' /\ said \in {"refused", "failed"}
        /\ at'["SPEC"] = at["SPEC"] /\ at'["FIXED"] = at["FIXED"]
        /\ at'["NOTE"] = at["NOTE"] \cup {"home"}
        /\ dirs' = dirs \cup {"home"}
        /\ mishaps' = mishaps \cup (IF "home" \in dirs THEN {} ELSE {"note"})
    BY DEF TypeOK, Late
  <2>3. Placed' /\ Gone'
    BY <2>2 DEF Placed, Gone
  <2>4. Single' /\ Progress'
    BY <2>2 DEF Single, Progress, Place
  <2>5. Together'
    BY <2>2 DEF Together, WholeAt, Place
  <2>6. OwnName'
    BY <2>2 DEF OwnName, WholeAt
  <2>7. OtherName'
    BY <2>2 DEF OtherName, Unmoved, MovedOnly, Committed
  <2>8. Refs'
    BY <2>2 DEF Refs
  <2> QED BY <2>1, <2>3, <2>4, <2>5, <2>6, <2>7, <2>8
<1>4. CASE Resolve
  <2> USE <1>4 DEF Resolve, links
  <2>1. /\ UNCHANGED <<old, status, queued, ref, head, call, said, held, faults, mishaps>>
        /\ call.pc = "idle" /\ ~Late /\ ~Late' /\ said \in {"refused", "failed"} /\ blocked' = FALSE
        /\ at' \in [File -> SUBSET Place] /\ at'["SPEC"] = at["SPEC"] /\ at'["FIXED"] = at["FIXED"]
        /\ \A f \in File : at'[f] \ {"home"} = at[f] \ {"home"} /\ at'[f] \subseteq at[f]
    BY DEF TypeOK, Late, Progress, File
  <2>2. dirs' \subseteq dirs /\ dirs \ {"home"} = dirs' \ {"home"} /\ \A f \in File : at'[f] \subseteq dirs'
    <3>1. CASE UNCHANGED <<dirs, at>>
      BY <3>1 DEF Placed
    <3>2. CASE /\ At("home") = {"NOTE"} /\ dirs' = dirs \ {"home"}
               /\ at' = [at EXCEPT !["NOTE"] = @ \ {"home"}]
      <4>1. \A f \in File : "home" \in at[f] <=> f = "NOTE"
        BY <3>2 DEF At
      <4>2. \A f \in File : "home" \notin at'[f]
        BY <3>2, <4>1 DEF TypeOK, File
      <4> QED BY <2>1, <3>2, <4>2 DEF Placed
    <3> QED BY <3>1, <3>2
  <2>3. TypeOK'
    <3>1. blocked' \in BOOLEAN
      BY <2>1
    <3> QED BY <2>1, <2>2, <3>1 DEF TypeOK
  <2>4. Placed' /\ Gone'
    BY <2>1, <2>2 DEF Placed, Gone
  <2>5. Single' /\ Progress'
    BY <2>1 DEF Single, Progress, Place
  <2>6. Together'
    BY <2>1 DEF Together, WholeAt, Place
  <2>7. OwnName'
    BY <2>1, <2>2 DEF OwnName, WholeAt
  <2>8. OtherName'
    <3>1. "archive" \in dirs => "archive" \in dirs'
      BY <2>2
    <3>2. Unmoved => Unmoved'
      BY <2>1 DEF Unmoved
    <3>3. Committed => Committed'
      BY <2>1 DEF Committed
    <3>4. ~MovedOnly
      BY <2>1 DEF MovedOnly
    <3> QED BY <2>1, <3>1, <3>2, <3>3, <3>4 DEF OtherName
  <2>9. Refs'
    BY <2>1 DEF Refs
  <2> QED BY <2>3, <2>4, <2>5, <2>6, <2>7, <2>8, <2>9
<1>5. ASSUME NEW f \in File, Hold(f) \/ Release(f) PROVE IInv'
  <2> USE <1>5 DEF Hold, Release, Fault, tree, links
  <2>1. /\ UNCHANGED <<old, status, dirs, at, blocked, queued, ref, head, call, said, mishaps>>
        /\ held' \subseteq held \cup {f}
    OBVIOUS
  <2>2. TypeOK'
    <3>1. faults' \in 0 .. MaxFaults
      BY DEF TypeOK
    <3> QED BY ONLY TypeOK, <2>1, <3>1 DEF TypeOK
  <2> QED BY <2>1, <2>2 DEF Placed, Single, Progress, Together, OwnName, OtherName, Refs, Gone, WholeAt,
                            Unmoved, MovedOnly, Committed, Late
<1> QED BY <1>1, <1>2, <1>3, <1>4, <1>5

\* A call starts, fails at once, or is refused: the destination it chooses is free.
LEMMA StartKeeps ==
  ASSUME IInv, ArchiveFixed
  PROVE  IInv'
<1> USE BugArchiveAssumption DEF IInv, Says
<1>1. UNCHANGED <<old, status, dirs, at, blocked, queued, ref, head, held, mishaps>>
      /\ call.pc = "idle" /\ ~blocked /\ status # "open" /\ ~Late /\ faults' \in 0 .. MaxFaults
  BY DEF ArchiveFixed, Quiet, tree, links, Late, Fault, TypeOK
<1>2. CASE Resumable /\ call' = [Idle EXCEPT !.pc = "repoint"] /\ said' = "none"
  <2> USE <1>2
  <2>1. TypeOK'
    <3>1. call' \in Calls
      BY DEF Idle, Calls
    <3> QED BY ONLY <1>1, <1>2, <3>1, TypeOK DEF TypeOK, Calls
  <2>2. /\ call'.pc = "repoint" /\ call'.dest = "archive" /\ said' = "none" /\ Late'
        /\ "home" \notin dirs /\ "archive" \in dirs
    BY DEF Idle, Resumable, Late
  <2>3. \A f \in File : "home" \notin at[f]
    BY <2>2 DEF Placed
  <2>4. Placed' /\ Gone' /\ Single' /\ Progress'
    BY <1>1, <2>2, <2>3 DEF Placed, Gone, Single, Progress
  <2>5. Together' /\ OwnName' /\ Refs'
    BY <1>1, <2>2, <2>3 DEF Together, OwnName, Refs, WholeAt, File
  <2>6. OtherName'
    <3>1. at["SPEC"] # {"home"}
      BY <2>3 DEF File
    <3>2. Committed => Committed'
      BY <1>1, <2>2 DEF Committed
    <3>3. ~MovedOnly
      BY <1>1 DEF MovedOnly
    <3>4. ~Unmoved
      BY <1>1, <2>3 DEF Unmoved, Single, File, Place
    <3> QED BY <1>1, <2>2, <3>2, <3>3, <3>4 DEF OtherName
  <2> QED BY <2>1, <2>4, <2>5, <2>6
<1>3. CASE Says("refused") \/ Says("failed")
  <2> USE <1>3
  <2>1. TypeOK'
    <3>1. call' = Idle /\ said' \in {"refused", "failed"}
      OBVIOUS
    <3>2. Idle \in Calls
      BY DEF Idle, Calls
    <3> QED BY ONLY <1>1, <3>1, <3>2, TypeOK DEF TypeOK, Calls
  <2>2. call'.pc = "idle" /\ call'.dest = "archive" /\ said' \in {"refused", "failed"} /\ ~Late'
    BY DEF Idle, Late
  <2>3. Placed' /\ Gone' /\ Single' /\ Progress'
    BY <1>1, <2>2 DEF Placed, Gone, Single, Progress
  <2>4. Together' /\ OwnName' /\ Refs'
    BY <1>1, <2>2 DEF Together, OwnName, Refs, WholeAt
  <2>5. OtherName'
    BY <1>1, <2>2 DEF OtherName, Unmoved, MovedOnly, Committed
  <2> QED BY <2>1, <2>3, <2>4, <2>5
<1>4. ASSUME NEW dest \in {"archive", "dated"}, dest \notin dirs, "home" \in dirs,
             dest = "dated" => "archive" \in dirs,
             HasReceipt \/ ("SPEC" \in At("home") /\ status = "Wont-fix"),
             call' = [Idle EXCEPT !.pc = "move", !.dest = dest], said' = "none"
      PROVE  IInv'
  <2> USE <1>4
  <2>1. TypeOK'
    BY <1>1 DEF TypeOK, Idle
  <2>2. call'.pc = "move" /\ call'.dest = dest /\ said' = "none" /\ ~Late'
    BY DEF Idle, Late
  <2>3. "home" \in at["SPEC"] \cup at["FIXED"]
    BY DEF HasReceipt, At, File
  <2>4. "file" \notin mishaps => WholeAt("home")
    BY <1>1, <2>3 DEF Together, WholeAt
  <2>5. Placed' /\ Gone' /\ Progress'
    BY <1>1, <2>2 DEF Placed, Gone, Progress
  <2>6. Single'
    BY <1>1, <2>2 DEF Single, HasReceipt, At, File, TypeOK
  <2>7. Together' /\ Refs'
    BY <1>1, <2>2, <2>4 DEF Together, Refs, WholeAt, Single
  <2>8. OwnName'
    BY <1>1, <2>2, <2>4 DEF OwnName, WholeAt
  <2>9. OtherName'
    <3>1. ASSUME "archive" \in dirs PROVE dest = "dated"
      BY <3>1
    <3>2. Unmoved => Unmoved'
      BY <1>1, <2>2 DEF Unmoved
    <3>3. ~MovedOnly
      BY <1>1 DEF MovedOnly
    <3>4. "file" \notin mishaps => ~Committed
      BY <2>4 DEF Committed, WholeAt
    <3> QED BY <1>1, <2>2, <3>1, <3>2, <3>3, <3>4 DEF OtherName
  <2> QED BY <2>1, <2>5, <2>6, <2>7, <2>8, <2>9
<1> QED
  <2> DEFINE free == {p \in {"archive", "dated"} : p \notin dirs}
             dest == IF "archive" \in free THEN "archive" ELSE "dated"
  <2>1. free # {} => dest \in {"archive", "dated"} /\ dest \notin dirs
                     /\ (dest = "dated" => "archive" \in dirs)
    OBVIOUS
  <2>2. \/ Resumable /\ call' = [Idle EXCEPT !.pc = "repoint"] /\ said' = "none"
        \/ Says("refused") \/ Says("failed")
        \/ /\ "home" \in dirs /\ free # {}
           /\ HasReceipt \/ ("SPEC" \in At("home") /\ status = "Wont-fix")
           /\ call' = [Idle EXCEPT !.pc = "move", !.dest = dest] /\ said' = "none"
    BY DEF ArchiveFixed
  <2> HIDE DEF free, dest
  <2> QED BY <1>2, <1>3, <1>4, <2>1, <2>2

\* The whole directory moves.
LEMMA MoveKeeps ==
  ASSUME IInv, Move
  PROVE  IInv'
<1> USE BugArchiveAssumption DEF IInv
<1> DEFINE d == call.dest
<1>1. /\ UNCHANGED <<old, status, blocked, queued, ref, head, said, held, faults, mishaps>>
      /\ call.pc = "move" /\ d \in {"archive", "dated"}
      /\ dirs' = (dirs \ {"home"}) \cup {d}
  BY DEF Move, links, TypeOK
<1>2. /\ at' \in [File -> SUBSET Place]
      /\ \A f \in File : at'[f] = IF "home" \in at[f] THEN (at[f] \ {"home"}) \cup {d} ELSE at[f]
  <2>1. at' = Moved(At("home"), d)
    BY DEF Move
  <2>2. \A f \in File : f \in At("home") <=> "home" \in at[f]
    BY DEF At
  <2>3. TypeOK
    OBVIOUS
  <2> DEFINE S == At("home")
  <2> HIDE DEF d, S
  <2>4. at' = Moved(S, d)
    BY <2>1 DEF S
  <2>5. d \in {"archive", "dated"}
    BY <1>1
  <2>6. /\ Moved(S, d) \in [File -> SUBSET Place]
        /\ \A f \in File : Moved(S, d)[f] = IF f \in S THEN (at[f] \ {"home"}) \cup {d} ELSE at[f]
    BY ONLY <2>3, <2>5 DEF Moved, TypeOK, Place
  <2>7. \A f \in File : f \in S <=> "home" \in at[f]
    BY <2>2 DEF S
  <2> QED BY ONLY <2>4, <2>6, <2>7
<1>3. call'.pc = "repoint" /\ call'.dest = d /\ call' \in Calls
  BY DEF Move, TypeOK, Calls
<1> HIDE DEF d
<1>4. TypeOK'
  BY <1>1, <1>2, <1>3 DEF TypeOK, Place, Calls
<1>5. /\ \A f \in File : "home" \notin at'[f]
      /\ Late' /\ ~Late
  BY <1>1, <1>2, <1>3 DEF Late
<1>6. Placed'
  BY <1>1, <1>2, <1>3, <1>5 DEF Placed
<1>7. Single'
  BY <1>1, <1>2, <1>3 DEF Single, Place, File
<1>8. Progress' /\ Gone' /\ Refs'
  BY <1>1, <1>3 DEF Progress, Gone, Refs
<1>9. Together'
  BY <1>1, <1>2, <1>3 DEF Together, WholeAt, File, Place
<1>10. OwnName'
  BY <1>1, <1>2, <1>3, <1>5 DEF OwnName, WholeAt, File, d, Progress
<1>11. OtherName'
  <2>1. SUFFICES ASSUME old # "none", mishaps \cap {"file", "repoint", "trim", "commit"} = {}
                 PROVE  "archive" \in dirs' /\ (\A f \in File : "archive" \notin at'[f]) /\ MovedOnly'
    BY <1>1, <1>3 DEF OtherName
  <2>2. d = "dated" /\ "archive" \in dirs /\ \A f \in File : "archive" \notin at[f]
    BY <1>1, <2>1 DEF OtherName, d
  <2>3. Unmoved
    BY <1>1, <1>5, <2>1 DEF OtherName, MovedOnly, Committed
  <2> QED BY <1>1, <1>2, <1>3, <1>5, <2>2, <2>3 DEF MovedOnly, Unmoved
<1> QED BY <1>4, <1>6, <1>7, <1>8, <1>9, <1>10, <1>11

\* It does not, and the destination is made.
LEMMA MoveRefusedKeeps ==
  ASSUME IInv, MoveRefused
  PROVE  IInv'
<1> USE BugArchiveAssumption DEF IInv
<1> DEFINE d == call.dest
<1>1. /\ UNCHANGED <<old, status, at, blocked, queued, ref, head, said, held, mishaps>>
      /\ call.pc = "move" /\ d \in {"archive", "dated"} /\ faults' \in 0 .. MaxFaults
      /\ dirs' = dirs \cup {d}
  BY DEF MoveRefused, links, TypeOK, Fault
<1>2. call'.pc = "file" /\ call'.dest = d /\ call'.todo = At("home") /\ call' \in Calls
  BY DEF MoveRefused, TypeOK, At, Calls
<1>3. \A f \in File : f \in call'.todo <=> "home" \in at[f]
  BY <1>2 DEF At
<1> HIDE DEF d
<1>4. TypeOK'
  BY <1>1, <1>2 DEF TypeOK, Place, Calls
<1>5. ~Late /\ ~Late' /\ call'.todo \subseteq File
  BY <1>1, <1>2 DEF Late, Calls
<1>6. Placed'
  BY <1>1, <1>2, <1>3, <1>5 DEF Placed
<1>7. Single' /\ Progress' /\ Gone' /\ Refs'
  BY <1>1, <1>2 DEF Single, Progress, Gone, Refs
<1>8. Together'
  BY <1>1, <1>2 DEF Together, WholeAt
<1>9. OwnName'
  BY <1>1, <1>2 DEF OwnName, WholeAt, d, Progress
<1>10. OtherName'
  BY <1>1, <1>2, <1>5 DEF OtherName, Unmoved, MovedOnly, Committed, d
<1> QED BY <1>4, <1>6, <1>7, <1>8, <1>9, <1>10

\* One file moves, or is left.
LEMMA MoveFileKeeps ==
  ASSUME IInv, MoveFile
  PROVE  IInv'
<1> USE BugArchiveAssumption DEF IInv
<1> DEFINE d == call.dest
<1>1. PICK f \in File :
        /\ f \in call.todo
        /\ at' = IF f \in held THEN at ELSE Moved({f}, d)
        /\ call' = [call EXCEPT !.todo = @ \ {f}, !.left = @ \/ f \in held]
  <2>1. PICK i \in DOMAIN Order :
          /\ Order[i] \in call.todo
          /\ at' = IF Order[i] \in held THEN at ELSE Moved({Order[i]}, d)
          /\ call' = [call EXCEPT !.todo = @ \ {Order[i]}, !.left = @ \/ Order[i] \in held]
    BY DEF MoveFile
  <2>2. Order[i] \in File
    BY DEF Order, File
  <2> QED BY <2>1, <2>2
<1>2. /\ UNCHANGED <<old, status, dirs, blocked, queued, ref, head, said, held, faults, mishaps>>
      /\ call.pc = "file" /\ d \in {"archive", "dated"} /\ d \in dirs
  BY DEF MoveFile, links, TypeOK, Placed
<1>3. /\ at' \in [File -> SUBSET Place]
      /\ \A g \in File : at'[g] = IF g = f /\ f \notin held THEN (at[g] \ {"home"}) \cup {d}
                                                            ELSE at[g]
  <2>1. CASE f \in held
    BY <1>1, <2>1 DEF TypeOK
  <2>2. CASE f \notin held
    <3>1. at' = Moved({f}, d) /\ TypeOK
      BY <1>1, <2>2
    <3>2. \A g \in File : g \in {f} <=> g = f
      OBVIOUS
    <3>3. d \in {"archive", "dated"}
      BY <1>2
    <3> HIDE DEF d
    <3>4. /\ Moved({f}, d) \in [File -> SUBSET Place]
          /\ \A g \in File : Moved({f}, d)[g] = IF g \in {f} THEN (at[g] \ {"home"}) \cup {d} ELSE at[g]
      BY ONLY <3>1, <3>3 DEF Moved, TypeOK, Place
    <3> QED BY ONLY <2>2, <3>1, <3>2, <3>4
  <2> QED BY <2>1, <2>2
<1>4. /\ call'.pc = "file" /\ call'.dest = d /\ call'.todo = call.todo \ {f} /\ call' \in Calls
      /\ ~call'.left => ~call.left /\ f \notin held
  <2> DEFINE l == call.left \/ f \in held
  <2>1. call' = [call EXCEPT !.todo = @ \ {f}, !.left = l]
    BY <1>1
  <2>2. l \in BOOLEAN
    OBVIOUS
  <2> HIDE DEF l
  <2>3. call'.pc = "file" /\ call'.dest = d /\ call'.todo = call.todo \ {f} /\ call'.left = l /\ call' \in Calls
    BY <1>2, <2>1, <2>2 DEF TypeOK, Calls
  <2> QED BY <2>3 DEF l
<1> HIDE DEF d
<1>5. TypeOK'
  BY <1>2, <1>3, <1>4 DEF TypeOK, Calls
<1>6. ~Late /\ ~Late' /\ "home" \in at[f]
  BY <1>1, <1>2, <1>4 DEF Late, Placed
<1>7. Placed'
  <2>1. \A g \in File : at'[g] \subseteq dirs
    BY <1>2, <1>3 DEF Placed
  <2>2. \A g \in call'.todo : "home" \in at'[g]
    BY <1>2, <1>3, <1>4 DEF Placed, TypeOK, Calls
  <2>3. ~call'.left => \A g \in File : "home" \in at'[g] => g \in call'.todo
    BY <1>2, <1>3, <1>4 DEF Placed
  <2> QED BY <1>2, <1>4, <1>6, <2>1, <2>2, <2>3 DEF Placed, Progress
<1>8. Single'
  BY <1>2, <1>3, <1>4, <1>6 DEF Single, Place, File
<1>9. Progress' /\ Gone' /\ Refs'
  BY <1>2, <1>4 DEF Progress, Gone, Refs
<1>10. Together'
  BY <1>2, <1>3, <1>4 DEF Together, File, d
<1>11. OwnName'
  BY <1>2, <1>4 DEF OwnName, d, Progress
<1>12. OtherName'
  BY <1>2, <1>3, <1>4, <1>6 DEF OtherName, Unmoved, MovedOnly, Committed, d
<1> QED BY <1>5, <1>7, <1>8, <1>9, <1>10, <1>11, <1>12

\* The call reports what it left, or goes on; the emptied directory may stay.
LEMMA FilesMovedKeeps ==
  ASSUME IInv, FilesMoved
  PROVE  IInv'
<1> USE BugArchiveAssumption DEF IInv
<1>1. UNCHANGED <<old, status, at, blocked, queued, ref, head, held>>
      /\ call.pc = "file" /\ call.todo = {} /\ ~Late /\ said = "none"
  BY DEF FilesMoved, links, Late, Progress
<1>2. CASE /\ Says("failed") /\ mishaps' = mishaps \cup {"file"}
           /\ UNCHANGED <<dirs, faults>>
  <2>1. call'.pc = "idle" /\ said' = "failed" /\ ~Late' /\ call' \in Calls
    BY <1>2 DEF Says, Idle, Late, Calls
  <2>2. TypeOK'
    BY <1>1, <1>2, <2>1 DEF TypeOK, Calls
  <2>3. Placed' /\ Single' /\ Progress'
    BY <1>1, <1>2, <2>1 DEF Placed, Single, Progress
  <2>4. Together' /\ OwnName' /\ OtherName' /\ Refs' /\ Gone'
    BY <1>1, <1>2, <2>1 DEF Together, OwnName, OtherName, Refs, Gone
  <2> QED BY <2>2, <2>3, <2>4
<1>3. ASSUME ~call.left, call' = [call EXCEPT !.pc = "repoint"], UNCHANGED said,
             \/ dirs' = dirs \ {"home"} /\ UNCHANGED <<faults, mishaps>>
             \/ Fault /\ mishaps' = mishaps \cup {"home"} /\ UNCHANGED dirs
      PROVE  IInv'
  <2> USE <1>3
  <2>1. /\ call'.pc = "repoint" /\ call'.dest = call.dest /\ call.dest \in {"archive", "dated"}
        /\ call' \in Calls /\ Late'
    BY DEF TypeOK, Calls, Late
  <2>2. \A f \in File : "home" \notin at[f]
    BY <1>1 DEF Placed
  <2>3. /\ dirs \ {"home"} \subseteq dirs' /\ dirs' \subseteq dirs
        /\ mishaps \subseteq mishaps' /\ mishaps' \subseteq mishaps \cup {"home"}
        /\ "home" \in dirs' => "home" \in mishaps'
        /\ faults' \in 0 .. MaxFaults
    BY DEF Fault, TypeOK
  <2>4. TypeOK'
    BY <1>1, <2>1, <2>3 DEF TypeOK, Calls
  <2>5. Placed'
    BY <1>1, <2>1, <2>2, <2>3 DEF Placed
  <2>6. Single' /\ Progress'
    BY <1>1, <2>1 DEF Single, Progress
  <2>7. "file" \notin mishaps => at["SPEC"] = {call.dest} /\ at["FIXED"] \subseteq {call.dest}
    BY <1>1, <2>2 DEF Together, File, Single
  <2>8. Together' /\ Gone'
    BY <1>1, <2>1, <2>3, <2>7 DEF Together, Gone, WholeAt, Place
  <2>9. OwnName' /\ Refs'
    BY <1>1, <2>1, <2>3, <2>7 DEF OwnName, Refs, WholeAt
  <2>10. OtherName'
    <3>1. SUFFICES ASSUME old # "none", mishaps \cap {"file", "repoint", "trim", "commit"} = {}
                   PROVE  "archive" \in dirs' /\ (\A f \in File : "archive" \notin at[f]) /\ MovedOnly'
      BY <1>1, <2>1, <2>3 DEF OtherName
    <3>2. call.dest = "dated" /\ "archive" \in dirs /\ \A f \in File : "archive" \notin at[f]
      BY <1>1, <3>1 DEF OtherName
    <3>3. Unmoved
      BY <1>1, <3>1 DEF OtherName, MovedOnly, Committed
    <3>4. \A f \in File : at[f] \subseteq {"dated"}
      BY <2>2, <3>2 DEF TypeOK, Place
    <3> QED BY <1>1, <2>1, <2>3, <3>2, <3>3, <3>4 DEF MovedOnly, Unmoved
  <2> QED BY <2>4, <2>5, <2>6, <2>8, <2>9, <2>10
<1> QED BY <1>2, <1>3 DEF FilesMoved

\* The references lead to the destination, or some stay as they are.
LEMMA RepointKeeps ==
  ASSUME IInv, Repoint
  PROVE  IInv'
<1> USE BugArchiveAssumption DEF IInv
<1>1. UNCHANGED <<old, status, dirs, at, blocked, queued, head, said, held, mishaps>>
      /\ call.pc = "repoint" /\ call.dest \in {"archive", "dated"} /\ faults' \in 0 .. MaxFaults
  BY DEF Repoint, tree, TypeOK, Fault
<1>2. /\ call'.pc = "trim" /\ call'.dest = call.dest /\ call' \in Calls /\ ref' \in Place
      /\ ref' = ref \/ call'.repointed
  <2>1. CASE /\ ref' = IF ref = "home" THEN call.dest ELSE ref
             /\ call' = [call EXCEPT !.pc = "trim", !.repointed = ref = "home"]
    <3> DEFINE r == ref = "home"
    <3>1. r \in BOOLEAN /\ call' = [call EXCEPT !.pc = "trim", !.repointed = r]
      BY <2>1
    <3>2. ref' \in Place /\ (ref' = ref \/ r)
      BY <1>1, <2>1 DEF TypeOK, Place
    <3> HIDE DEF r
    <3>3. call'.pc = "trim" /\ call'.dest = call.dest /\ call' \in Calls /\ call'.repointed = r
      BY <3>1 DEF TypeOK, Calls
    <3> QED BY <3>2, <3>3
  <2>2. CASE Fault /\ call' = [call EXCEPT !.pc = "trim"] /\ UNCHANGED ref
    BY <2>2 DEF TypeOK, Calls
  <2> QED BY <2>1, <2>2 DEF Repoint
<1>3. TypeOK'
  BY <1>1, <1>2 DEF TypeOK, Calls
<1>4. Late /\ Late'
  BY <1>1, <1>2 DEF Late
<1>5. Placed' /\ Single' /\ Progress' /\ Gone'
  BY <1>1, <1>2, <1>4 DEF Placed, Single, Progress, Gone
<1>6. Together' /\ OwnName' /\ Refs'
  BY <1>1, <1>2 DEF Together, OwnName, Refs, WholeAt
<1>7. OtherName'
  BY <1>1, <1>2, <1>4 DEF OtherName, Unmoved, MovedOnly, Committed
<1> QED BY <1>3, <1>5, <1>6, <1>7

\* The row is gone.
LEMMA TrimKeeps ==
  ASSUME IInv, Trim
  PROVE  IInv'
<1> USE BugArchiveAssumption DEF IInv
<1>1. UNCHANGED <<old, status, dirs, at, blocked, ref, head, said, held, faults, mishaps>>
      /\ call.pc = "trim" /\ queued' = FALSE
  BY DEF Trim, tree
<1>2. /\ call'.pc = "commit" /\ call'.dest = call.dest /\ call'.repointed = call.repointed
      /\ call' \in Calls
  BY DEF Trim, TypeOK, Calls
<1>3. TypeOK'
  <2>1. queued' \in BOOLEAN
    BY <1>1
  <2> QED BY <1>1, <1>2, <2>1 DEF TypeOK, Calls
<1>4. Late /\ Late'
  BY <1>1, <1>2 DEF Late
<1>5. Placed' /\ Single' /\ Progress' /\ Gone'
  BY <1>1, <1>2, <1>4 DEF Placed, Single, Progress, Gone
<1>6. Together' /\ OwnName' /\ Refs'
  BY <1>1, <1>2 DEF Together, OwnName, Refs, WholeAt
<1>7. OtherName'
  BY <1>1, <1>2, <1>4 DEF OtherName, Unmoved, MovedOnly, Committed
<1> QED BY <1>3, <1>5, <1>6, <1>7

\* HEAD gets what lies where the bug was and in the destination, and keeps the
\* rest: if the files are in the destination only, that is all of them.
LEMMA CommitKeeps ==
  ASSUME IInv, Commit
  PROVE  IInv'
<1> USE BugArchiveAssumption DEF IInv
<1> DEFINE d == call.dest
           h == [f \in File |-> (head.at[f] \ {"home", d}) \cup (at[f] \cap {"home", d})]
           r == IF call.repointed THEN ref ELSE head.ref
<1>1. /\ UNCHANGED <<old, status, dirs, at, blocked, queued, ref, held, faults, mishaps>>
      /\ call.pc = "commit" /\ Late /\ d \in {"archive", "dated"} /\ d \in dirs /\ ~queued
      /\ call' = Idle /\ said' = "ok" /\ ~blocked /\ status # "open"
  BY DEF Commit, Says, tree, links, TypeOK, Placed, Progress, Late, Single
<1>2. head' = [at |-> h, queued |-> queued, ref |-> r]
  BY DEF Commit
<1>3. h \in [File -> SUBSET Place] /\ r \in Place
  BY DEF TypeOK, Place
<1>4. \A f \in File : h[f] = (head.at[f] \ {"home", d}) \cup (at[f] \cap {"home", d})
  OBVIOUS
<1>5. \A f \in File : at[f] \subseteq dirs /\ head.at[f] \subseteq dirs \cup {"home"}
                      /\ "home" \notin at[f]
  BY <1>1 DEF Placed
<1>6. /\ at \in [File -> SUBSET Place] /\ dirs \subseteq Place /\ queued \in BOOLEAN
      /\ \A f \in File : head.at[f] \subseteq Place /\ at[f] \subseteq Place
  BY DEF TypeOK
<1>7. mishaps \cap {"trim", "commit"} = {} => r = ref
  BY DEF Refs
<1> HIDE DEF h, r, d
<1>8. call'.pc = "idle" /\ call'.dest = "archive" /\ call' \in Calls /\ ~Late'
  BY <1>1 DEF Idle, Late, Calls
<1>9. TypeOK'
  <2>1. head' \in [at : [File -> SUBSET Place], queued : BOOLEAN, ref : Place]
    BY ONLY <1>2, <1>3, <1>6
  <2> QED BY ONLY <1>1, <1>8, <2>1, TypeOK DEF TypeOK, Calls
<1>10. head'.at = h /\ head'.queued = queued /\ head'.ref = r
  BY <1>2
<1>11. Placed'
  BY <1>1, <1>4, <1>5, <1>8, <1>10 DEF Placed
<1>12. Single' /\ Progress'
  <2>1. \A f \in File : "home" \notin h[f]
    BY <1>4, <1>5
  <2>2. at["SPEC"] # {"home"}
    BY <1>5 DEF File
  <2> QED BY <1>1, <1>8, <1>10, <2>1, <2>2 DEF Single, Progress
<1>13. Together' /\ Refs' /\ Gone'
  BY <1>1, <1>7, <1>8, <1>10 DEF Together, Refs, Gone, WholeAt
<1>14. OwnName'
  <2>1. ASSUME old = "none", "file" \notin mishaps
        PROVE  h = at /\ "dated" \notin dirs /\ ~WholeAt("home")
    <3>1. "dated" \notin dirs /\ d = "archive"
      BY <1>1, <2>1 DEF OwnName, d
    <3>2. ASSUME NEW f \in File PROVE h[f] = at[f]
      <4>1. at[f] \subseteq {"archive"} /\ head.at[f] \subseteq {"home", "archive"}
        BY <1>5, <1>6, <3>1 DEF Place
      <4>2. h[f] = (head.at[f] \ {"home", "archive"}) \cup (at[f] \cap {"home", "archive"})
        BY <1>4, <3>1
      <4> QED BY ONLY <4>1, <4>2
    <3>3. ~WholeAt("home")
      BY <1>5 DEF WholeAt, File
    <3> QED BY <1>3, <1>6, <3>1, <3>2, <3>3
  <2> QED BY <1>1, <1>8, <1>10, <2>1 DEF OwnName, WholeAt
<1>15. OtherName'
  <2>1. SUFFICES ASSUME old # "none", mishaps \cap {"file", "repoint", "trim", "commit"} = {}
                 PROVE  "archive" \in dirs /\ (\A f \in File : "archive" \notin at[f]) /\ Committed'
    BY <1>1, <1>8 DEF OtherName
  <2>2. "archive" \in dirs /\ (\A f \in File : "archive" \notin at[f]) /\ (MovedOnly \/ Committed)
    BY <1>1, <2>1 DEF OtherName, Unmoved
  <2>3. ASSUME NEW f \in File PROVE h[f] = at[f]
    <3>1. CASE MovedOnly
      <4>1. d = "dated" /\ at[f] \subseteq {"dated"} /\ head.at[f] \subseteq {"home"}
        BY <3>1 DEF MovedOnly, d
      <4>2. h[f] = (head.at[f] \ {"home", "dated"}) \cup (at[f] \cap {"home", "dated"})
        BY <1>4, <4>1
      <4> QED BY ONLY <4>1, <4>2
    <3>2. CASE Committed
      <4>1. d = "archive" /\ head.at[f] = at[f] \ {"home"} /\ "archive" \notin at[f] /\ "home" \notin at[f]
        BY <1>1, <1>5, <2>2, <3>2 DEF Committed, d
      <4>2. h[f] = (head.at[f] \ {"home", "archive"}) \cup (at[f] \cap {"home", "archive"})
        BY <1>4, <4>1
      <4> QED BY ONLY <4>1, <4>2
    <3> QED BY <2>2, <3>1, <3>2
  <2>4. at["SPEC"] = {"dated"}
    <3>1. CASE MovedOnly
      BY <3>1 DEF MovedOnly, Single, File
    <3>2. CASE Committed
      BY <3>2 DEF Committed
    <3> QED BY <2>2, <3>1, <3>2
  <2>5. \A f \in File : at[f] = at[f] \ {"home"}
    BY <1>5
  <2> QED BY <1>1, <1>8, <1>10, <2>2, <2>3, <2>4, <2>5 DEF Committed
<1> QED BY <1>9, <1>11, <1>12, <1>13, <1>14, <1>15

\* A call that fails or dies leaves everything where it is.
LEMMA FaultKeeps ==
  ASSUME IInv, StepFails \/ Crash
  PROVE  IInv'
<1> USE BugArchiveAssumption DEF IInv
<1>1. /\ UNCHANGED <<old, status, dirs, at, blocked, queued, ref, head, held>>
      /\ faults' \in 0 .. MaxFaults /\ call.pc # "idle" /\ ~blocked
      /\ call' = Idle /\ said' \in {"failed", "killed"} /\ mishaps' = mishaps \cup {call.pc}
  BY DEF StepFails, Crash, Fault, Says, tree, links, TypeOK, Progress
<1>2. call'.pc = "idle" /\ call'.dest = "archive" /\ call' \in Calls /\ ~Late'
  BY <1>1 DEF Idle, Late, Calls
<1>3. TypeOK'
  <2>1. mishaps' \subseteq {"move", "file", "repoint", "trim", "commit", "home", "note"}
    BY <1>1 DEF TypeOK
  <2> QED BY ONLY <1>1, <1>2, <2>1, TypeOK DEF TypeOK, Calls
<1>4. mishaps \subseteq mishaps' /\ call.pc \in mishaps'
      /\ call.pc \in {"move", "file", "repoint", "trim", "commit"}
  BY <1>1 DEF TypeOK
<1>5. Placed' /\ Single' /\ Progress'
  BY <1>1, <1>2 DEF Placed, Single, Progress
<1>6. Together' /\ OwnName' /\ Gone'
  BY <1>1, <1>2, <1>4 DEF Together, OwnName, Gone, WholeAt
<1>7. Refs'
  BY <1>1, <1>2, <1>4 DEF Refs
<1>8. OtherName'
  <2>1. SUFFICES ASSUME old # "none", mishaps' \cap {"file", "repoint", "trim", "commit"} = {}
                 PROVE  /\ "archive" \in dirs /\ \A f \in File : "archive" \notin at[f]
                        /\ Unmoved' \/ Committed'
    BY <1>1, <1>2 DEF OtherName
  <2>2. call.pc = "move" /\ mishaps \cap {"file", "repoint", "trim", "commit"} = {}
    BY <1>4, <2>1
  <2>3. "archive" \in dirs /\ (\A f \in File : "archive" \notin at[f]) /\ (Unmoved \/ Committed)
    BY <2>1, <2>2 DEF OtherName, MovedOnly, Late
  <2> QED BY <1>1, <1>2, <2>2, <2>3 DEF Unmoved, Committed
<1> QED BY <1>3, <1>5, <1>6, <1>7, <1>8

\* Every step keeps the invariant.
LEMMA NextIInv == IInv /\ [Next]_vars => IInv'
<1>1. ASSUME IInv, Next PROVE IInv'
  BY <1>1, OthersKeep, StartKeeps, MoveKeeps, MoveRefusedKeeps, MoveFileKeeps, FilesMovedKeeps,
     RepointKeeps, TrimKeeps, CommitKeeps, FaultKeeps DEF Next, Steps
<1>2. ASSUME IInv, UNCHANGED vars PROVE IInv'
  BY <1>2 DEF vars, tree, links, IInv, TypeOK, Placed, Single, Progress, Together, OwnName,
              OtherName, Unmoved, MovedOnly, Committed, Refs, Gone, Late, WholeAt
<1> QED BY <1>1, <1>2

\* So it always holds.
LEMMA AlwaysIInv == Spec => []IInv
BY InitIInv, NextIInv, PTL DEF Spec

-----------------------------------------------------------------------------
(* What it is for. *)

\* The work tree, HEAD and the call are what the code may make of them, under
\* any number of faults.
THEOREM ArchiveTypeCorrect == Spec => []TypeOK
<1>1. IInv => TypeOK
  BY DEF IInv
<1> QED BY <1>1, AlwaysIInv, PTL

\* A call that reports ok has left nothing where the bug was, in the work tree or
\* in HEAD, and no row in the queue of either, whatever earlier calls went through.
LEMMA LeftOpen == IInv => NothingLeftOpen
BY DEF IInv, NothingLeftOpen, Placed, Progress, At

\* A reported archive leaves nothing open.  Unless an earlier call ended half way
\* through a move file by file, or past the move of a bug that goes under a dated
\* name, a bug reported archived is whole there and HEAD has it; HEAD has the
\* references if no call ended after them.
THEOREM ArchiveIsCommitted == Spec => []ArchivedIsCommitted
<1>1. ASSUME IInv, said = "ok", "file" \notin mishaps,
             old = "none" \/ mishaps \cap {"repoint", "trim", "commit"} = {}
      PROVE  /\ \E p \in {"archive", "dated"} : WholeAt(p)
             /\ head.at = at
             /\ mishaps \cap {"trim", "commit"} = {} => head.ref = ref
  <2> USE <1>1 DEF IInv
  <2>1. call.pc = "idle" /\ \A f \in File : "home" \notin at[f]
    BY DEF Progress, Placed
  <2>2. \E p \in {"archive", "dated"} : WholeAt(p)
    <3>1. PICK p \in Place : WholeAt(p)
      BY <2>1 DEF Together
    <3>2. p # "home"
      BY <2>1, <3>1 DEF WholeAt, File
    <3> QED BY <3>1, <3>2 DEF Place
  <2>3. head.at = at
    <3>1. CASE old = "none"
      BY <3>1 DEF OwnName
    <3>2. CASE old # "none"
      <4>1. mishaps \cap {"file", "repoint", "trim", "commit"} = {}
        BY <3>2
      <4>2. Committed
        <5>1. ~Unmoved
          BY <2>1 DEF Unmoved, Single, File
        <5> QED BY <2>1, <3>2, <4>1, <5>1 DEF OtherName, MovedOnly, Late
      <4>3. ASSUME NEW f \in File PROVE head.at[f] = at[f]
        <5>1. head.at[f] = at[f] \ {"home"}
          BY <4>2 DEF Committed
        <5>2. "home" \notin at[f]
          BY <2>1
        <5> QED BY ONLY <5>1, <5>2
      <4>4. head.at \in [File -> SUBSET Place] /\ at \in [File -> SUBSET Place]
        BY DEF TypeOK
      <4> QED BY <4>3, <4>4
    <3> QED BY <3>1, <3>2
  <2>4. mishaps \cap {"trim", "commit"} = {} => head.ref = ref
    BY <2>1 DEF Refs
  <2> QED BY <2>2, <2>3, <2>4
<1>2. IInv => ArchivedIsCommitted
  BY <1>1, LeftOpen DEF ArchivedIsCommitted
<1> QED BY <1>2, AlwaysIInv, PTL

\* A bug with a receipt, and no earlier one of its name, is fixed for the router
\* and for what depends on it before, between and after the steps of its archive
\* other than those of a move file by file.
THEOREM FixedForEveryone == Spec => []SeenAsFixed
<1>1. ASSUME IInv, status = "Fixed", at["FIXED"] # {}, old = "none", call.pc # "file",
             mishaps \cap {"file", "home", "note"} = {}
      PROVE  RouterSees \in {"absent", "done"} /\ DepStatus = "complete"
  <2> USE <1>1 DEF IInv, At, File
  <2>1. PICK p \in Place : WholeAt(p)
    BY DEF Together
  <2>2. at["SPEC"] = {p} /\ at["FIXED"] = {p} /\ p \in dirs
    BY <2>1 DEF WholeAt, Placed
  <2>3. CASE p = "home"
    BY <2>2, <2>3 DEF RouterSees, HasReceipt, DepStatus
  <2>4. CASE p = "archive"
    <3>1. "home" \notin dirs
      BY <2>2, <2>4 DEF Gone
    <3> QED BY <2>2, <2>4, <3>1 DEF RouterSees, DepStatus
  <2>5. p # "dated"
    BY <2>2 DEF OwnName
  <2> QED BY <2>3, <2>4, <2>5 DEF Place
<1>2. IInv => SeenAsFixed
  BY <1>1 DEF SeenAsFixed
<1> QED BY <1>2, AlwaysIInv, PTL
=============================================================================
