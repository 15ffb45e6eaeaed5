-------------------------- MODULE SelfUpdateProofs --------------------------
(***************************************************************************)
(* For any number of updates, any releases and any combination of          *)
(* troubles, on both platforms: the executable stays whole, updates that   *)
(* fail leave no file behind, and only overlapping ones downgrade.  The    *)
(* invariant follows the file of one process from its creation to its      *)
(* installation, by the process or by the script that outlives it.         *)
(***************************************************************************)
EXTENDS SelfUpdate, TLAPS

\* The file of this process has passed its verification and waits to be installed.
Ready(p) == pc[p] \in {"chmod", "rename", "exit"} \/ p \in waiting

\* A temporary path leads to nothing or to the file of the process it is named after.
OwnNames == \A p \in Pid : names[p] \in {p, NoOne}

\* A script is running only when its process has done its work.
ScriptsOutlive == \A p \in Pid : p \in waiting => pc[p] \in {"exit", "ended", "crashed"}

\* A file that waits to be installed is not short, nor damaged, if that is noticed.
ReadyIsGood ==
    \A p \in Pid :
        /\ files[p].content \in {"short", "corrupt"} => May(files[p].content)
        /\ pc[p] = "verify" => files[p].content # "partial"
        /\ Ready(p) => files[p].content # "partial"
        /\ Ready(p) /\ Sized => files[p].content # "short"
        /\ Ready(p) /\ Digest => files[p].content = "whole"

\* An update is under way only to a newer release, and its file holds that release.
ReadyIsNewer ==
    \A p \in Pid :
        /\ pc[p] \in Working \/ Ready(p) => current[p] = Dev \/ Older(current[p], wanted[p])
        /\ pc[p] \in {"copy", "verify"} \/ Ready(p) => files[p].version = wanted[p]
        /\ Ready(p) => wanted[p] # Dev

\* A process that has removed its path, or got past it, has no file before it creates one.
OwnFileGone ==
    \A p \in Pid :
        /\ pc[p] = "cleanup" /\ p \notin stale[p] => names[p] = NoOne
        /\ pc[p] \in {"scripts", "request"} => names[p] = NoOne

UpdateInv ==
    /\ UpdateTypeOK /\ OwnNames /\ ScriptsOutlive
    /\ ReadyIsGood /\ ReadyIsNewer /\ OwnFileGone
    /\ ExecutableWhole

-----------------------------------------------------------------------------
(* Versions *)

LEMMA PartType ==
    ASSUME NEW a \in 1..Newest, NEW i \in Nat \ {0}
    PROVE  Part(a, i) \in Nat
  <1>1. Parts[a] \in Seq(Nat)
    BY UpdateAssumption DEF UpdateAssumption
  <1> QED BY <1>1 DEF Part

\* Of two releases at most one is older than the other.
LEMMA OlderAsymmetric ==
    ASSUME NEW a \in 1..Newest, NEW b \in 1..Newest, Older(a, b)
    PROVE  ~Older(b, a)
  <1> SUFFICES ASSUME Older(b, a) PROVE FALSE
    OBVIOUS
  <1>1. Parts[a] \in Seq(Nat) /\ Parts[b] \in Seq(Nat)
    BY UpdateAssumption DEF UpdateAssumption
  <1>2. PICK i \in 1..(Len(Parts[a]) + Len(Parts[b])) :
           Part(a, i) < Part(b, i) /\ \A j \in 1..(i - 1) : Part(a, j) = Part(b, j)
    BY DEF Older
  <1>3. PICK k \in 1..(Len(Parts[b]) + Len(Parts[a])) :
           Part(b, k) < Part(a, k) /\ \A j \in 1..(k - 1) : Part(b, j) = Part(a, j)
    BY DEF Older
  <1>4. i \in Nat \ {0} /\ k \in Nat \ {0}
    BY <1>1
  <1>5. /\ Part(a, i) \in Nat /\ Part(b, i) \in Nat
        /\ Part(a, k) \in Nat /\ Part(b, k) \in Nat
    BY <1>4, PartType
  <1>6. CASE i < k
    <2>1. Part(b, i) = Part(a, i)
      BY <1>3, <1>4, <1>6
    <2> QED BY <1>2, <1>5, <2>1
  <1>7. CASE k < i
    <2>1. Part(a, k) = Part(b, k)
      BY <1>2, <1>4, <1>7
    <2> QED BY <1>3, <1>5, <2>1
  <1>8. CASE i = k
    BY <1>2, <1>3, <1>5, <1>8
  <1> QED BY <1>4, <1>6, <1>7, <1>8

-----------------------------------------------------------------------------
(* Initial states and steps *)

LEMMA UpdateInit == Init => UpdateInv
  <1> SUFFICES ASSUME Init PROVE UpdateInv
    OBVIOUS
  <1> USE UpdateAssumption DEF UpdateAssumption, Init
  <1>1. UpdateTypeOK
    <2>1. exe \in Image /\ files \in [Pid -> Image]
      <3>1. exe.version \in 0..Newest /\ exe = [version |-> exe.version, content |-> "whole"]
        OBVIOUS
      <3>2. Leftover \in Image
        BY DEF Image, Content, Leftover, Dev
      <3>3. exe \in Image
        BY <3>1 DEF Image, Content
      <3> QED BY <3>2, <3>3
    <2>2. latest \in 1..Newest /\ current \in [Pid -> 0..Newest] /\ wanted \in [Pid -> 0..Newest]
      BY DEF Dev
    <2>3. /\ names \in [Pid -> Pid \cup {NoOne}] /\ stale \in [Pid -> SUBSET Pid]
          /\ scripts \subseteq Pid /\ waiting \subseteq Pid
      OBVIOUS
    <2> QED BY <2>1, <2>2, <2>3 DEF UpdateTypeOK, Working, Place
  <1>2. OwnNames /\ ScriptsOutlive /\ ExecutableWhole
    BY DEF OwnNames, ScriptsOutlive, ExecutableWhole
  <1>3. ReadyIsGood /\ ReadyIsNewer /\ OwnFileGone
    BY DEF ReadyIsGood, ReadyIsNewer, OwnFileGone, Ready, Leftover, Working
  <1> QED BY <1>1, <1>2, <1>3 DEF UpdateInv

\* What the copy of a body makes of a file.
LEMMA CopyFile ==
    ASSUME UpdateInv, NEW p \in Pid, Copy(p)
    PROVE  \E content \in {"whole"} \cup (trouble \cap {"short", "corrupt"}) :
             files' = [files EXCEPT ![p] = [version |-> files[p].version, content |-> content]]
  <1>1. PICK content \in {"whole"} \cup (trouble \cap {"short", "corrupt"}) :
           files' = [files EXCEPT ![p].content = content]
    BY DEF Copy
  <1>2. files[p] \in Image
    BY DEF UpdateInv, UpdateTypeOK
  <1>3. [files[p] EXCEPT !.content = content] = [version |-> files[p].version, content |-> content]
    BY <1>2 DEF Image
  <1>4. files' = [files EXCEPT ![p] = [files[p] EXCEPT !.content = content]]
    BY <1>1
  <1> QED BY <1>3, <1>4

\* The steps of one process and its script.
Step1(p) == Update(p) \/ Script(p) \/ Crash(p)

LEMMA TypeStep ==
    ASSUME UpdateInv, NEW p \in Pid, Step1(p), UNCHANGED setting
    PROVE  UpdateTypeOK'
  <1> USE UpdateAssumption DEF UpdateAssumption, UpdateInv, UpdateTypeOK, Goto, setting, windows, Working, Place, Dev
  <1>1. CASE Launch(p) \/ Gate(p) \/ EndWork(p) \/ AskLatestFails(p) \/ Exit(p) \/ Crash(p)
    BY <1>1, ZenonT(40) DEF Launch, Gate, EndWork, AskLatestFails, Exit, Crash, Image
  <1>2. CASE AskLatest(p)
    <2>1. wanted' \in [Pid -> 0..Newest] /\ wanted'[p] \in 1..Newest
      BY <1>2 DEF AskLatest
    <2>2. pc' \in [Pid -> Place]
      BY <1>2 DEF AskLatest
    <2>3. \A q \in Pid : pc'[q] \in Working => wanted'[q] \in 1..Newest
      BY <1>2, <2>1 DEF AskLatest
    <2> QED BY <1>2, <2>1, <2>2, <2>3 DEF AskLatest
  <1>3. CASE Glob(p) \/ GlobScripts(p) \/ CleanupScript(p)
    <2>1. stale' \in [Pid -> SUBSET Pid] /\ scripts' \subseteq Pid
      <3>1. CASE Glob(p)
        BY <3>1 DEF Glob
      <3>2. CASE GlobScripts(p)
        BY <3>2 DEF GlobScripts
      <3>3. CASE CleanupScript(p)
        BY <3>3 DEF CleanupScript
      <3> QED BY <1>3, <3>1, <3>2, <3>3
    <2>2. pc' \in [Pid -> Place]
      BY <1>3 DEF Glob, GlobScripts, CleanupScript
    <2>3. \A q \in Pid : pc'[q] \in Working => wanted'[q] \in 1..Newest
      BY <1>3 DEF Glob, GlobScripts, CleanupScript
    <2> QED BY <1>3, <2>1, <2>2, <2>3 DEF Glob, GlobScripts, CleanupScript
  <1>4. CASE CleanupOne(p) \/ CleanupOwn(p)
    <2>1. stale' \in [Pid -> SUBSET Pid] /\ names' \in [Pid -> Pid \cup {NoOne}]
      <3>1. CASE CleanupOne(p)
        <4>1. names' = names \/ \E path \in Pid : names' = [names EXCEPT ![path] = NoOne]
          BY <3>1 DEF CleanupOne, Remove
        <4>2. names' \in [Pid -> Pid \cup {NoOne}]
          BY <4>1
        <4>3. \E path \in stale[p] : stale' = [stale EXCEPT ![p] = @ \ {path}]
          BY <3>1 DEF CleanupOne
        <4>4. stale' \in [Pid -> SUBSET Pid]
          BY <4>3
        <4> QED BY <4>2, <4>4
      <3>2. CASE CleanupOwn(p)
        BY <3>2 DEF CleanupOwn, Remove, TempPath
      <3> QED BY <1>4, <3>1, <3>2
    <2>2. pc' \in [Pid -> Place]
      BY <1>4 DEF CleanupOne, CleanupOwn
    <2>3. \A q \in Pid : pc'[q] \in Working => wanted'[q] \in 1..Newest
      BY <1>4 DEF CleanupOne, CleanupOwn, CleanedUp
    <2> QED BY <1>4, <2>1, <2>2, <2>3 DEF CleanupOne, CleanupOwn
  <1>5. CASE Create(p)
    <2>1. [version |-> wanted[p], content |-> "partial"] \in Image
      BY DEF Image, Content
    <2>2. files' \in [Pid -> Image] /\ names' \in [Pid -> Pid \cup {NoOne}]
      <3>1. \/ UNCHANGED <<files, names>>
            \/ /\ files' = [files EXCEPT ![p] = [version |-> wanted[p], content |-> "partial"]]
               /\ names' = [names EXCEPT ![p] = p]
        BY <1>5 DEF Create, TempPath
      <3>2. CASE UNCHANGED <<files, names>>
        BY <3>2
      <3>3. CASE /\ files' = [files EXCEPT ![p] = [version |-> wanted[p], content |-> "partial"]]
                 /\ names' = [names EXCEPT ![p] = p]
        <4>1. files' \in [Pid -> Image]
          BY <2>1, <3>3
        <4>2. names' \in [Pid -> Pid \cup {NoOne}]
          BY <3>3
        <4> QED BY <4>1, <4>2
      <3> QED BY <3>1, <3>2, <3>3
    <2>3. pc' \in [Pid -> Place]
      BY <1>5, ZenonT(40) DEF Create
    <2>4. \A q \in Pid : pc'[q] \in Working => wanted'[q] \in 1..Newest
      BY <1>5 DEF Create
    <2> QED BY <1>5, <2>2, <2>3, <2>4 DEF Create
  <1>6. CASE RequestFails(p) \/ Verify(p) \/ Chmod(p)
    BY <1>6, ZenonT(40) DEF RequestFails, Verify, Chmod
  <1>7. CASE Copy(p)
    <2>1. PICK content \in {"whole"} \cup (trouble \cap {"short", "corrupt"}) :
             files' = [files EXCEPT ![p] = [version |-> files[p].version, content |-> content]]
      BY <1>7, CopyFile
    <2>2. [version |-> files[p].version, content |-> content] \in Image
      BY DEF Image, Content
    <2>3. files' \in [Pid -> Image]
      BY <2>1, <2>2
    <2> QED BY <1>7, <2>3 DEF Copy
  <1>8. CASE CopyFails(p) \/ VerifyFails(p) \/ ChmodFails(p) \/ RenameFails(p) \/ ScheduleFails(p)
    BY <1>8, ZenonT(40)
    DEF CopyFails, VerifyFails, ChmodFails, RenameFails, ScheduleFails, Discard, Remove, TempPath
  <1>9. CASE Rename(p)
    BY <1>9 DEF Rename, Remove, TempPath, OwnNames
  <1>10. CASE Schedule(p) \/ ScriptStops(p)
    BY <1>10 DEF Schedule, ScriptStops
  <1>11. CASE Move(p)
    BY <1>11 DEF Move, CanMove, ScriptEnds, Remove, TempPath, OwnNames
  <1>12. CASE MoveFails(p)
    BY <1>12 DEF MoveFails, ScriptEnds, Remove, TempPath
  <1> QED BY <1>1, <1>2, <1>3, <1>4, <1>5, <1>6, <1>7, <1>8, <1>9, <1>10, <1>11, <1>12
          DEF Step1, Update, Script

\* A step changes nothing of another process but what its path leads to.
LEMMA OthersKeep ==
    ASSUME UpdateInv, NEW p \in Pid, Step1(p), NEW q \in Pid \ {p}
    PROVE  /\ pc'[q] = pc[q] /\ current'[q] = current[q] /\ wanted'[q] = wanted[q]
           /\ files'[q] = files[q] /\ stale'[q] = stale[q]
           /\ q \in waiting' <=> q \in waiting
           /\ names'[q] \in {names[q], NoOne}
  <1> USE DEF UpdateInv, UpdateTypeOK, Goto, windows, Remove, TempPath
  <1>1. CASE Launch(p) \/ Gate(p) \/ EndWork(p) \/ AskLatest(p) \/ AskLatestFails(p) \/ Exit(p) \/ Crash(p)
    BY <1>1 DEF Launch, Gate, EndWork, AskLatest, AskLatestFails, Exit, Crash
  <1>2. CASE Glob(p) \/ GlobScripts(p) \/ CleanupScript(p)
    BY <1>2 DEF Glob, GlobScripts, CleanupScript
  <1>3. CASE CleanupOne(p)
    <2>1. names'[q] \in {names[q], NoOne}
      BY <1>3 DEF CleanupOne
    <2> QED BY <1>3, <2>1 DEF CleanupOne
  <1>4. CASE CleanupOwn(p) \/ Create(p)
    BY <1>4 DEF CleanupOwn, Create
  <1>5. CASE Copy(p)
    <2>1. files'[q] = files[q]
      BY <1>5, CopyFile
    <2> QED BY <1>5, <2>1 DEF Copy
  <1>6. CASE RequestFails(p) \/ Verify(p) \/ Chmod(p)
    BY <1>6, ZenonT(40) DEF RequestFails, Verify, Chmod
  <1>7. CASE CopyFails(p) \/ VerifyFails(p) \/ ChmodFails(p) \/ RenameFails(p) \/ ScheduleFails(p)
    BY <1>7 DEF CopyFails, VerifyFails, ChmodFails, RenameFails, ScheduleFails, Discard
  <1>8. CASE Rename(p)
    BY <1>8 DEF Rename
  <1>9. CASE Schedule(p) \/ ScriptStops(p)
    BY <1>9 DEF Schedule, ScriptStops
  <1>10. CASE Move(p) \/ MoveFails(p)
    BY <1>10 DEF Move, MoveFails, ScriptEnds
  <1> QED BY <1>1, <1>2, <1>3, <1>4, <1>5, <1>6, <1>7, <1>8, <1>9, <1>10
          DEF Step1, Update, Script

\* What a step makes of the process that takes it: its path leads to its own file, ...
LEMMA OwnPath ==
    ASSUME UpdateInv, NEW p \in Pid, Step1(p)
    PROVE  /\ names'[p] \in {p, NoOne}
           /\ pc'[p] = "cleanup" /\ p \notin stale'[p] => names'[p] = NoOne
           /\ pc'[p] \in {"scripts", "request"} => names'[p] = NoOne
           /\ pc[p] \in Working /\ pc'[p] = "ended" =>
                 names'[p] = NoOne
  <1> USE DEF UpdateInv, UpdateTypeOK, OwnNames, OwnFileGone, Goto, windows, Remove, TempPath, Working, Place
  <1>1. CASE Launch(p) \/ Gate(p) \/ EndWork(p) \/ AskLatest(p) \/ AskLatestFails(p) \/ Exit(p) \/ Crash(p)
    BY <1>1 DEF Launch, Gate, EndWork, AskLatest, AskLatestFails, Exit, Crash
  <1>2. CASE Glob(p) \/ GlobScripts(p) \/ CleanupScript(p)
    BY <1>2 DEF Glob, GlobScripts, CleanupScript
  <1>3. CASE CleanupOne(p)
    <2>1. PICK path \in stale[p] :
             /\ IF Locked(path) THEN UNCHANGED names ELSE names' = [names EXCEPT ![path] = NoOne]
             /\ stale' = [stale EXCEPT ![p] = @ \ {path}]
      BY <1>3 DEF CleanupOne
    <2>2. ~Locked(p)
      BY <1>3 DEF CleanupOne, Locked
    <2>3. names'[p] \in {names[p], NoOne} /\ (path = p => names'[p] = NoOne)
      BY <2>1, <2>2
    <2>4. stale'[p] = stale[p] \ {path} /\ pc' = pc /\ pc[p] = "cleanup"
      BY <1>3, <2>1 DEF CleanupOne
    <2> QED BY <2>3, <2>4
  <1>4. CASE CleanupOwn(p) \/ Create(p)
    BY <1>4 DEF CleanupOwn, Create
  <1>5. CASE Copy(p) \/ Verify(p) \/ Chmod(p)
    BY <1>5 DEF Copy, Verify, Chmod
  <1>6. CASE RequestFails(p)
    BY <1>6 DEF RequestFails, CleanedUp
  <1>7. CASE CopyFails(p) \/ VerifyFails(p) \/ ChmodFails(p) \/ RenameFails(p) \/ ScheduleFails(p)
    BY <1>7 DEF CopyFails, VerifyFails, ChmodFails, RenameFails, ScheduleFails, Discard
  <1>8. CASE Rename(p)
    BY <1>8 DEF Rename
  <1>9. CASE Schedule(p) \/ ScriptStops(p)
    BY <1>9, SMT DEF Schedule, ScriptStops
  <1>10. CASE Move(p) \/ MoveFails(p)
    BY <1>10 DEF Move, MoveFails, ScriptEnds, Runs
  <1> QED BY <1>1, <1>2, <1>3, <1>4, <1>5, <1>6, <1>7, <1>8, <1>9, <1>10
          DEF Step1, Update, Script

\* ... its script outlives it, ...
LEMMA OwnScript ==
    ASSUME UpdateInv, NEW p \in Pid, Step1(p), p \in waiting'
    PROVE  pc'[p] \in {"exit", "ended", "crashed"}
  <1> USE DEF UpdateInv, UpdateTypeOK, ScriptsOutlive, Goto, windows
  <1>1. CASE Schedule(p) \/ ScriptStops(p)
    BY <1>1 DEF Schedule, ScriptStops
  <1>2. CASE Move(p) \/ MoveFails(p)
    BY <1>2 DEF Move, MoveFails, ScriptEnds
  <1>3. CASE Crash(p) \/ Exit(p)
    BY <1>3 DEF Crash, Exit
  <1>4. CASE Update(p) /\ ~Schedule(p) /\ ~Exit(p)
    BY <1>4 DEF Update, Launch, Gate, EndWork, AskLatest, AskLatestFails, Glob, CleanupOne,
                GlobScripts, CleanupScript, CleanupOwn, CleanedUp, Create, RequestFails, Copy, CopyFails,
                Verify, VerifyFails, Chmod, ChmodFails, Discard, Rename, RenameFails, ScheduleFails
  <1> QED BY <1>1, <1>2, <1>3, <1>4 DEF Step1, Script

\* ... and its file is good and new when it is ready.
LEMMA OwnFile ==
    ASSUME UpdateInv, NEW p \in Pid, Step1(p), UNCHANGED setting
    PROVE  /\ files'[p].content \in {"short", "corrupt"} => May(files'[p].content)
           /\ pc'[p] = "verify" => files'[p].content # "partial"
           /\ Ready(p)' => files'[p].content # "partial"
           /\ Ready(p)' /\ Sized => files'[p].content # "short"
           /\ Ready(p)' /\ Digest => files'[p].content = "whole"
           /\ pc'[p] \in Working \/ Ready(p)' => current'[p] = Dev \/ Older(current'[p], wanted'[p])
           /\ pc'[p] \in {"copy", "verify"} \/ Ready(p)' => files'[p].version = wanted'[p]
           /\ Ready(p)' => wanted'[p] # Dev
  <1> USE DEF UpdateInv, UpdateTypeOK, ScriptsOutlive, ReadyIsGood, ReadyIsNewer, Ready,
              Goto, windows, Working
  <1>1. CASE Launch(p) \/ Gate(p) \/ EndWork(p) \/ AskLatestFails(p) \/ Exit(p) \/ Crash(p)
    BY <1>1 DEF Launch, Gate, EndWork, AskLatestFails, Exit, Crash
  <1>2. CASE AskLatest(p)
    <2>1. wanted'[p] = latest /\ UNCHANGED <<files, current, waiting>> /\ p \notin waiting
      BY <1>2 DEF AskLatest
    <2>2. pc'[p] = "glob" \/ pc'[p] = "ended"
      BY <1>2 DEF AskLatest
    <2>3. pc'[p] = "glob" => current[p] = Dev \/ Older(current[p], latest)
      BY <1>2 DEF AskLatest, UpToDate
    <2> QED BY <2>1, <2>2, <2>3
  <1>3. CASE Glob(p) \/ CleanupOne(p) \/ GlobScripts(p) \/ CleanupScript(p) \/ CleanupOwn(p) \/ RequestFails(p)
    BY <1>3 DEF Glob, CleanupOne, GlobScripts, CleanupScript, CleanupOwn, CleanedUp, RequestFails
  <1>4. CASE Create(p)
    <2>1. pc[p] = "request" /\ p \notin waiting /\ UNCHANGED <<current, wanted, waiting>>
      BY <1>4 DEF Create
    <2>2. \/ files'[p] = [version |-> wanted[p], content |-> "partial"] /\ pc'[p] = "copy"
          \/ files' = files /\ pc'[p] = "ended"
      BY <1>4 DEF Create
    <2> QED BY <2>1, <2>2
  <1>5. CASE Copy(p)
    <2>1. PICK content \in {"whole"} \cup (trouble \cap {"short", "corrupt"}) :
             files' = [files EXCEPT ![p] = [version |-> files[p].version, content |-> content]]
      BY <1>5, CopyFile
    <2>2. files'[p] = [version |-> files[p].version, content |-> content]
      BY <2>1
    <2>3. pc[p] = "copy" /\ pc'[p] = "verify" /\ p \notin waiting /\ UNCHANGED <<current, wanted, waiting>>
      BY <1>5 DEF Copy
    <2> QED BY <2>2, <2>3 DEF May, setting
  <1>6. CASE Verify(p)
    <2>1. files[p].content \in Content
      BY DEF Image
    <2>2. pc[p] = "verify" /\ pc'[p] = "chmod" /\ p \notin waiting
          /\ UNCHANGED <<files, current, wanted, waiting, trouble>>
      BY <1>6 DEF Verify, setting
    <2>3. (Sized => files[p].content # "short") /\ (Digest => files[p].content = "whole")
      BY <1>6 DEF Verify, Verified
    <2>4. files[p].content # "partial"
      BY <2>2
    <2>5. wanted[p] # Dev
      BY <2>2 DEF Dev
    <2> QED BY <2>1, <2>2, <2>3, <2>4, <2>5 DEF Content, May
  <1>7. CASE Chmod(p) \/ Schedule(p) \/ ScriptStops(p)
    BY <1>7 DEF Chmod, Schedule, ScriptStops
  <1>8. CASE CopyFails(p) \/ VerifyFails(p) \/ ChmodFails(p) \/ RenameFails(p) \/ ScheduleFails(p)
    BY <1>8 DEF CopyFails, VerifyFails, ChmodFails, RenameFails, ScheduleFails, Discard
  <1>9. CASE Rename(p) \/ Move(p) \/ MoveFails(p)
    BY <1>9 DEF Rename, Move, MoveFails, ScriptEnds
  <1> QED BY <1>1, <1>2, <1>3, <1>4, <1>5, <1>6, <1>7, <1>8, <1>9 DEF Step1, Update, Script

\* The executable becomes the file of a process that installs it, or stays.
LEMMA ExeStep ==
    ASSUME UpdateInv, NEW p \in Pid, Step1(p)
    PROVE  \/ exe' = exe
           \/ Ready(p) /\ exe' = files[p]
  <1> USE DEF UpdateInv, UpdateTypeOK, windows
  <1>1. CASE Rename(p)
    BY <1>1 DEF Rename, TempPath, OwnNames, Ready
  <1>2. CASE Move(p)
    BY <1>2 DEF Move, ScriptEnds, CanMove, TempPath, OwnNames, Ready
  <1>3. CASE ~Rename(p) /\ ~Move(p)
    BY <1>3 DEF Step1, Update, Script, Launch, Gate, EndWork, AskLatest, AskLatestFails, Glob, CleanupOne,
                GlobScripts, CleanupScript, CleanupOwn, Create, RequestFails, Copy, CopyFails, Verify,
                VerifyFails, Chmod, ChmodFails, Discard, RenameFails, Schedule, ScheduleFails, Exit,
                MoveFails, ScriptStops, Crash
  <1> QED BY <1>1, <1>2, <1>3

LEMMA UpdateStep == UpdateInv /\ [Next]_vars => UpdateInv'
  <1> SUFFICES ASSUME UpdateInv, [Next]_vars PROVE UpdateInv'
    OBVIOUS
  <1>1. ASSUME NEW p \in Pid, Step1(p), UNCHANGED setting PROVE UpdateInv'
    <2>1. UpdateTypeOK'
      BY <1>1, TypeStep
    <2>2. OwnNames'
      <3> SUFFICES ASSUME NEW q \in Pid PROVE names'[q] \in {q, NoOne}
        BY DEF OwnNames
      <3> QED BY <1>1, OwnPath, OthersKeep DEF UpdateInv, OwnNames
    <2>3. ScriptsOutlive'
      <3> SUFFICES ASSUME NEW q \in Pid, q \in waiting' PROVE pc'[q] \in {"exit", "ended", "crashed"}
        BY DEF ScriptsOutlive
      <3> QED BY <1>1, OwnScript, OthersKeep DEF UpdateInv, ScriptsOutlive
    <2>4. OwnFileGone'
      <3> SUFFICES ASSUME NEW q \in Pid
                   PROVE  /\ pc'[q] = "cleanup" /\ q \notin stale'[q] => names'[q] = NoOne
                          /\ pc'[q] \in {"scripts", "request"} => names'[q] = NoOne
        BY DEF OwnFileGone
      <3>1. CASE q = p
        BY <1>1, <3>1, OwnPath
      <3>2. CASE q # p
        BY <1>1, <3>2, OthersKeep DEF UpdateInv, OwnFileGone
      <3> QED BY <3>1, <3>2
    <2>5. ReadyIsGood' /\ ReadyIsNewer'
      <3>1. ASSUME NEW q \in Pid
            PROVE  /\ files'[q].content \in {"short", "corrupt"} => May(files'[q].content)
                   /\ pc'[q] = "verify" => files'[q].content # "partial"
                   /\ Ready(q)' => files'[q].content # "partial"
                   /\ Ready(q)' /\ Sized => files'[q].content # "short"
                   /\ Ready(q)' /\ Digest => files'[q].content = "whole"
                   /\ pc'[q] \in Working \/ Ready(q)' => current'[q] = Dev \/ Older(current'[q], wanted'[q])
                   /\ pc'[q] \in {"copy", "verify"} \/ Ready(q)' => files'[q].version = wanted'[q]
                   /\ Ready(q)' => wanted'[q] # Dev
        <4>1. CASE q = p
          BY <1>1, <4>1, OwnFile
        <4>2. CASE q # p
          <5>1. /\ pc'[q] = pc[q] /\ current'[q] = current[q] /\ wanted'[q] = wanted[q]
                /\ files'[q] = files[q]
                /\ q \in waiting' <=> q \in waiting
            BY <1>1, <4>2, OthersKeep
          <5>2. Ready(q)' <=> Ready(q)
            BY <5>1 DEF Ready
          <5> QED BY <5>1, <5>2 DEF UpdateInv, ReadyIsGood, ReadyIsNewer
        <4> QED BY <4>1, <4>2
      <3>2. trouble' = trouble
        BY <1>1 DEF setting
      <3> QED BY <3>1, <3>2 DEF ReadyIsGood, ReadyIsNewer, May
    <2>6. ExecutableWhole'
      <3>1. trouble' = trouble
        BY <1>1 DEF setting
      <3>2. CASE exe' = exe
        BY <3>1, <3>2 DEF UpdateInv, ExecutableWhole
      <3>3. CASE Ready(p) /\ exe' = files[p]
        <4>1. files[p].content \in Content
          BY <1>1 DEF UpdateInv, UpdateTypeOK, Image
        <4> QED BY <1>1, <3>1, <3>3, <4>1 DEF UpdateInv, ReadyIsGood, ExecutableWhole, May, Content
      <3> QED BY <1>1, <3>2, <3>3, ExeStep
    <2> QED BY <2>1, <2>2, <2>3, <2>4, <2>5, <2>6 DEF UpdateInv
  <1>2. ASSUME Publish \/ Withdraw, UNCHANGED setting PROVE UpdateInv'
    <2>1. latest' \in 1..Newest
      BY <1>2, UpdateAssumption DEF UpdateAssumption, UpdateInv, UpdateTypeOK, Publish, Withdraw
    <2>2. UNCHANGED <<exe, names, files, pc, current, wanted, stale, windows, setting>>
      BY <1>2 DEF Publish, Withdraw
    <2>3. UpdateTypeOK'
      BY <2>1, <2>2 DEF UpdateInv, UpdateTypeOK, windows, setting
    <2>4. OwnNames' /\ ScriptsOutlive' /\ OwnFileGone' /\ ExecutableWhole'
      BY <2>2 DEF UpdateInv, OwnNames, ScriptsOutlive, OwnFileGone, ExecutableWhole, May, windows, setting
    <2>5. ReadyIsGood' /\ ReadyIsNewer'
      BY <2>2 DEF UpdateInv, ReadyIsGood, ReadyIsNewer, Ready, May, windows, setting
    <2> QED BY <2>3, <2>4, <2>5 DEF UpdateInv
  <1>3. CASE UNCHANGED vars
    <2>1. UpdateTypeOK'
      BY <1>3 DEF UpdateInv, UpdateTypeOK, vars, windows, setting
    <2>2. OwnNames' /\ ScriptsOutlive' /\ OwnFileGone' /\ ExecutableWhole'
      BY <1>3 DEF UpdateInv, OwnNames, ScriptsOutlive, OwnFileGone, ExecutableWhole, May, vars, windows, setting
    <2>3. ReadyIsGood' /\ ReadyIsNewer'
      BY <1>3 DEF UpdateInv, ReadyIsGood, ReadyIsNewer, Ready, May, vars, windows, setting
    <2> QED BY <2>1, <2>2, <2>3 DEF UpdateInv
  <1> QED BY <1>1, <1>2, <1>3 DEF Next, Step, Step1

\* The inductive invariant holds of every history of updates.
THEOREM UpdateInvariant == Spec => []UpdateInv
  BY UpdateInit, UpdateStep, PTL DEF Spec

-----------------------------------------------------------------------------
(* What follows from it *)

\* Type correctness of the updates.
THEOREM UpdateTypeCorrect == Spec => []UpdateTypeOK
  <1>1. UpdateInv => UpdateTypeOK
    BY DEF UpdateInv
  <1> QED BY <1>1, UpdateInvariant, PTL

\* However many updates run at once, fail, crash and remove each other's files, the
\* executable stays whole: always if releases have a digest.
THEOREM ExecutableStaysWhole == Spec => []ExecutableWhole
  <1>1. UpdateInv => ExecutableWhole
    BY DEF UpdateInv
  <1> QED BY <1>1, UpdateInvariant, PTL

\* An update that ends itself leaves no file of its own.
THEOREM LeavesNoTempFile == Spec => NoTempFileLeft
  <1> DEFINE Clean == \A p \in Pid :
                pc[p] \in Working /\ pc'[p] = "ended" => names'[TempPath(p)] = NoOne
  <1>1. UpdateInv /\ [Next]_vars => [Clean]_vars
    <2> SUFFICES ASSUME UpdateInv, Next PROVE Clean
      OBVIOUS
    <2> SUFFICES ASSUME NEW q \in Pid, pc[q] \in Working, pc'[q] = "ended"
                 PROVE  names'[q] = NoOne
      BY DEF TempPath
    <2>1. pc'[q] # pc[q]
      BY DEF Working
    <2>2. PICK p \in Pid : Step1(p)
      BY <2>1 DEF Next, Step, Step1, Publish, Withdraw
    <2>3. q = p
      BY <2>1, <2>2, OthersKeep
    <2> QED BY <2>2, <2>3, OwnPath
  <1> QED BY <1>1, UpdateInvariant, PTL DEF Spec, NoTempFileLeft

\* The executable is replaced by an older release only where another update has
\* replaced it since this one was started.
THEOREM OnlyOverlappingDowngrades == Spec => OnlyOverlapDowngrades
  <1> DEFINE Fair == \A p \in Pid :
                Installs(p) /\ OlderImage(exe'.version, exe.version) => exe.version # current[p]
  <1>1. UpdateInv /\ [Next]_vars => [Fair]_vars
    <2> SUFFICES ASSUME UpdateInv, Next PROVE Fair
      OBVIOUS
    <2> SUFFICES ASSUME NEW q \in Pid, Installs(q), OlderImage(exe'.version, exe.version),
                        exe.version = current[q]
                 PROVE  FALSE
      OBVIOUS
    <2>1. exe \in Image /\ wanted[q] \in 0..Newest /\ current[q] \in 0..Newest
      BY DEF UpdateInv, UpdateTypeOK
    <2>2. exe.version \in 1..Newest
      BY <2>1, UpdateAssumption DEF Image, OlderImage, Dev, UpdateAssumption
    <2>3. exe' # exe
      <3> SUFFICES ASSUME exe' = exe PROVE FALSE
        OBVIOUS
      <3>1. Older(exe.version, exe.version)
        BY <2>2 DEF OlderImage, Dev
      <3> QED BY <2>2, <3>1, OlderAsymmetric
    <2>4. PICK p \in Pid : Step1(p)
      BY <2>3 DEF Next, Step, Step1, Publish, Withdraw
    <2>5. q = p
      <3>1. pc'[q] # pc[q] \/ ~(q \in waiting' <=> q \in waiting)
        BY DEF Installs
      <3> QED BY <2>4, <3>1, OthersKeep
    <2>6. Ready(q) /\ exe' = files[q]
      BY <2>3, <2>4, <2>5, ExeStep
    <2>7. exe'.version = wanted[q] /\ (current[q] = Dev \/ Older(current[q], wanted[q]))
      BY <2>6 DEF UpdateInv, ReadyIsNewer
    <2>8. (Older(current[q], wanted[q]) /\ Older(wanted[q], current[q])) \/ wanted[q] = Dev
      BY <2>2, <2>7 DEF OlderImage, Dev
    <2>9. wanted[q] # Dev
      BY <2>6 DEF UpdateInv, ReadyIsNewer
    <2>10. wanted[q] \in 1..Newest /\ current[q] \in 1..Newest
      BY <2>1, <2>2, <2>9 DEF Dev
    <2> QED BY <2>8, <2>9, <2>10, OlderAsymmetric
  <1> QED BY <1>1, UpdateInvariant, PTL DEF Spec, OnlyOverlapDowngrades

-----------------------------------------------------------------------------
(* Somebody installs a release. *)

\* Nothing goes wrong but the overlap of the processes and a withdrawn release.
Undisturbed == trouble \subseteq {"withdraw"}

\* The executable is no older than what a process that has ended had asked for.
Settled == \E p \in Pid : pc[p] = "ended" /\ ~OlderImage(exe.version, wanted[p])

\* The file of the process is there, or will be there, when it comes to be installed.
HasFile(p) == pc[p] \in {"copy", "verify", "chmod", "rename"} /\ names[p] = p
GoesOn(p) == pc[p] \in {"glob", "cleanup", "scripts", "request"} \/ HasFile(p)

\* Every process updates, and what it has downloaded passes its verification.
OnlyUpdates ==
    \A p \in Pid :
        /\ pc[p] \notin {"gate", "work", "crashed"}
        /\ pc[p] = "verify" => files[p].content = "whole"

\* A process was started from the executable there is, if nobody has installed one.
StartedFromThis == Settled \/ \A p \in Pid : pc[p] # "ready" => current[p] = exe.version

\* Unix: when somebody has ended, or has lost its file, the executable is settled, or
\* another one goes on.  The file of the process that cleaned up last is not removed.
UnixGoesOn ==
    platform = "unix" =>
        /\ \A p \in Pid : pc[p] # "exit"
        /\ \A p \in Pid : pc[p] \in {"ended", "copy", "verify", "chmod", "rename"} =>
              Settled \/ \E q \in Pid : GoesOn(q)

\* Windows: a process that is alone keeps its file until its script has moved it.
Waits(p) == p \in waiting /\ p \in scripts /\ names[p] = p
WindowsGoesOn ==
    platform = "windows" =>
        \A p \in Pid : (\A q \in Pid \ {p} : pc[q] = "ready") =>
            /\ pc[p] \in {"copy", "verify", "chmod", "rename"} => names[p] = p
            /\ pc[p] = "exit" => Waits(p)
            /\ pc[p] = "ended" => Settled \/ Waits(p)

QuietInv ==
    Undisturbed => OnlyUpdates /\ StartedFromThis /\ UnixGoesOn /\ WindowsGoesOn


LEMMA QuietInit == Init => QuietInv
  BY DEF Init, QuietInv, OnlyUpdates, StartedFromThis, UnixGoesOn, WindowsGoesOn

\* Whoever installs its release settles the executable, ...
LEMMA InstallSettles ==
    ASSUME UpdateInv, OnlyUpdates, NEW p \in Pid, Rename(p) \/ Move(p)
    PROVE  Settled'
  <1> USE DEF UpdateInv, UpdateTypeOK
  <1>1. pc'[p] = "ended" /\ wanted' = wanted /\ exe' = files[p] /\ Ready(p)
    <2>1. CASE Rename(p)
      BY <2>1 DEF Rename, Goto, TempPath, OwnNames, Ready
    <2>2. CASE Move(p)
      BY <2>2 DEF Move, ScriptEnds, CanMove, Runs, TempPath, OwnNames, Ready, OnlyUpdates, ScriptsOutlive
    <2> QED BY <2>1, <2>2
  <1>2. files[p].version = wanted[p] /\ wanted[p] \in 1..Newest
    BY <1>1 DEF ReadyIsNewer, Dev
  <1>3. ~OlderImage(exe'.version, wanted'[p])
    BY <1>1, <1>2, OlderAsymmetric, UpdateAssumption DEF UpdateAssumption, OlderImage, Dev
  <1> QED BY <1>1, <1>3 DEF Settled, OlderImage, Older, Part

\* ... and so it stays.
LEMMA SettledStays ==
    ASSUME UpdateInv, OnlyUpdates, NEW p \in Pid, Step1(p)
    PROVE  /\ Settled => Settled'
           /\ exe' # exe => Settled'
  <1>1. CASE Rename(p) \/ Move(p)
    BY <1>1, InstallSettles
  <1>2. CASE ~Rename(p) /\ ~Move(p)
    <2>1. exe' = exe
      BY <1>2 DEF Step1, Update, Script, Launch, Gate, EndWork, AskLatest, AskLatestFails, Glob, CleanupOne,
                GlobScripts, CleanupScript, CleanupOwn, Create, RequestFails, Copy, CopyFails, Verify,
                VerifyFails, Chmod, ChmodFails, Discard, RenameFails, Schedule, ScheduleFails, Exit,
                MoveFails, ScriptStops, Crash
    <2>2. pc[p] = "ended" => pc' = pc /\ wanted' = wanted
      BY <1>2 DEF Step1, Update, Script, Launch, Gate, EndWork, AskLatest, AskLatestFails, Glob, CleanupOne,
                GlobScripts, CleanupScript, CleanupOwn, CleanedUp, Create, RequestFails, Copy, CopyFails, Verify,
                VerifyFails, Chmod, ChmodFails, Discard, RenameFails, Schedule, ScheduleFails, Exit,
                MoveFails, ScriptEnds, ScriptStops, Crash, Runs
    <2>3. ASSUME Settled PROVE Settled'
      <3>1. PICK q \in Pid : pc[q] = "ended" /\ ~OlderImage(exe.version, wanted[q])
        BY <2>3 DEF Settled
      <3>2. pc'[q] = "ended" /\ wanted'[q] = wanted[q]
        BY <2>2, <3>1, OthersKeep
      <3> QED BY <2>1, <3>1, <3>2 DEF Settled, OlderImage, Older, Part
    <2> QED BY <2>1, <2>3
  <1> QED BY <1>1, <1>2


\* What a step makes of the process that takes it, when nothing else goes wrong: a
\* process that asks for the latest release ends only if it has it, ...
LEMMA AskSettles ==
    ASSUME UpdateInv, Undisturbed, StartedFromThis, NEW p \in Pid, AskLatest(p)
    PROVE  \/ pc'[p] = "glob"
           \/ pc'[p] = "ended" /\ Settled'
  <1> USE DEF UpdateInv, UpdateTypeOK, Goto
  <1>1. pc'[p] \in {"glob", "ended"} /\ (pc'[p] = "ended" => UpToDate(p))
    BY DEF AskLatest, Undisturbed, May
  <1>2. wanted'[p] = latest /\ exe' = exe
    BY DEF AskLatest
  <1>3. ASSUME pc'[p] = "ended", ~Settled PROVE Settled'
    <2>1. current[p] = exe.version
      BY <1>3 DEF AskLatest, StartedFromThis
    <2>2. ~OlderImage(exe'.version, wanted'[p])
      BY <1>1, <1>2, <1>3, <2>1 DEF UpToDate, OlderImage
    <2> QED BY <1>3, <2>2 DEF Settled, OlderImage, Older, Part
  <1>4. ASSUME Settled PROVE Settled'
    <2>1. PICK q \in Pid : pc[q] = "ended" /\ ~OlderImage(exe.version, wanted[q])
      BY <1>4 DEF Settled
    <2>2. q # p /\ pc'[q] = "ended" /\ wanted'[q] = wanted[q]
      BY <2>1 DEF AskLatest
    <2> QED BY <1>2, <2>1, <2>2 DEF Settled, OlderImage, Older, Part
  <1> QED BY <1>1, <1>3, <1>4

\* ... one that goes on keeps its file, and goes on until it has installed it, ...
LEMMA OwnGoesOn ==
    ASSUME UpdateInv, Undisturbed, OnlyUpdates, NEW p \in Pid, Update(p), ~Rename(p), ~AskLatest(p)
    PROVE  /\ pc'[p] \notin {"ready", "gate", "work", "crashed"}
           /\ pc'[p] = "verify" => files'[p].content = "whole"
           /\ GoesOn(p) => GoesOn(p)' \/ pc'[p] = "exit"
           /\ HasFile(p) => HasFile(p)' \/ pc'[p] = "exit"
           /\ pc'[p] \in {"copy", "verify", "chmod", "rename"} =>
                 pc[p] \in {"request", "copy", "verify", "chmod", "rename"}
           /\ pc[p] = "exit" => UNCHANGED <<names, windows>>
           /\ pc'[p] = "exit" =>
                 /\ platform = "windows" /\ pc[p] = "rename"
                 /\ p \in waiting' /\ p \in scripts' /\ names' = names
           /\ pc'[p] = "ended" => pc[p] = "exit" \/ (pc[p] \in {"chmod", "rename"} /\ names[p] = NoOne)
  <1> USE DEF UpdateInv, UpdateTypeOK, Undisturbed, May, OnlyUpdates, OwnNames, OwnFileGone,
              Goto, windows, Remove, TempPath, GoesOn, HasFile
  <1>1. CASE Launch(p) \/ Gate(p) \/ EndWork(p) \/ AskLatestFails(p) \/ Glob(p) \/ GlobScripts(p) \/ CleanupScript(p)
    BY <1>1 DEF Launch, Gate, EndWork, AskLatestFails, Glob, GlobScripts, CleanupScript
  <1>2. CASE CleanupOne(p)
    BY <1>2 DEF CleanupOne
  <1>3. CASE CleanupOwn(p) \/ Create(p) \/ RequestFails(p)
    BY <1>3 DEF CleanupOwn, CleanedUp, Create, RequestFails
  <1>4. CASE Copy(p) \/ CopyFails(p)
    BY <1>4, CopyFile DEF Copy, CopyFails
  <1>5. CASE Verify(p) \/ VerifyFails(p)
    BY <1>5 DEF Verify, VerifyFails, Verified
  <1>6. CASE Chmod(p)
    BY <1>6 DEF Chmod
  <1>7. CASE ChmodFails(p) \/ RenameFails(p)
    <2>1. pc'[p] = "ended" /\ names[p] = NoOne /\ pc[p] \in {"chmod", "rename"}
      BY <1>7 DEF ChmodFails, RenameFails, Discard
    <2> QED BY <2>1, NoOneAssumption
  <1>8. CASE Schedule(p) \/ ScheduleFails(p) \/ Exit(p)
    BY <1>8, SMT DEF Schedule, ScheduleFails, Exit
  <1> QED BY <1>1, <1>2, <1>3, <1>4, <1>5, <1>6, <1>7, <1>8 DEF Update


\* ... only one that is cleaning up, and goes on, removes another one's file, ...
LEMMA OnlyCleanupRemoves ==
    ASSUME UpdateInv, NEW p \in Pid, Step1(p), NEW q \in Pid \ {p}, names'[q] # names[q]
    PROVE  GoesOn(p)'
  <1> USE DEF UpdateInv, UpdateTypeOK, Remove, TempPath
  <1>1. CASE CleanupOne(p)
    BY <1>1 DEF CleanupOne, GoesOn
  <1>2. CASE ~CleanupOne(p)
    BY <1>2 DEF Step1, Update, Script, Launch, Gate, EndWork, AskLatest, AskLatestFails, Glob,
                GlobScripts, CleanupScript, CleanupOwn, Create, RequestFails, Copy, CopyFails, Verify,
                VerifyFails, Chmod, ChmodFails, Discard, Rename, RenameFails, Schedule, ScheduleFails,
                Exit, Move, MoveFails, ScriptEnds, ScriptStops, Crash
  <1> QED BY <1>1, <1>2

\* ... and the script of one that is alone moves its file.
LEMMA OwnScriptMoves ==
    ASSUME UpdateInv, Undisturbed, OnlyUpdates, NEW p \in Pid, Script(p)
    PROVE  /\ pc' = pc
           /\ pc[p] \in {"exit", "ended"}
           /\ pc[p] = "exit" /\ Waits(p) => Waits(p)'
           /\ Waits(p) /\ (\A q \in Pid \ {p} : pc[q] = "ready") => Waits(p)' \/ Settled'
  <1> USE DEF UpdateInv, UpdateTypeOK, ScriptsOutlive, OnlyUpdates, Undisturbed, May, windows, Waits
  <1>1. CASE ScriptStops(p)
    BY <1>1 DEF ScriptStops
  <1>2. CASE Move(p)
    <2>1. Settled'
      BY <1>2, InstallSettles
    <2> QED BY <1>2, <2>1 DEF Move, ScriptEnds, Runs
  <1>3. CASE MoveFails(p)
    BY <1>3, NoOneAssumption DEF MoveFails, ScriptEnds, CanMove, Runs, TempPath
  <1> QED BY <1>1, <1>2, <1>3 DEF Script

LEMMA QuietOwn ==
    ASSUME UpdateInv, Undisturbed, OnlyUpdates, StartedFromThis, NEW p \in Pid, Step1(p),
           UNCHANGED setting
    PROVE  OnlyUpdates' /\ StartedFromThis'
  <1>1. /\ pc'[p] \notin {"gate", "work", "crashed"}
        /\ pc'[p] = "verify" => files'[p].content = "whole"
    <2>1. CASE AskLatest(p)
      BY <2>1, AskSettles
    <2>2. CASE Rename(p)
      BY <2>2 DEF Rename, Goto, UpdateInv, UpdateTypeOK
    <2>3. CASE Update(p) /\ ~AskLatest(p) /\ ~Rename(p)
      BY <2>3, OwnGoesOn
    <2>4. CASE Script(p)
      BY <2>4, OwnScriptMoves
    <2> QED BY <2>1, <2>2, <2>3, <2>4 DEF Step1, Crash, Undisturbed, May
  <1>2. OnlyUpdates'
    <2> SUFFICES ASSUME NEW q \in Pid
                 PROVE  /\ pc'[q] \notin {"gate", "work", "crashed"}
                        /\ pc'[q] = "verify" => files'[q].content = "whole"
      BY DEF OnlyUpdates
    <2> QED BY <1>1, OthersKeep DEF OnlyUpdates
  <1>3. ASSUME ~Settled' PROVE \A q \in Pid : pc'[q] # "ready" => current'[q] = exe'.version
    <2>1. ~Settled /\ exe' = exe
      BY <1>3, SettledStays
    <2>2. pc'[p] # "ready" => current'[p] = exe.version
      <3>1. CASE Launch(p)
        BY <3>1 DEF Launch, UpdateInv, UpdateTypeOK
      <3>2. CASE ~Launch(p)
        <4>1. current' = current /\ (pc[p] = "ready" => pc'[p] = "ready")
          BY <3>2 DEF Step1, Update, Script, Gate, EndWork, AskLatest, AskLatestFails, Glob, CleanupOne,
                GlobScripts, CleanupScript, CleanupOwn, CleanedUp, Create, RequestFails, Copy, CopyFails, Verify,
                VerifyFails, Chmod, ChmodFails, Discard, Rename, RenameFails, Schedule, ScheduleFails, Exit,
                Move, MoveFails, ScriptEnds, ScriptStops, Crash, Runs
        <4> QED BY <2>1, <4>1 DEF StartedFromThis
      <3> QED BY <3>1, <3>2
    <2> QED BY <2>1, <2>2, OthersKeep DEF StartedFromThis
  <1> QED BY <1>2, <1>3 DEF StartedFromThis

\* Unix: only a process that goes on can take another one's file away.
LEMMA QuietUnix ==
    ASSUME UpdateInv, Undisturbed, OnlyUpdates, StartedFromThis, UnixGoesOn,
           NEW p \in Pid, Step1(p), UNCHANGED setting
    PROVE  UnixGoesOn'
  <1> SUFFICES ASSUME platform = "unix" PROVE UnixGoesOn'
    BY DEF UnixGoesOn, setting
  <1>1. Update(p) \/ Script(p)
    BY DEF Step1, Crash, Undisturbed, May
  <1>2. pc'[p] # "exit"
    <2>1. CASE AskLatest(p)
      BY <2>1, AskSettles
    <2>2. CASE Rename(p)
      BY <2>2 DEF Rename, Goto, UpdateInv, UpdateTypeOK
    <2>3. CASE Update(p) /\ ~AskLatest(p) /\ ~Rename(p)
      BY <2>3, OwnGoesOn
    <2>4. CASE Script(p)
      BY <2>4, OwnScriptMoves DEF UnixGoesOn
    <2> QED BY <1>1, <2>1, <2>2, <2>3, <2>4
  <1>3. \A q \in Pid : pc'[q] # "exit"
    BY <1>2, OthersKeep DEF UnixGoesOn
  <1>4. SUFFICES ASSUME ~Settled',
                        NEW r \in Pid, pc'[r] \in {"ended", "copy", "verify", "chmod", "rename"}
                 PROVE  \E q \in Pid : GoesOn(q)'
    BY <1>3 DEF UnixGoesOn
  <1>5. ~Settled /\ ~Rename(p) /\ ~Move(p)
    BY <1>4, SettledStays, InstallSettles
  <1>6. CASE AskLatest(p)
    BY <1>4, <1>6, AskSettles DEF GoesOn
  <1>7. CASE Script(p) \/ (Update(p) /\ ~AskLatest(p))
    <2>1. CASE \E q \in Pid : GoesOn(q)
      <3>1. PICK q \in Pid : GoesOn(q)
        BY <2>1
      <3>2. CASE q = p
        BY <1>2, <1>5, <1>7, <3>1, <3>2, OwnGoesOn, OwnScriptMoves DEF GoesOn, HasFile
      <3>3. CASE q # p /\ names'[q] = names[q]
        BY <3>1, <3>3, OthersKeep DEF GoesOn, HasFile
      <3>4. CASE q # p /\ names'[q] # names[q]
        BY <3>4, OnlyCleanupRemoves
      <3> QED BY <3>2, <3>3, <3>4
    <2>2. CASE ~\E q \in Pid : GoesOn(q)
      <3>1. \A q \in Pid : pc[q] \notin {"exit", "ended", "copy", "verify", "chmod", "rename"}
        BY <1>5, <2>2 DEF UnixGoesOn
      <3>2. r = p
        BY <1>4, <3>1, OthersKeep
      <3>3. ~Script(p)
        BY <3>1, OwnScriptMoves
      <3> QED BY <1>4, <1>5, <1>7, <2>2, <3>1, <3>2, <3>3, OwnGoesOn DEF GoesOn
    <2> QED BY <2>1, <2>2
  <1> QED BY <1>1, <1>6, <1>7

\* Windows: nobody takes the file of a process that is alone.
LEMMA QuietWindows ==
    ASSUME UpdateInv, Undisturbed, OnlyUpdates, StartedFromThis, WindowsGoesOn,
           NEW p \in Pid, Step1(p), UNCHANGED setting
    PROVE  WindowsGoesOn'
  <1> SUFFICES ASSUME platform = "windows",
                      NEW q \in Pid, \A r \in Pid \ {q} : pc'[r] = "ready"
               PROVE  /\ pc'[q] \in {"copy", "verify", "chmod", "rename"} => names'[q] = q
                      /\ pc'[q] = "exit" => Waits(q)'
                      /\ pc'[q] = "ended" => Settled' \/ Waits(q)'
    BY DEF WindowsGoesOn, setting
  <1>1. Update(p) \/ Script(p)
    BY DEF Step1, Crash, Undisturbed, May
  <1>2. ~Rename(p)
    BY DEF Rename
  <1>3. pc'[p] # "ready"
    <2>1. CASE AskLatest(p)
      BY <2>1, AskSettles
    <2>2. CASE Update(p) /\ ~AskLatest(p)
      BY <1>2, <2>2, OwnGoesOn
    <2>3. CASE Script(p)
      BY <2>3, OwnScriptMoves
    <2> QED BY <1>1, <2>1, <2>2, <2>3
  <1>4. q = p
    BY <1>3
  <1>5. \A r \in Pid \ {p} : pc[r] = "ready"
    BY <1>4, OthersKeep
  <1>6. /\ pc[p] \in {"copy", "verify", "chmod", "rename"} => names[p] = p
        /\ pc[p] = "exit" => Waits(p)
        /\ pc[p] = "ended" => Settled \/ Waits(p)
    BY <1>5 DEF WindowsGoesOn
  <1>7. CASE AskLatest(p)
    BY <1>4, <1>7, AskSettles
  <1>8. CASE Update(p) /\ ~AskLatest(p)
    <2>1. names[p] = p => names[p] # NoOne
      BY NoOneAssumption
    <2>2. ASSUME pc'[p] \in {"copy", "verify", "chmod", "rename"} PROVE names'[p] = p
      BY <1>2, <1>6, <1>8, <2>2, OwnGoesOn DEF GoesOn, HasFile
    <2>3. ASSUME pc'[p] = "exit" PROVE Waits(p)'
      BY <1>2, <1>6, <1>8, <2>3, OwnGoesOn DEF Waits
    <2>4. ASSUME pc'[p] = "ended" PROVE Waits(p)'
      BY <1>2, <1>6, <1>8, <2>1, <2>4, OwnGoesOn DEF Waits, windows
    <2> QED BY <1>4, <2>2, <2>3, <2>4
  <1>9. CASE Script(p)
    BY <1>4, <1>5, <1>6, <1>9, OwnScriptMoves, SettledStays
  <1> QED BY <1>1, <1>7, <1>8, <1>9

LEMMA QuietStep == UpdateInv /\ QuietInv /\ [Next]_vars => QuietInv'
  <1> SUFFICES ASSUME UpdateInv, QuietInv, [Next]_vars, Undisturbed'
               PROVE  (OnlyUpdates /\ StartedFromThis /\ UnixGoesOn /\ WindowsGoesOn)'
    BY DEF QuietInv
  <1>1. UNCHANGED setting
    BY DEF Next, vars
  <1>2. Undisturbed /\ OnlyUpdates /\ StartedFromThis /\ UnixGoesOn /\ WindowsGoesOn
    BY <1>1 DEF Undisturbed, QuietInv, setting
  <1>3. ASSUME NEW p \in Pid, Step1(p)
        PROVE  (OnlyUpdates /\ StartedFromThis /\ UnixGoesOn /\ WindowsGoesOn)'
    BY <1>1, <1>2, <1>3, QuietOwn, QuietUnix, QuietWindows
  <1>4. ASSUME UNCHANGED <<setting, exe, names, files, pc, current, wanted, windows>>
        PROVE  (OnlyUpdates /\ StartedFromThis /\ UnixGoesOn /\ WindowsGoesOn)'
    <2>1. Settled' = Settled /\ \A q \in Pid : GoesOn(q)' = GoesOn(q) /\ Waits(q)' = Waits(q)
      BY <1>4 DEF Settled, OlderImage, Older, Part, GoesOn, HasFile, Waits, windows
    <2> QED BY <1>2, <1>4, <2>1 DEF OnlyUpdates, StartedFromThis, UnixGoesOn, WindowsGoesOn, setting
  <1>5. Publish \/ Withdraw \/ UNCHANGED vars =>
           UNCHANGED <<setting, exe, names, files, pc, current, wanted, windows>>
    BY <1>1 DEF Publish, Withdraw, vars
  <1> QED BY <1>3, <1>4, <1>5 DEF Next, Step, Step1

\* If nothing goes wrong but that updates run at once, somebody's release is installed
\* when all have ended; on Windows, if an update is alone.
THEOREM SomebodyAlwaysInstalls == Spec => []SomebodyInstalls
  <1>1. UpdateInv /\ QuietInv => SomebodyInstalls
    <2> SUFFICES ASSUME UpdateInv, QuietInv, Undisturbed, waiting = {},
                        \A p \in Pid : pc[p] \in {"ready", "ended"},
                        NEW p \in Pid, pc[p] = "ended",
                        platform = "windows" =>
                            \A q, r \in Pid : pc[q] = "ended" /\ pc[r] = "ended" => q = r
                 PROVE  Settled
      BY DEF SomebodyInstalls, Undisturbed, Settled
    <2>1. UnixGoesOn /\ WindowsGoesOn
      BY DEF QuietInv
    <2>2. CASE platform = "unix"
      BY <2>1, <2>2 DEF UnixGoesOn, GoesOn, HasFile
    <2>3. CASE platform = "windows"
      BY <2>1, <2>3 DEF WindowsGoesOn, Waits
    <2> QED BY <2>2, <2>3, UpdateAssumption DEF UpdateAssumption, UpdateInv, UpdateTypeOK
  <1>2. UpdateInv /\ QuietInv /\ [Next]_vars => QuietInv'
    BY QuietStep
  <1> QED BY <1>1, <1>2, QuietInit, UpdateInvariant, PTL DEF Spec

=============================================================================
