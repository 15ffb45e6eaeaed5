----------------------------- MODULE SelfUpdate -----------------------------
(***************************************************************************)
(* czdomains update: several processes replace the executable they were    *)
(* started from.  Each asks for the latest release, removes the temporary  *)
(* files that earlier updates left beside the executable, downloads the    *)
(* new one into a temporary file of its own, checks it, and renames it     *)
(* over the executable.  On Windows, where a running executable cannot be  *)
(* replaced, it leaves that to a script which waits until the process has  *)
(* ended.  Other commands first pass the gate of ensureLatestVersion.      *)
(*                                                                         *)
(* A name in the directory and the file it leads to are different things:  *)
(* a process goes on writing to a file whose name another one has removed. *)
(***************************************************************************)
EXTENDS Naturals, Sequences

CONSTANTS Pid,          \* the processes, each started at most once
          Installed,    \* the versions that may be installed at first
          Newest,       \* releases are numbered 1..Newest, as they appear
          Parts,        \* the numbers in the tag of each release: v1.2.3 is <<1, 2, 3>>
          Sized,        \* whether the assets of releases have a size
          Digest,       \* ... and a sha256 digest
          Platforms,    \* the operating systems
          Troubles      \* what may go wrong together

\* "net": a request, a body or a write fails
\* "asset": a release lacks the asset, or the asset its URL
\* "short", "corrupt": a body arrives with fewer bytes, or with other ones
\* "withdraw": the latest release is withdrawn      "crash": a process is killed
\* "work": processes may run other commands than update
TroubleKind == {"net", "asset", "short", "corrupt", "withdraw", "crash", "work"}

ASSUME UpdateAssumption ==
    /\ Newest \in Nat \ {0}
    /\ Parts \in [1..Newest -> Seq(Nat)]
    /\ Installed \subseteq 0..Newest
    /\ Sized \in BOOLEAN /\ Digest \in BOOLEAN
    /\ Platforms \subseteq {"unix", "windows"}
    /\ Troubles \subseteq SUBSET TroubleKind

VARIABLES
    platform,   \* the operating system
    trouble,    \* what goes wrong in this history
    latest,     \* the latest release
    exe,        \* the file behind the path of the executable
    names,      \* for each temporary path, who created the file it leads to
    files,      \* the file each process created
    pc,         \* where each process is
    current,    \* the version each process was built as
    wanted,     \* the release it was told is the latest
    stale,      \* the paths it found and will remove
    scripts,    \* the processes whose script lies beside the executable
    waiting     \* the processes whose script is running

setting == <<platform, trouble>>
windows == <<scripts, waiting>>
vars == <<setting, latest, exe, names, files, pc, current, wanted, stale, windows>>

\* The version of a build that is not a release.
Dev == 0

\* CompareVersions finds a smaller: the first part that differs decides, and missing
\* parts are zeros.
Part(version, i) == IF i <= Len(Parts[version]) THEN Parts[version][i] ELSE 0
Older(a, b) ==
    \E i \in 1..(Len(Parts[a]) + Len(Parts[b])) :
        Part(a, i) < Part(b, i) /\ \A j \in 1..(i - 1) : Part(a, j) = Part(b, j)

Content == {"partial", "whole", "short", "corrupt"}
Image == [version : 0..Newest, content : Content]
Leftover == [version |-> Dev, content |-> "partial"]
NoOne == "no one"
ASSUME NoOneAssumption == NoOne \notin Pid

Goto(p, label) == pc' = [pc EXCEPT ![p] = label]
May(kind) == kind \in trouble

\* The process exists, and with it the executable is in use.
Runs(p) == pc[p] \notin {"ready", "ended", "crashed"}

\* Mutant: the name does not hold the process id.
SharedPath(p) == CHOOSE q \in Pid : p \in Pid
\* tempDownloadPath: the name holds the process id.
TempPath(p) == p

\* os.Remove, whose error is ignored
Remove(path) == names' = [names EXCEPT ![path] = NoOne]

----------------------------------------------------------------------------

Launch(p) ==
    /\ pc[p] = "ready" /\ exe.content = "whole"
    /\ current' = [current EXCEPT ![p] = exe.version]
    /\ \/ Goto(p, "latest")
       \/ May("work") /\ Goto(p, "gate")
    /\ UNCHANGED <<latest, exe, names, files, wanted, stale, windows>>

\* Check
Outdated(p) == current[p] # Dev /\ Older(current[p], latest)

\* ensureLatestVersion: an outdated release does not work, unless it cannot ask.
Gate(p) ==
    /\ pc[p] = "gate"
    /\ \/ Outdated(p) /\ Goto(p, "ended")
       \/ (~Outdated(p) \/ May("net")) /\ Goto(p, "work")
    /\ UNCHANGED <<latest, exe, names, files, current, wanted, stale, windows>>

EndWork(p) ==
    /\ pc[p] = "work"
    /\ Goto(p, "ended")
    /\ UNCHANGED <<latest, exe, names, files, current, wanted, stale, windows>>

\* Mutant: any other version is worth an update.
UpToDateSame(p) == current[p] # Dev /\ current[p] = latest
UpToDate(p) == current[p] # Dev /\ ~Older(current[p], latest)

\* Latest, the comparison of versions, and findAsset
AskLatest(p) ==
    /\ pc[p] = "latest"
    /\ wanted' = [wanted EXCEPT ![p] = latest]
    /\ \/ UpToDate(p) /\ Goto(p, "ended")
       \/ ~UpToDate(p) /\ Goto(p, "glob")
       \/ ~UpToDate(p) /\ May("asset") /\ Goto(p, "ended")
    /\ UNCHANGED <<latest, exe, names, files, current, stale, windows>>

AskLatestFails(p) ==
    /\ pc[p] = "latest" /\ May("net")
    /\ Goto(p, "ended")
    /\ UNCHANGED <<latest, exe, names, files, current, wanted, stale, windows>>

\* cleanupStaleFiles finds the temporary files of every process ...
Glob(p) ==
    /\ pc[p] = "glob"
    /\ stale' = [stale EXCEPT ![p] = {path \in Pid : names[path] # NoOne}]
    /\ Goto(p, "cleanup")
    /\ UNCHANGED <<latest, exe, names, files, current, wanted, windows>>

\* On Windows a file that is being written cannot be removed.
Locked(path) == platform = "windows" /\ pc[path] = "copy"

\* ... removes them one by one ...
CleanupOne(p) ==
    /\ pc[p] = "cleanup"
    /\ \E path \in stale[p] :
         /\ IF Locked(path) THEN UNCHANGED names ELSE Remove(path)
         /\ stale' = [stale EXCEPT ![p] = @ \ {path}]
    /\ UNCHANGED <<latest, exe, files, pc, current, wanted, windows>>

\* ... and does the same with their scripts.
GlobScripts(p) ==
    /\ pc[p] = "cleanup" /\ stale[p] = {} /\ platform = "windows"
    /\ stale' = [stale EXCEPT ![p] = scripts]
    /\ Goto(p, "scripts")
    /\ UNCHANGED <<latest, exe, names, files, current, wanted, windows>>

CleanupScript(p) ==
    /\ pc[p] = "scripts"
    /\ \E path \in stale[p] :
         /\ scripts' = scripts \ {path}
         /\ stale' = [stale EXCEPT ![p] = @ \ {path}]
    /\ UNCHANGED <<latest, exe, names, files, pc, current, wanted, waiting>>

\* Unix has no scripts to remove.
CleanedUp(p) ==
    /\ stale[p] = {}
    /\ pc[p] = IF platform = "windows" THEN "scripts" ELSE "cleanup"

\* downloadAsset begins with the removal of its own path.
CleanupOwn(p) ==
    /\ CleanedUp(p)
    /\ Remove(TempPath(p))
    /\ Goto(p, "request")
    /\ UNCHANGED <<latest, exe, files, current, wanted, stale, windows>>

\* The request is answered, and the file created with O_EXCL.
Create(p) ==
    /\ pc[p] = "request"
    /\ IF names[TempPath(p)] = NoOne
         THEN /\ names' = [names EXCEPT ![TempPath(p)] = p]
              /\ files' = [files EXCEPT ![p] = [version |-> wanted[p], content |-> "partial"]]
              /\ Goto(p, "copy")
         ELSE Goto(p, "ended") /\ UNCHANGED <<names, files>>
    /\ UNCHANGED <<latest, exe, current, wanted, stale, windows>>

\* The asset has no URL, or the request for it fails.
RequestFails(p) ==
    /\ \/ CleanedUp(p) /\ May("asset")
       \/ pc[p] = "request" /\ May("net")
    /\ Goto(p, "ended")
    /\ UNCHANGED <<latest, exe, names, files, current, wanted, stale, windows>>

\* The body has arrived in the file, which may have no name any more.
Copy(p) ==
    /\ pc[p] = "copy"
    /\ \E content \in {"whole"} \cup (trouble \cap {"short", "corrupt"}) :
         files' = [files EXCEPT ![p].content = content]
    /\ Goto(p, "verify")
    /\ UNCHANGED <<latest, exe, names, current, wanted, stale, windows>>

\* An error return of downloadAsset after the file was created.
Discard(p) ==
    /\ Remove(TempPath(p))
    /\ Goto(p, "ended")
    /\ UNCHANGED <<latest, exe, files, current, wanted, stale, windows>>

CopyFails(p) == pc[p] = "copy" /\ May("net") /\ Discard(p)

\* Mutant: the digest is compared with its prefix still on.
VerifiedPrefix(p) == ~Digest /\ (Sized => files[p].content # "short")
\* The number of bytes received and their sha256, as far as the release names them.
Verified(p) ==
    /\ Sized => files[p].content # "short"
    /\ Digest => files[p].content = "whole"

Verify(p) ==
    /\ pc[p] = "verify" /\ Verified(p)
    /\ Goto(p, "chmod")
    /\ UNCHANGED <<latest, exe, names, files, current, wanted, stale, windows>>

\* Mutant: a rejected file stays where it is.
VerifyFailsKeeps(p) ==
    /\ pc[p] = "verify" /\ ~Verified(p)
    /\ Goto(p, "ended")
    /\ UNCHANGED <<latest, exe, names, files, current, wanted, stale, windows>>
VerifyFails(p) == pc[p] = "verify" /\ ~Verified(p) /\ Discard(p)

\* os.Chmod fails if another update has removed the name.
Chmod(p) ==
    /\ pc[p] = "chmod" /\ names[TempPath(p)] # NoOne
    /\ Goto(p, "rename")
    /\ UNCHANGED <<latest, exe, names, files, current, wanted, stale, windows>>

ChmodFails(p) == pc[p] = "chmod" /\ names[TempPath(p)] = NoOne /\ Discard(p)

\* replaceExecutable
Rename(p) ==
    /\ platform = "unix"
    /\ pc[p] = "rename" /\ names[TempPath(p)] # NoOne
    /\ exe' = files[names[TempPath(p)]]
    /\ Remove(TempPath(p))
    /\ Goto(p, "ended")
    /\ UNCHANGED <<latest, files, current, wanted, stale, windows>>

\* The deferred cleanup of Update removes what is not there.
RenameFails(p) ==
    /\ platform = "unix"
    /\ pc[p] = "rename" /\ names[TempPath(p)] = NoOne
    /\ Discard(p)

----------------------------------------------------------------------------
(* Windows *)

\* scheduleWindowsReplace: the script is written and started, and the process exits.
Schedule(p) ==
    /\ platform = "windows" /\ pc[p] = "rename"
    /\ scripts' = scripts \cup {p}
    /\ waiting' = waiting \cup {p}
    /\ Goto(p, "exit")
    /\ UNCHANGED <<latest, exe, names, files, current, wanted, stale>>

\* The script cannot be written; what there is of it stays.
ScheduleFails(p) ==
    /\ platform = "windows" /\ pc[p] = "rename" /\ May("net")
    /\ Remove(TempPath(p))
    /\ scripts' \in {scripts \ {p}, scripts \cup {p}}
    /\ Goto(p, "ended")
    /\ UNCHANGED <<latest, exe, files, current, wanted, stale, waiting>>

Exit(p) ==
    /\ pc[p] = "exit"
    /\ Goto(p, "ended")
    /\ UNCHANGED <<latest, exe, names, files, current, wanted, stale, windows>>

\* The script no longer finds its process and moves the file onto the executable,
\* which nobody may be running.  Then it deletes itself.
ScriptEnds(p) ==
    /\ p \in waiting \cap scripts /\ ~Runs(p)
    /\ scripts' = scripts \ {p}
    /\ waiting' = waiting \ {p}
    /\ Remove(TempPath(p))
    /\ UNCHANGED <<latest, files, pc, current, wanted, stale>>

CanMove(p) == names[TempPath(p)] # NoOne /\ \A q \in Pid : ~Runs(q)

Move(p) ==
    /\ ScriptEnds(p) /\ CanMove(p)
    /\ exe' = files[names[TempPath(p)]]

\* The script deletes the file that it could not move.
MoveFails(p) ==
    /\ ScriptEnds(p) /\ ~CanMove(p)
    /\ UNCHANGED exe

\* cmd reads its script line by line: it stops when another update removes it.
ScriptStops(p) ==
    /\ p \in waiting /\ (p \notin scripts \/ May("crash"))
    /\ waiting' = waiting \ {p}
    /\ UNCHANGED <<latest, exe, names, files, pc, current, wanted, stale, scripts>>

----------------------------------------------------------------------------
(* The environment *)

Crash(p) ==
    /\ Runs(p) /\ May("crash")
    /\ Goto(p, "crashed")
    /\ UNCHANGED <<latest, exe, names, files, current, wanted, stale, windows>>

Publish ==
    /\ latest < Newest
    /\ latest' = latest + 1
    /\ UNCHANGED <<exe, names, files, pc, current, wanted, stale, windows>>

Withdraw ==
    /\ latest > 1 /\ May("withdraw")
    /\ latest' = latest - 1
    /\ UNCHANGED <<exe, names, files, pc, current, wanted, stale, windows>>

----------------------------------------------------------------------------

\* An earlier process with the same id may have left its file.
Init ==
    /\ platform \in Platforms
    /\ trouble \in Troubles
    /\ latest \in 1..Newest
    /\ exe \in [version : Installed, content : {"whole"}]
    /\ names \in {n \in [Pid -> Pid \cup {NoOne}] : \A p \in Pid : n[p] \in {p, NoOne}}
    /\ files = [p \in Pid |-> Leftover]
    /\ pc = [p \in Pid |-> "ready"]
    /\ current = [p \in Pid |-> Dev]
    /\ wanted = [p \in Pid |-> 0]
    /\ stale = [p \in Pid |-> {}]
    /\ scripts = {} /\ waiting = {}

Update(p) ==
    \/ Launch(p) \/ Gate(p) \/ EndWork(p) \/ AskLatest(p) \/ AskLatestFails(p)
    \/ Glob(p) \/ CleanupOne(p) \/ GlobScripts(p) \/ CleanupScript(p) \/ CleanupOwn(p)
    \/ Create(p) \/ RequestFails(p) \/ Copy(p) \/ CopyFails(p)
    \/ Verify(p) \/ VerifyFails(p) \/ Chmod(p) \/ ChmodFails(p)
    \/ Rename(p) \/ RenameFails(p)
    \/ Schedule(p) \/ ScheduleFails(p) \/ Exit(p)

Script(p) == Move(p) \/ MoveFails(p) \/ ScriptStops(p)

Step == Publish \/ Withdraw \/ (\E p \in Pid : Update(p) \/ Script(p) \/ Crash(p))

Next == Step /\ UNCHANGED setting

Spec == Init /\ [][Next]_vars

----------------------------------------------------------------------------
(* Properties *)

\* The places of an update that has a release to install.
Working == {"glob", "cleanup", "scripts", "request", "copy", "verify", "chmod", "rename"}
Place == Working \cup {"ready", "latest", "gate", "work", "exit", "ended", "crashed"}

\* Every variable has its type, and a process that goes on knows a release.
UpdateTypeOK ==
    /\ platform \in Platforms
    /\ trouble \in Troubles
    /\ latest \in 1..Newest
    /\ exe \in Image
    /\ names \in [Pid -> Pid \cup {NoOne}]
    /\ files \in [Pid -> Image]
    /\ pc \in [Pid -> Place]
    /\ current \in [Pid -> 0..Newest]
    /\ wanted \in [Pid -> 0..Newest]
    /\ stale \in [Pid -> SUBSET Pid]
    /\ scripts \subseteq Pid
    /\ waiting \subseteq Pid
    /\ \A p \in Pid : pc[p] \in Working => wanted[p] \in 1..Newest

\* However many updates run at once, are killed, or remove each other's files, the
\* executable is at every moment one that was built: never one still on its way, nor,
\* where the release has a size, half of one, nor, with a digest, a damaged one.
ExecutableWhole ==
    /\ exe.content # "partial"
    /\ Sized => exe.content # "short"
    /\ Digest \/ trouble \cap {"short", "corrupt"} = {} => exe.content = "whole"

\* TestUpdateReplacesExecutableAndLeavesNoTempFile: an update that got as far as
\* removing stale files leaves none of its own, whichever way it ends, unless on
\* Windows a script is to do the rest.
NoTempFileLeft ==
    [][\A p \in Pid :
        pc[p] \in Working /\ pc'[p] = "ended" => names'[TempPath(p)] = NoOne]_vars

\* What is not a release is older than every one.
OlderImage(a, b) == b # Dev /\ (a = Dev \/ Older(a, b))

\* Updates that run at once remove each other's files, but not all of them: if nothing
\* else goes wrong, somebody's release is installed in the end.  Not so on Windows: one
\* update can lose its file to the cleanup of another and still be running when the
\* script of that one wants to move, so that only an update that is alone is sure.
SomebodyInstalls ==
    /\ trouble \subseteq {"withdraw"}
    /\ waiting = {}
    /\ \A p \in Pid : pc[p] \in {"ready", "ended"}
    /\ \E p \in Pid : pc[p] = "ended"
    /\ platform = "windows" => \A p, q \in Pid : pc[p] = "ended" /\ pc[q] = "ended" => p = q
    => \E p \in Pid : pc[p] = "ended" /\ ~OlderImage(exe.version, wanted[p])

\* A process, or its script, replaces the executable.
Installs(p) ==
    \/ pc[p] = "rename" /\ pc'[p] = "ended"
    \/ p \in waiting /\ p \notin waiting'

\* An older release replaces a newer one only where another update has replaced the
\* executable in the meantime, also if the latest release was withdrawn.
OnlyOverlapDowngrades ==
    [][\A p \in Pid :
        Installs(p) /\ OlderImage(exe'.version, exe.version) => exe.version # current[p]]_vars
=============================================================================
