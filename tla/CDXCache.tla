------------------------------ MODULE CDXCache ------------------------------
(***************************************************************************)
(* One file of .czdomains-cache, used by several czdomains processes at    *)
(* once: two databases in one directory share the cache beside them.  Each *)
(* process looks for the file, downloads it if it is not there, moves the  *)
(* download beside the name, renames it onto the name, opens and scans it. *)
(* One that fails to scan a copy it found takes it for damaged, deletes    *)
(* what is then under the name, and tries once more.                       *)
(*                                                                         *)
(* cluster.idx (openCommonCrawlCluster) and the CDX files                  *)
(* (openCommonCrawlCDX) are published by the same steps.                   *)
(***************************************************************************)
EXTENDS Naturals

CONSTANTS Proc,         \* the processes
          Platforms,    \* the operating systems
          Troubles      \* what may go wrong together

\* "net": a download fails           "short": it ends early, or empty, without an error
\* "devices": the temporary directory is on another file system
\* "disk": a copy or a rename fails  "keep": a deletion fails
\* "store": a scan fails for another reason         "crash": a process is killed
TroubleKind == {"net", "short", "devices", "disk", "keep", "store", "crash"}

ASSUME CacheAssumption ==
    /\ Platforms \subseteq {"unix", "windows"}
    /\ Troubles \subseteq SUBSET TroubleKind

VARIABLES
    platform,   \* the operating system
    trouble,    \* what goes wrong in this history
    cached,     \* the file under its final name (cachePath)
    tmp,        \* the file under the temporary name of each process (cacheTmp)
    fetched,    \* what each process has downloaded
    held,       \* what the file each process has open holds
    found,      \* it was in the cache already
    attempt,    \* the attempt at this file
    pc          \* where each process is

setting == <<platform, trouble>>
vars == <<setting, cached, tmp, fetched, held, found, attempt, pc>>

None == "none"
Complete == {"whole", "damaged", "empty"}
Content == Complete \cup {"partial", None}

May(kind) == kind \in trouble
Goto(p, label) == pc' = [pc EXCEPT ![p] = label]

\* Mutant: the temporary name does not hold the process id.
SharedTmp(p) == CHOOSE q \in Proc : p \in Proc
\* cacheTmp ends in the process id.
TmpOf(p) == p

SetTmp(p, content) == tmp' = [tmp EXCEPT ![TmpOf(p)] = content]

\* Windows neither deletes nor replaces a file that a process has open.
Pinned == platform = "windows" /\ \E q \in Proc : held[q] # None

\* os.Remove(cacheTmp), whose error is ignored
DropTmp(p) == SetTmp(p, None) \/ (May("keep") /\ UNCHANGED tmp)

\* The process leaves the file: it has scanned it, it returns an error, or its
\* next attempt starts over.
Leaves(p, how) ==
    /\ Goto(p, how)
    /\ held' = [held EXCEPT ![p] = None]
    /\ fetched' = [fetched EXCEPT ![p] = None]

----------------------------------------------------------------------------

\* os.Stat; an empty file does not count.
Look(p) ==
    /\ pc[p] = "look"
    /\ Goto(p, IF cached \in {None, "empty"} THEN "fetch" ELSE "open")
    /\ UNCHANGED <<cached, tmp, fetched, held, found, attempt>>

\* os.Open of what was there a moment ago, or was published just now
OpenFile(p) ==
    /\ pc[p] \in {"open", "reopen"} /\ cached # None
    /\ held' = [held EXCEPT ![p] = cached]
    /\ found' = [found EXCEPT ![p] = pc[p] = "open"]
    /\ Goto(p, "scan")
    /\ UNCHANGED <<cached, tmp, fetched, attempt>>

OpenFileFails(p) ==
    /\ pc[p] \in {"open", "reopen"} /\ cached = None
    /\ Leaves(p, "failed")
    /\ UNCHANGED <<cached, tmp, found, attempt>>

Fetch(p) ==
    /\ pc[p] = "fetch"
    /\ \E content \in {"whole"} \cup (IF May("short") THEN {"damaged", "empty"} ELSE {}) :
         fetched' = [fetched EXCEPT ![p] = content]
    /\ Goto(p, "clear")
    /\ UNCHANGED <<cached, tmp, held, found, attempt>>

FetchFails(p) ==
    /\ pc[p] = "fetch" /\ May("net")
    /\ Leaves(p, "failed")
    /\ UNCHANGED <<cached, tmp, found, attempt>>

\* Mutant: what an earlier process with this id left is not removed.
ClearNothing(p) ==
    /\ pc[p] = "clear"
    /\ Goto(p, "move")
    /\ UNCHANGED <<cached, tmp, fetched, held, found, attempt>>

\* What an earlier process with this id left goes first.
Clear(p) ==
    /\ pc[p] = "clear"
    /\ DropTmp(p)
    /\ Goto(p, "move")
    /\ UNCHANGED <<cached, fetched, held, found, attempt>>

\* moveFile renames within a file system ...
MoveRename(p) ==
    /\ pc[p] = "move" /\ ~May("devices")
    /\ SetTmp(p, fetched[p])
    /\ Goto(p, "publish")
    /\ UNCHANGED <<cached, fetched, held, found, attempt>>

\* ... and copies between two, into a file that must not exist.
CopyBegins(p) ==
    /\ pc[p] = "move" /\ May("devices") /\ tmp[TmpOf(p)] = None
    /\ SetTmp(p, "partial")
    /\ Goto(p, "copy")
    /\ UNCHANGED <<cached, fetched, held, found, attempt>>

CopyEnds(p) ==
    /\ pc[p] = "copy"
    /\ SetTmp(p, fetched[p])
    /\ Goto(p, "publish")
    /\ UNCHANGED <<cached, fetched, held, found, attempt>>

\* After any error of the move both temporary files are removed.
MoveFails(p) ==
    /\ \/ pc[p] = "move" /\ May("devices") /\ tmp[TmpOf(p)] # None
       \/ pc[p] = "copy" /\ May("disk")
    /\ DropTmp(p)
    /\ Leaves(p, "failed")
    /\ UNCHANGED <<cached, found, attempt>>

\* os.Rename(cacheTmp, cachePath)
Publish(p) ==
    /\ pc[p] = "publish" /\ tmp[TmpOf(p)] # None /\ ~Pinned
    /\ cached' = tmp[TmpOf(p)]
    /\ SetTmp(p, None)
    /\ Goto(p, "reopen")
    /\ UNCHANGED <<fetched, held, found, attempt>>

\* The download is thrown away, though another process may have published its own.
PublishFails(p) ==
    /\ pc[p] = "publish"
    /\ Pinned \/ May("disk") \/ tmp[TmpOf(p)] = None
    /\ DropTmp(p)
    /\ Leaves(p, "failed")
    /\ UNCHANGED <<cached, found, attempt>>

\* The file is scanned to its end, or to the end of the cz range.
Scan(p) ==
    /\ pc[p] = "scan" /\ held[p] = "whole"
    /\ Leaves(p, "done")
    /\ UNCHANGED <<cached, tmp, found, attempt>>

ScanFails(p) ==
    /\ pc[p] = "scan" /\ (held[p] # "whole" \/ May("store"))
    /\ Leaves(p, IF found[p] THEN "remove" ELSE "failed")
    /\ UNCHANGED <<cached, tmp, found, attempt>>

\* os.Remove(cachePath), whatever is there by now; its error is ignored.
RemoveCached ==
    \/ ~Pinned /\ cached' = None
    \/ (Pinned \/ May("keep")) /\ UNCHANGED cached

\* Mutant: the attempts are not counted.
RemoveUncounted(p) ==
    /\ pc[p] = "remove"
    /\ RemoveCached
    /\ Goto(p, IF attempt[p] < 2 THEN "look" ELSE "failed")
    /\ UNCHANGED <<tmp, fetched, held, found, attempt>>

\* The damaged copy goes, and the next attempt begins, if there is one.
Remove(p) ==
    /\ pc[p] = "remove"
    /\ RemoveCached
    /\ attempt' = [attempt EXCEPT ![p] = @ + 1]
    /\ Goto(p, IF attempt[p] < 2 THEN "look" ELSE "failed")
    /\ UNCHANGED <<tmp, fetched, held, found>>

----------------------------------------------------------------------------
(* The environment *)

\* A temporary file stays behind.
Crash(p) ==
    /\ pc[p] \notin {"ready", "done", "failed"} /\ May("crash")
    /\ Leaves(p, "ready")
    /\ UNCHANGED <<cached, tmp, found, attempt>>

\* A process comes to this file.
Start(p) ==
    /\ pc[p] = "ready"
    /\ attempt' = [attempt EXCEPT ![p] = 1]
    /\ Goto(p, "look")
    /\ UNCHANGED <<cached, tmp, fetched, held, found>>

----------------------------------------------------------------------------

\* Earlier runs may have left a damaged copy and temporary files.
Init ==
    /\ platform \in Platforms
    /\ trouble \in Troubles
    /\ cached \in {None, "whole", "damaged"}
    /\ tmp \in [Proc -> {None, "partial"}]
    /\ fetched = [p \in Proc |-> None]
    /\ held = [p \in Proc |-> None]
    /\ found = [p \in Proc |-> FALSE]
    /\ attempt = [p \in Proc |-> 1]
    /\ pc = [p \in Proc |-> "ready"]

Download(p) == Fetch(p) \/ FetchFails(p)

\* What a process does by itself
Local(p) ==
    \/ Look(p) \/ OpenFile(p) \/ OpenFileFails(p)
    \/ Clear(p) \/ MoveRename(p) \/ CopyBegins(p) \/ CopyEnds(p) \/ MoveFails(p)
    \/ Publish(p) \/ PublishFails(p) \/ Scan(p) \/ ScanFails(p) \/ Remove(p)

Use(p) == Download(p) \/ Local(p)

Next == (\E p \in Proc : Start(p) \/ Use(p) \/ Crash(p)) /\ UNCHANGED setting

Spec == Init /\ [][Next]_vars

\* A process that has begun goes on; none is obliged to begin, nor a download to end.
FairSpec == Spec /\ \A p \in Proc : WF_vars(Local(p) /\ UNCHANGED setting)

----------------------------------------------------------------------------
(* Properties *)

\* Every variable has its type.
CacheTypeOK ==
    /\ platform \in Platforms
    /\ trouble \in Troubles
    /\ cached \in Complete \cup {None}
    /\ tmp \in [Proc -> Content]
    /\ fetched \in [Proc -> Complete \cup {None}]
    /\ held \in [Proc -> Complete \cup {None}]
    /\ found \in [Proc -> BOOLEAN]
    /\ attempt \in [Proc -> 1..3]
    /\ pc \in [Proc -> {"ready", "look", "open", "fetch", "clear", "move", "copy",
                        "publish", "reopen", "scan", "remove", "done", "failed"}]

\* However the processes overlap, crash, and delete each other's copies, the
\* cache directory keeps the promise of SharedFile: no copy in progress is ever
\* under the final name, nor read by anybody.
Shared == INSTANCE SharedFile WITH Absent <- None, file <- cached, view <- held

KeepsShared == Shared!Spec

\* Processes that find the same damaged copy delete it, and each other's
\* replacements, or on Windows keep each other from it, and may fail by that.
\* Windows lets all of them fail, but only if one could not delete the copy in either
\* of its attempts because another one, which came as far as a second, had it open.
AtRest == \A p \in Proc : pc[p] \in {"ready", "done", "failed"}
HeldUp ==
    /\ platform = "windows"
    /\ \E p, q \in Proc : p # q /\ attempt[p] = 3 /\ attempt[q] > 1

\* If nothing else goes wrong, one of them has scanned the file in the end and a whole
\* copy is in the cache; or else the damaged one is at least gone.
SomebodyScans ==
    /\ trouble \subseteq {"devices"}
    /\ AtRest
    /\ \E p \in Proc : pc[p] # "ready"
    => \/ cached = "whole" /\ \E p \in Proc : pc[p] = "done"
       \/ cached = None /\ HeldUp

\* A process whose download does not hang for ever does not chase the file for ever,
\* however often others delete it or a damaged copy comes back, and whatever becomes
\* of their downloads.
UseEnds ==
    \A p \in Proc :
        WF_vars(Download(p) /\ UNCHANGED setting) =>
            (pc[p] = "look" ~> pc[p] \in {"ready", "done", "failed"})
=============================================================================
