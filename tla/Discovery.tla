----------------------------- MODULE Discovery -----------------------------
(***************************************************************************)
(* czdomains discover: discoverToSQLite runs DiscoverTo over the sources   *)
(* against the Store.  A Common Crawl crawl is a list of CDX files; each   *)
(* file is checked against its checkpoint, marked running, opened (from    *)
(* the local cache, by download, or as a stream), scanned line by line,    *)
(* and marked completed or failed.  crt.sh is a list of names.             *)
(*                                                                         *)
(* The process runs, ends, crashes and is started again on the same        *)
(* database and cache directory.  One value of pc stands for one place     *)
(* where the code calls the store or the network, so that a crash can fall *)
(* between any two of those calls.                                         *)
(***************************************************************************)
EXTENDS Store, Sequences

CONSTANTS
    Sources,    \* --source, in order: "commoncrawl" or "crtsh", or anything else
    Crawls,     \* the selected crawls, in order: [mode, files]
    Lines,      \* the CDX lines of each file: [class, domain]
    CrtNames,   \* the names crt.sh returns; NoDomain where FromHost fails
    NoDomain,   \* a name or key that is not a .cz domain
    Limits,     \* the values of --limit a run may be given; 0 is no limit
    Faults      \* the kinds of fault that can happen

\* "below" is a key < "cz,", "cz" is in ["cz,", "cz-") and "above" is >= "cz-".
Class == {"below", "cz", "above"}
\* "sink": the text file of --out cannot be written
FaultKind == {"net", "corrupt", "remove", "store", "commit", "sink", "crash", "power"}

ASSUME ConstantsAssumption ==
    /\ NoDomain \notin Domain
    /\ Crawls \in Seq([mode : {"cluster", "sequential"}, files : Seq(File)])
    /\ Lines \in [File -> Seq([class : Class, domain : Domain \cup {NoDomain}])]
    /\ CrtNames \in Seq(Domain \cup {NoDomain})
    /\ Sources \in Seq(STRING)
    /\ Limits \subseteq Nat
    /\ Faults \subseteq FaultKind

\* CDX files are sorted by key: past the first key >= "cz-" no key is below it.
ASSUME SortedLines ==
    \A f \in File : \A i, j \in 1..Len(Lines[f]) :
        (i < j /\ Lines[f][i].class = "above") => Lines[f][j].class = "above"

\* So is the crawl that is read in sequence: past the file with that key no file has a
\* key of the cz range.
ASSUME SortedFiles ==
    \A c \in 1..Len(Crawls) : \A i, j \in 1..Len(Crawls[c].files) :
        Crawls[c].mode = "sequential" /\ i < j =>
            LET before == Lines[Crawls[c].files[i]]
                after == Lines[Crawls[c].files[j]]
            IN  (\E m \in 1..Len(before) : before[m].class = "above")
                    => \A n \in 1..Len(after) : after[n].class # "cz"

VARIABLES
    pc,         \* where the process is; "idle" when none runs
    limit,      \* --limit of the run
    si, ci, fi, \* indexes of the source, the crawl and the file
    seenCZ,     \* scanCommonCrawlSequential's seenCZ
    scan,       \* the locals of the scan of one file
    total,      \* *total: the domains in the database, as the run counts them
    errs,       \* an error was appended to errs
    last,       \* how the last run ended
    cache       \* the cached copy of each file

processVars == <<pc, limit, si, ci, fi, seenCZ, scan, total, errs, last>>
vars == <<storeVars, processVars, cache>>

Labels == {"idle", "source", "crawls", "crawl", "file", "start", "open", "scan",
           "complete", "checkpoint", "fail", "crtsh", "names", "finish"}

\* No file is open.
NoScan == [ln |-> 1, attempt |-> 1, body |-> "none", cached |-> FALSE,
           hit |-> FALSE, passed |-> FALSE]

Fault(kind) == kind \in Faults

Crawl == Crawls[ci]
ThisFile == Crawl.files[fi]
Line == Lines[ThisFile][scan.ln]
AtLine == scan.ln <= Len(Lines[ThisFile])

LimitIs(n) == limit > 0 /\ n >= limit

----------------------------------------------------------------------------
(* Ways to leave a step *)

Goto(label) == pc' = label /\ UNCHANGED <<si, ci, fi, seenCZ, errs>>

\* discoverCommonCrawl or discoverCRTSh returns to DiscoverTo.
NextSource(failed) ==
    /\ pc' = "source"
    /\ si' = si + 1 /\ ci' = 1 /\ fi' = 1
    /\ seenCZ' = FALSE
    /\ errs' = (errs \/ failed)

\* scanCommonCrawlCrawl returns to discoverCommonCrawl.
NextCrawl(failed) ==
    /\ pc' = "crawl"
    /\ ci' = ci + 1 /\ fi' = 1
    /\ seenCZ' = FALSE
    /\ errs' = (errs \/ failed)
    /\ UNCHANGED si

NextFile ==
    /\ pc' = "file"
    /\ fi' = fi + 1
    /\ UNCHANGED <<si, ci, seenCZ, errs>>

\* The process and its locals are gone.
ProcessEnds(how) ==
    /\ pc' = "idle"
    /\ si' = 1 /\ ci' = 1 /\ fi' = 1
    /\ seenCZ' = FALSE
    /\ scan' = NoScan
    /\ total' = 0
    /\ errs' = FALSE
    /\ last' = how
    /\ UNCHANGED limit

\* A store call that flushes and then runs a statement returns an error.
StoreCallFails ==
    \/ Fault("commit") /\ FlushFails
    \/ Fault("store") /\ FlushCommits

\* sink.AddDomain returns an error.  The sink of --out prints the domain when the
\* store has taken it already.
AddDomainFails(d) ==
    \/ Fault("store") /\ (BeginFails \/ InsertFails)
    \/ Fault("commit") /\ BatchCommitFails
    \/ Fault("sink") /\ Inserted(d) /\ AddDomain(d)

----------------------------------------------------------------------------
(* discoverToSQLite and DiscoverTo *)

Start(fresh, lim) ==
    /\ pc = "idle"
    /\ Open(fresh)
    /\ pc' = "source"
    /\ limit' = lim
    /\ si' = 1 /\ ci' = 1 /\ fi' = 1
    /\ seenCZ' = FALSE
    /\ scan' = NoScan
    /\ total' = 0
    /\ errs' = FALSE
    /\ last' = "running"
    /\ UNCHANGED cache

\* The loop over the sources is over.
NoMoreSources ==
    /\ pc = "source" /\ si > Len(Sources)
    /\ Goto("finish")
    /\ UNCHANGED <<storeVars, limit, scan, total, last, cache>>

EnterSource ==
    CASE Sources[si] = "commoncrawl" -> Goto("crawls")
      [] Sources[si] = "crtsh" -> Goto("crtsh")
      [] OTHER -> NextSource(TRUE)

\* One turn of the loop; a limit is compared with the database before each source.
SelectSource ==
    /\ pc = "source" /\ si <= Len(Sources)
    /\ IF limit = 0
         THEN EnterSource /\ UNCHANGED <<rows, txVars, disk>>
         ELSE /\ FlushCommits
              /\ IF LimitIs(Cardinality(rows')) THEN Goto("finish") ELSE EnterSource
    /\ UNCHANGED <<marks, limit, scan, total, last, cache>>

SelectSourceFails ==
    /\ pc = "source" /\ si <= Len(Sources) /\ limit > 0
    /\ StoreCallFails
    /\ pc' = "finish"
    /\ errs' = TRUE
    /\ UNCHANGED <<marks, limit, si, ci, fi, seenCZ, scan, total, last, cache>>

\* The final sink.Flush and Count; the error of either, or of a source, makes
\* the run end with a warning.
Finish ==
    /\ pc = "finish"
    /\ \/ FlushCommits /\ ProcessEnds(IF errs THEN "warning" ELSE "clean")
       \/ StoreCallFails /\ ProcessEnds("warning")
       \/ Fault("sink") /\ FlushCommits /\ ProcessEnds("warning")
    /\ UNCHANGED <<marks, cache>>

----------------------------------------------------------------------------
(* discoverCommonCrawl: the crawl list, the count, and the loop over crawls *)

\* Mutant: the rows are counted without the flush before.
StartCrawlsStaleCount ==
    /\ pc = "crawls"
    /\ total' = Cardinality(rows)
    /\ IF LimitIs(total')
         THEN NextSource(FALSE)
         ELSE pc' = "crawl" /\ ci' = 1 /\ UNCHANGED <<si, fi, seenCZ, errs>>
    /\ UNCHANGED <<storeVars, limit, scan, last, cache>>

StartCrawls ==
    /\ pc = "crawls"
    /\ FlushCommits
    /\ total' = Cardinality(rows')
    /\ IF LimitIs(total')
         THEN NextSource(FALSE)
         ELSE /\ pc' = "crawl"
              /\ ci' = 1
              /\ UNCHANGED <<si, fi, seenCZ, errs>>
    /\ UNCHANGED <<marks, limit, scan, last, cache>>

\* The crawl list cannot be fetched, or the count fails.
StartCrawlsFails ==
    /\ pc = "crawls"
    /\ \/ Fault("net") /\ UNCHANGED <<rows, txVars, disk>>
       \/ StoreCallFails
    /\ NextSource(TRUE)
    /\ UNCHANGED <<marks, limit, scan, total, last, cache>>

NoMoreCrawls ==
    /\ pc = "crawl" /\ ci > Len(Crawls)
    /\ NextSource(FALSE)
    /\ UNCHANGED <<storeVars, limit, scan, total, last, cache>>

\* The manifest, and in cluster mode cluster.idx, name the files of the crawl.
PrepareCrawl ==
    /\ pc = "crawl" /\ ci <= Len(Crawls)
    /\ pc' = "file"
    /\ fi' = 1
    /\ seenCZ' = FALSE
    /\ UNCHANGED <<storeVars, limit, si, ci, scan, total, errs, last, cache>>

PrepareCrawlFails ==
    /\ pc = "crawl" /\ ci <= Len(Crawls) /\ Fault("net")
    /\ NextCrawl(TRUE)
    /\ UNCHANGED <<storeVars, limit, scan, total, last, cache>>

----------------------------------------------------------------------------
(* One CDX file: checkpoint, open, scan, checkpoint *)

NoMoreFiles ==
    /\ pc = "file" /\ fi > Len(Crawl.files)
    /\ NextCrawl(FALSE)
    /\ UNCHANGED <<storeVars, limit, scan, total, last, cache>>

CheckFile ==
    /\ pc = "file" /\ fi <= Len(Crawl.files)
    /\ FlushCommits
    /\ IF BlockComplete(ThisFile) THEN NextFile ELSE Goto("start")
    /\ UNCHANGED <<marks, limit, scan, total, last, cache>>

StartFile ==
    /\ pc = "start"
    /\ FlushCommits
    /\ Mark(ThisFile, "running")
    /\ Goto("open")
    /\ UNCHANGED <<limit, scan, total, last, cache>>

CheckFileFails ==
    /\ \/ pc = "file" /\ fi <= Len(Crawl.files)
       \/ pc = "start"
    /\ StoreCallFails
    /\ NextCrawl(TRUE)
    /\ UNCHANGED <<marks, limit, scan, total, last, cache>>

BeginScan(body, cached) ==
    /\ scan' = [NoScan EXCEPT !.attempt = scan.attempt, !.body = body, !.cached = cached]
    /\ Goto("scan")

\* openCommonCrawlCDX finds a cached copy; whether it is a valid one only the
\* scan can tell.
OpenCached ==
    /\ pc = "open" /\ Crawl.mode = "cluster" /\ cache[ThisFile] # "none"
    /\ BeginScan(cache[ThisFile], TRUE)
    /\ UNCHANGED <<storeVars, limit, total, last, cache>>

\* It downloads the file into the cache otherwise.
Download ==
    /\ pc = "open" /\ Crawl.mode = "cluster" /\ cache[ThisFile] = "none"
    /\ \E body \in {"good"} \cup (IF Fault("corrupt") THEN {"bad"} ELSE {}) :
         /\ cache' = [cache EXCEPT ![ThisFile] = body]
         /\ BeginScan(body, FALSE)
    /\ UNCHANGED <<storeVars, limit, total, last>>

\* Sequential mode scans the response body, which may break off.
OpenStream ==
    /\ pc = "open" /\ Crawl.mode = "sequential"
    /\ \E body \in {"good"} \cup (IF Fault("net") THEN {"bad"} ELSE {}) :
         BeginScan(body, FALSE)
    /\ UNCHANGED <<storeVars, limit, total, last, cache>>

\* Mutant: a file that cannot be opened is not marked failed.
OpenFailsUnmarked ==
    /\ pc = "open" /\ Fault("net")
    /\ Crawl.mode = "cluster" => cache[ThisFile] = "none"
    /\ scan' = NoScan
    /\ NextCrawl(TRUE)
    /\ UNCHANGED <<storeVars, limit, total, last, cache>>

OpenFails ==
    /\ pc = "open" /\ Fault("net")
    /\ Crawl.mode = "cluster" => cache[ThisFile] = "none"
    /\ scan' = NoScan
    /\ Goto("fail")
    /\ UNCHANGED <<storeVars, limit, total, last, cache>>

ScanTo(changes) == scan' = changes /\ Goto("scan")

\* A line outside the cz range, before any line inside it.
SkipLine ==
    /\ pc = "scan" /\ AtLine
    /\ Line.class = "below" \/ (Line.class = "above" /\ ~scan.hit)
    /\ ScanTo([scan EXCEPT !.ln = @ + 1])
    /\ UNCHANGED <<storeVars, limit, total, last, cache>>

\* A key of the cz range with no domain in it.
JunkLine ==
    /\ pc = "scan" /\ AtLine /\ Line.class = "cz" /\ Line.domain = NoDomain
    /\ ScanTo([scan EXCEPT !.ln = @ + 1, !.hit = TRUE])
    /\ UNCHANGED <<storeVars, limit, total, last, cache>>

\* Mutant: the attempts are not counted.
RescanForever ==
    IF scan.cached
      THEN /\ \/ cache' = [cache EXCEPT ![ThisFile] = "none"]
              \/ Fault("remove") /\ UNCHANGED cache
           /\ scan' = [NoScan EXCEPT !.attempt = scan.attempt]
           /\ Goto(IF scan.attempt < 2 THEN "open" ELSE "fail")
      ELSE /\ scan' = NoScan
           /\ UNCHANGED cache
           /\ Goto("fail")

\* Mutant: the second attempt goes on where the first one failed.
RescanKeepsLine ==
    IF scan.cached
      THEN /\ \/ cache' = [cache EXCEPT ![ThisFile] = "none"]
              \/ Fault("remove") /\ UNCHANGED cache
           /\ scan' = [scan EXCEPT !.attempt = @ + 1, !.body = "good"]
           /\ Goto(IF scan.attempt < 2 THEN "scan" ELSE "fail")
      ELSE /\ scan' = NoScan
           /\ UNCHANGED cache
           /\ Goto("fail")

\* What follows any error of the scan, whatever its cause: a cached copy is
\* deleted (an error of the deletion is ignored) and the file opened once more;
\* anything else fails the file.
Rescan ==
    IF scan.cached
      THEN /\ \/ cache' = [cache EXCEPT ![ThisFile] = "none"]
              \/ Fault("remove") /\ UNCHANGED cache
           /\ scan' = [NoScan EXCEPT !.attempt = scan.attempt + 1]
           /\ Goto(IF scan.attempt < 2 THEN "open" ELSE "fail")
      ELSE /\ scan' = NoScan
           /\ UNCHANGED cache
           /\ Goto("fail")

\* Mutant: reaching the limit is handled as any other error of the scan.
AddLineLimitFails ==
    /\ pc = "scan" /\ AtLine /\ Line.class = "cz" /\ Line.domain # NoDomain
    /\ AddDomain(Line.domain)
    /\ total' = IF Inserted(Line.domain) THEN total + 1 ELSE total
    /\ IF Inserted(Line.domain) /\ LimitIs(total')
         THEN Rescan
         ELSE ScanTo([scan EXCEPT !.ln = @ + 1, !.hit = TRUE]) /\ UNCHANGED cache
    /\ UNCHANGED <<limit, last>>

\* addCDXDomain: the total counts what the store says it inserted, and the
\* insert that reaches the limit ends the source (the mark stays "running").
AddLine ==
    /\ pc = "scan" /\ AtLine /\ Line.class = "cz" /\ Line.domain # NoDomain
    /\ AddDomain(Line.domain)
    /\ total' = IF Inserted(Line.domain) THEN total + 1 ELSE total
    /\ IF Inserted(Line.domain) /\ LimitIs(total')
         THEN NextSource(FALSE) /\ scan' = NoScan
         ELSE ScanTo([scan EXCEPT !.ln = @ + 1, !.hit = TRUE])
    /\ UNCHANGED <<limit, last, cache>>

\* The scan ends cleanly: past the cz range, or at the end of the file.
EndScan ==
    /\ pc = "scan"
    /\ \/ AtLine /\ Line.class = "above" /\ scan.hit
          /\ scan' = [scan EXCEPT !.passed = TRUE]
       \/ ~AtLine /\ scan.body = "good" /\ UNCHANGED scan
    /\ Goto("complete")
    /\ UNCHANGED <<storeVars, limit, total, last, cache>>

\* The file or the stream is damaged at this line.
ReadFails ==
    /\ pc = "scan" /\ scan.body = "bad"
    /\ Rescan
    /\ UNCHANGED <<storeVars, limit, total, last>>

\* Mutant: the scan goes on with the next line.
AddLineFailsGoesOn ==
    /\ pc = "scan" /\ AtLine /\ Line.class = "cz" /\ Line.domain # NoDomain
    /\ AddDomainFails(Line.domain)
    /\ ScanTo([scan EXCEPT !.ln = @ + 1, !.hit = TRUE])
    /\ UNCHANGED <<limit, total, last, cache>>

\* AddDomain fails.
AddLineFails ==
    /\ pc = "scan" /\ AtLine /\ Line.class = "cz" /\ Line.domain # NoDomain
    /\ AddDomainFails(Line.domain)
    /\ Rescan
    /\ UNCHANGED <<limit, total, last>>

\* Mutant: the checkpoint is written without the flush before.
FlushFileSkipped ==
    /\ pc = "complete"
    /\ Goto("checkpoint")
    /\ UNCHANGED <<storeVars, limit, scan, total, last, cache>>

\* MarkBlockCompleted flushes the rows of the file ...
FlushFile ==
    /\ pc = "complete"
    /\ FlushCommits
    /\ Goto("checkpoint")
    /\ UNCHANGED <<marks, limit, scan, total, last, cache>>

\* Mutant: a sequential scan stops after the first file with cz keys.
CZEndedEarly == seenCZ \/ scan.hit

\* A sequential scan stops after the file in which it saw the cz range end.
CZEnded == (seenCZ \/ scan.hit) /\ scan.passed

\* ... and then writes the checkpoint.
CompleteFile ==
    /\ pc = "checkpoint"
    /\ Mark(ThisFile, "completed")
    /\ IF Crawl.mode = "cluster"
         THEN NextFile
         ELSE IF CZEnded
                THEN NextCrawl(FALSE)
                ELSE /\ pc' = "file"
                     /\ fi' = fi + 1
                     /\ seenCZ' = (seenCZ \/ scan.hit)
                     /\ UNCHANGED <<si, ci, errs>>
    /\ scan' = NoScan
    /\ UNCHANGED <<rows, txVars, disk, limit, total, last, cache>>

CompleteFileFails ==
    /\ \/ pc = "complete" /\ Fault("commit") /\ FlushFails
       \/ pc = "checkpoint" /\ Fault("store") /\ UNCHANGED <<rows, txVars, disk>>
    /\ scan' = NoScan
    /\ NextCrawl(TRUE)
    /\ UNCHANGED <<marks, limit, total, last, cache>>

\* MarkBlockFailed, whose own error is ignored.
FailFile ==
    /\ pc = "fail"
    /\ \/ FlushCommits /\ Mark(ThisFile, "failed")
       \/ StoreCallFails /\ UNCHANGED marks
    /\ scan' = NoScan
    /\ NextCrawl(TRUE)
    /\ UNCHANGED <<limit, total, last, cache>>

----------------------------------------------------------------------------
(* discoverCRTSh *)

FetchNames ==
    /\ pc = "crtsh"
    /\ FlushCommits
    /\ total' = Cardinality(rows')
    /\ IF LimitIs(total') THEN NextSource(FALSE) ELSE Goto("names")
    /\ UNCHANGED <<marks, limit, scan, last, cache>>

FetchNamesFails ==
    /\ pc = "crtsh"
    /\ \/ Fault("net") /\ UNCHANGED <<rows, txVars, disk>>
       \/ StoreCallFails
    /\ NextSource(TRUE)
    /\ UNCHANGED <<marks, limit, scan, total, last, cache>>

\* Returning to DiscoverTo from the loop over the names.
LeaveNames(failed) == NextSource(failed) /\ scan' = NoScan

NextName == Goto("names") /\ scan' = [scan EXCEPT !.ln = @ + 1]

\* Mutant: the names are added without a look at the limit.
AddNameUnlimited ==
    /\ pc = "names" /\ scan.ln <= Len(CrtNames)
    /\ LET name == CrtNames[scan.ln] IN
         IF name = NoDomain
           THEN UNCHANGED <<storeVars, total>>
           ELSE AddDomain(name) /\ total' = IF Inserted(name) THEN total + 1 ELSE total
    /\ NextName
    /\ UNCHANGED <<limit, last, cache>>

AddName ==
    /\ pc = "names" /\ scan.ln <= Len(CrtNames)
    /\ LET name == CrtNames[scan.ln] IN
         IF name = NoDomain
           THEN NextName /\ UNCHANGED <<storeVars, total>>
           ELSE /\ AddDomain(name)
                /\ total' = IF Inserted(name) THEN total + 1 ELSE total
                /\ IF Inserted(name) /\ LimitIs(total') THEN LeaveNames(FALSE) ELSE NextName
    /\ UNCHANGED <<limit, last, cache>>

AddNameFails ==
    /\ pc = "names" /\ scan.ln <= Len(CrtNames) /\ CrtNames[scan.ln] # NoDomain
    /\ AddDomainFails(CrtNames[scan.ln])
    /\ LeaveNames(TRUE)
    /\ UNCHANGED <<limit, total, last, cache>>

NoMoreNames ==
    /\ pc = "names" /\ scan.ln > Len(CrtNames)
    /\ LeaveNames(FALSE)
    /\ UNCHANGED <<storeVars, limit, total, last, cache>>

----------------------------------------------------------------------------
(* The environment *)

\* Ctrl-C, a kill or a panic: nothing deferred runs.
Crash ==
    /\ pc # "idle" /\ Fault("crash")
    /\ DropTx
    /\ ProcessEnds("crashed")
    /\ UNCHANGED <<rows, marks, disk, cache>>

\* A power loss also takes the commits that were not synced, and may damage a
\* cached copy (it is renamed into place without a sync).
PowerLoss ==
    /\ Fault("power")
    /\ LosePower
    /\ ProcessEnds("crashed")
    /\ \E damaged \in SUBSET {f \in File : cache[f] = "good"} :
         cache' = [f \in File |-> IF f \in damaged THEN "bad" ELSE cache[f]]

Sync ==
    /\ Fault("power")
    /\ WalSync
    /\ UNCHANGED <<processVars, cache>>

----------------------------------------------------------------------------

Init ==
    /\ StoreInit
    /\ pc = "idle"
    /\ limit = 0
    /\ si = 1 /\ ci = 1 /\ fi = 1
    /\ seenCZ = FALSE
    /\ scan = NoScan
    /\ total = 0
    /\ errs = FALSE
    /\ last = "none"
    /\ cache = [f \in File |-> "none"]

\* The steps of a process that was started.
SourceStep == NoMoreSources \/ SelectSource \/ SelectSourceFails \/ Finish
CrawlStep == StartCrawls \/ StartCrawlsFails \/ NoMoreCrawls \/ PrepareCrawl
             \/ PrepareCrawlFails
CheckStep == NoMoreFiles \/ CheckFile \/ StartFile \/ CheckFileFails
OpenStep == OpenCached \/ Download \/ OpenStream \/ OpenFails
ScanStep == SkipLine \/ JunkLine \/ AddLine \/ EndScan \/ ReadFails \/ AddLineFails
MarkStep == FlushFile \/ CompleteFile \/ CompleteFileFails \/ FailFile
NamesStep == FetchNames \/ FetchNamesFails \/ AddName \/ AddNameFails \/ NoMoreNames

Run == SourceStep \/ CrawlStep \/ CheckStep \/ OpenStep \/ ScanStep \/ MarkStep
       \/ NamesStep

StartSome == \E fresh \in BOOLEAN, lim \in Limits : Start(fresh, lim)

Next == StartSome \/ Run \/ Crash \/ PowerLoss \/ Sync

Spec == Init /\ [][Next]_vars

\* The process waits for an answer or for more of one.  The HTTP client bounds only
\* the way to the header of a response: the bodies of the crawl list, of a manifest,
\* of crt.sh and of a streamed CDX file may stall, and without a limit of cooldowns
\* cluster.idx and a CDX file are asked for again until they arrive.
OnNetwork ==
    \/ pc \in {"crawls", "crtsh"}
    \/ pc = "crawl" /\ ci <= Len(Crawls)
    \/ pc = "open" /\ (Crawl.mode = "cluster" => cache[ThisFile] = "none")
    \/ pc = "scan" /\ Crawl.mode = "sequential"

\* A process goes on where it waits for nobody; nobody has to start one, and no
\* server to answer.
FairSpec == Spec /\ WF_vars(Run /\ ~OnNetwork)

----------------------------------------------------------------------------
(* Properties *)

PositionOK ==
    /\ pc \in Labels
    /\ si \in Nat \ {0} /\ ci \in Nat \ {0} /\ fi \in Nat \ {0}

FlagsOK == seenCZ \in BOOLEAN /\ errs \in BOOLEAN

ScanRecord == [ln : Nat \ {0}, attempt : Nat \ {0}, body : {"none", "good", "bad"},
               cached : BOOLEAN, hit : BOOLEAN, passed : BOOLEAN]

ProcessTypeOK ==
    /\ PositionOK
    /\ FlagsOK
    /\ limit \in Nat
    /\ total \in Nat
    /\ last \in {"none", "running", "clean", "warning", "crashed"}
    /\ scan \in ScanRecord
    /\ cache \in [File -> {"none", "good", "bad"}]

\* Every variable has its type.
TypeOK == StoreTypeOK /\ ProcessTypeOK

\* The .cz domains in the first lines of a file, and in the whole file.
DomainsBefore(f, n) ==
    {Lines[f][i].domain :
        i \in {j \in 1..Len(Lines[f]) : j < n /\ Lines[f][j].class = "cz"}} \ {NoDomain}
DomainsOf(f) == DomainsBefore(f, Len(Lines[f]) + 1)

\* A checkpoint is never ahead of its data: the domains of every file marked
\* completed (MarkBlockCompleted) are committed rows, however many crashes,
\* failed commits, damaged cache files and retries came before.
CheckpointSound ==
    \A f \in File : marks[f] = "completed" => DomainsOf(f) \subseteq rows

\* The same of what a power loss would leave.
DiskCheckpointSound ==
    \A f \in File : disk.marks[f] = "completed" => DomainsOf(f) \subseteq disk.rows

\* What reached the disk is an earlier part of what was committed: a power loss
\* takes the table back to a state it was in, and never brings up a row or a
\* completed checkpoint the running database does not have.
DiskBehind ==
    /\ disk.rows \subseteq rows
    /\ \A f \in File : disk.marks[f] = "completed" => BlockComplete(f)

\* --limit is a maximum: a run never commits a row that takes the table past it.
\* (With --out a row whose line cannot be written is not counted, and may.)
LimitRespected ==
    [][limit > 0 /\ ~(rows' \subseteq rows) => Cardinality(rows') <= limit]_vars

\* The places between the count of a source and its return.
Counting == {"crawl", "file", "start", "open", "scan", "complete", "checkpoint",
             "fail", "names"}

\* The running total, which the code compares with the limit and prints as
\* "db-total", is the number of domains the database will show at the next
\* flush.  It counts on every insert being committed, and reported as one.
TotalIsExact == pc \in Counting => total = Cardinality(rows \cup txRows)

\* All the domains of a crawl, of a source, and of a run.
CrawlDomains(c) == UNION {DomainsOf(Crawls[c].files[i]) : i \in 1..Len(Crawls[c].files)}
SourceDomains(source) ==
    CASE source = "commoncrawl" -> UNION {CrawlDomains(c) : c \in 1..Len(Crawls)}
      [] source = "crtsh" -> {CrtNames[i] : i \in 1..Len(CrtNames)} \ {NoDomain}
      [] OTHER -> {}
Selected == UNION {SourceDomains(Sources[i]) : i \in 1..Len(Sources)}

\* A run that ends without a warning has done its work, with the files it
\* skipped as completed: the table has reached the limit or holds every
\* domain of every selected crawl and of crt.sh.
CleanRunIsDone ==
    last = "clean" => \/ LimitIs(Cardinality(rows))
                      \/ Selected \subseteq rows

\* The places where a file is being worked on.
FileSteps == {"start", "open", "scan", "complete", "checkpoint", "fail"}

\* A file is worked on only while its checkpoint is not "completed".
AtFile ==
    /\ pc = "file" => ci \in 1..Len(Crawls)
    /\ pc \in FileSteps => /\ ci \in 1..Len(Crawls)
                          /\ fi \in 1..Len(Crawl.files)
                          /\ ~BlockComplete(ThisFile)

\* Why checkpoints are sound: the domains of the lines already read are in the
\* table or in the transaction that the checkpoint will commit first.  A retry,
\* after a commit that lost some of them, begins again at the first line.
ScanKept ==
    /\ pc = "scan" => DomainsBefore(ThisFile, scan.ln) \subseteq rows \cup txRows
    /\ pc = "complete" => DomainsOf(ThisFile) \subseteq rows \cup txRows
    /\ pc = "checkpoint" => DomainsOf(ThisFile) \subseteq rows

\* The run goes on after a file.
LeavesFile ==
    /\ pc \in FileSteps \ {"start"}
    /\ pc' \notin FileSteps
    /\ pc' # "idle"

\* A statement on the checkpoint failed, or the flush before it; the error is
\* an error of the run.
CheckpointRefused == pc \in {"complete", "checkpoint", "fail"} /\ UNCHANGED marks /\ errs'

\* README, "Large Runs": failures are recorded per file.  A run that goes on
\* after a file leaves it completed or failed, unless the limit ended its scan or
\* the store refused to write that down.
FailureRecorded ==
    [][LeavesFile => \/ marks'[ThisFile] \in {"completed", "failed"}
                     \/ LimitIs(total')
                     \/ CheckpointRefused]_vars

\* The database keeps the promise of Checkpoint: in particular a completed file
\* stays completed and a found domain stays found, except for a fresh start and
\* a power loss.
Promise == INSTANCE Checkpoint WITH
    Contents <- [f \in File |-> DomainsOf(f)],
    MayLose <- Fault("power"),
    found <- rows,
    done <- {f \in File : BlockComplete(f)}

KeepsPromise == Promise!Spec

\* A valid cached CDX file, which may have taken hours to download, is deleted
\* only by a failing AddDomain, of the table or of the text file, whose error the
\* code takes for one of the file.
CacheKept ==
    [][\A f \in File : cache[f] = "good" => cache'[f] # "none" \/ AddLineFails]_vars

\* A run that was started ends, unless the machine stops it first or it waits for ever
\* for one answer: with a network that always comes back, be it with an error, no loop
\* over sources, crawls, files, attempts or lines goes on for ever.
RunEnds == WF_vars(Run /\ OnNetwork) => (pc # "idle" ~> pc = "idle")
=============================================================================
