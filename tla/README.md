# Verification of czdomains

czdomains collects .cz domain names from Common Crawl indexes and crt.sh into a SQLite
database, exports them, enriches them over RDAP, and updates itself. This directory holds
TLA+ models of it, the TLC configurations that check them on small instances, and proofs
that TLAPS checks for every instance.

- `PROJECT.json` lists the components, the runs, the mutants, the source lines each
  definition stands for, the findings, the hazards and the theorems.
- `tlc -config X.cfg M` repeats a run (section 3 names M for each X), `tlapm P.tla` the
  proofs of P: `StoreProofs`, `DiscoveryProofs`, `OutFileProofs`, `DownloadProofs`,
  `CDXCacheProofs`, `ListProofs`, `EnrichProofs`, `SelfUpdateProofs`.

## 1. Inventory

| Component | State | Operations | Hard behaviour | What makes it correct |
|---|---|---|---|---|
| SQLite store (`storage/sqlite.go`) | tables `domains`, `crawl_blocks`; open transaction `tx`, `pending` | Open, AddDomain, Flush, Count, BlockComplete, MarkBlock*, Close, ForEachDomain | batching across calls; failing commits; crashes; WAL not synced | bounded loss; nothing lost unless a commit or the process fails |
| Discovery engine (`discovery.go`, `discoverToSQLite`) | place in sources, crawls and files; running total; errors; cached CDX files | DiscoverTo, scans, checkpoints, limit, crt.sh | crash between rows and checkpoint, retries, resumption, limit across sources | a completed file has all its rows; the limit is a maximum; clean runs are complete |
| Object download (`downloadCommonCrawlObjectToTemp` and below) | temporary file, byte count, stall timer, failures, cooldowns | request, copy, stall callback, retry, cooldown | timer goroutine against the copy; resumption by range; by default it is repeated for ever | the file is the object; transient failures do not end it; it ends if cooldowns are limited |
| Text output (`sink.go`) | buffer, file | open, AddDomain, Flush, Close | opened after a fresh run has deleted the database; printed before committed; sink errors | file and table agree |
| Crawl and file selection | crawl list, manifest, `cluster.idx` and its cached copy | list, parse, select, skip, stop | sticky bad cache; ranges at block and file boundaries | every file with cz keys is selected and read; the newest crawls are |
| CDX cache publication | temporary names and final name | look, download, move, rename, delete, retry | several processes; kills; two file systems; Windows keeps open files | only whole files under the final name; somebody gets on |
| Domain normalisation (`domainutil`) | none | FromHost, and its callers | three ways to the same domain | the registrable name, the same by every way |
| RDAP client, limiter (`rdap`, `ratelimit`) | time of the next request | Wait, Domain, EntityByURL | late timers, slow requests | spacing of requests |
| Enrichment and writers (`enrich`, `output`, `enrichEach`) | entity cache, CSV buffer, two files | Enrich, WriteRecord, Flush | errors cached for the run; one writer buffered, the other not | CSV and JSONL agree; contacts are not mixed up |
| Self update (`selfupdate.go`) | executable, temporary files and scripts beside it | Latest, gate, cleanup, download, verify, replace | several updates at once; Windows' script | the executable is always a whole one; only overlap brings back an older release |
| In-memory sink, command line | map; none | – | none | – |

**How they interact.** One process runs one command. `discover` drives a sink, which is the
store or the text output in front of the store, and uses the store as block tracker beside
the sink: a checkpoint therefore flushes the store and not the text file. Every tracker call
and every count begins with `Store.Flush`, which commits the inserts batched until then. The
only goroutine besides the main one is the stall timer of a download. Between runs there are
the database, the cache directory, the text file and the executable. Processes meet in the
cache directory, which two databases in one directory share, and beside the executable, where
updates overlap; on Windows an update leaves a script behind that outlives it.

## 2. Modules

| Module | Models | State and actions |
|---|---|---|
| `Store` | the store | `rows`, `marks`: the committed tables; `txOpen`, `txRows`, `pending`: `s.tx`, its inserts, `s.pending`; `disk`: what a power loss leaves. One operator per operation and outcome (`AddDomain`, `InsertFails`, `BatchCommitFails`, `FlushCommits`, `FlushFails`, `Mark`, `Open`), composed by clients; `StoreSpec` is the store under any client |
| `Checkpoint` | abstract: the promise of the database | `found`, `done`: domains are found, a file becomes done only after all its domains are found; only a fresh start or a power loss takes anything back |
| `Discovery` | the discovery engine on the store | `pc` is one label for each place where the code calls the store or the network; `si`, `ci`, `fi` are the loops' indexes, `scan` the locals of one file's scan, `total`, `errs`, `seenCZ` as in the code, `cache` the cached files. An insert can succeed and AddDomain fail (`"sink"`). Implements `Checkpoint` (`KeepsPromise`) |
| `Download` | one resumable download | the copy loop step by step beside the timer's callback (`Expire`, `StoreStalled`, `Cancel`) |
| `OutFile` | the text output on the store | `buffer`, `text` count each domain's lines; the store's operations are those of `Store`. A run opens the database (`OpenStore`), then the text file (`OpenText`); either can fail |
| `CrawlSelect` | crawl list, manifest, `cluster.idx`, choice and order of files | `world` is what Common Crawl publishes and the run is asked for, chosen in `Init`; `crawls`, `ci`; `cached` the cached `cluster.idx` of each crawl, `map` the one that is open; `paths`, `fi`, `seenCZ`, `read`; `errs` the crawls that failed. The parser and the loops over crawls are recursive functions of the position in the list |
| `SharedFile` | abstract: a file in a shared directory | it appears complete, in one step; a reader keeps what it opened |
| `CDXCache` | one file of the cache directory under several processes | `cached` under the final name, `tmp` under each temporary name, `fetched`, `held` (what a process has open), `found`, `attempt`, one `pc` per process; `platform`: on Windows a file that a process has open is `Pinned`. Implements `SharedFile` (`KeepsShared`) |
| `Enrich` | `enrichEach`, `Processor.Enrich`, the limiter, both writers | `ahead` and `gap` are a clock: the limiter's `next` from now, and the time since the last request; `entityCache`, `asked`; `csvBuffer`, `csvFile` count half records (a write can split one), `jsonl` the records |
| `Names` | `FromHost`, crawl keys, certificate names, `export`, `enrich --input` | a host is the sequence of its labels; `table`, `text` (an input file), `inputs`; the loops over labels and lines are recursive functions of the position. `step`, `NamesInit`, `NamesNext` because `ListProofs` extends it beside `CrawlSelect` |
| `SelfUpdate` | `update` by several processes, the gate, both platforms, the order of versions | names in the directory and the files behind them are separate, so that a removed name does not stop its writer; `scripts`, `waiting` are Windows' scripts on disk and running; `Parts` are the numbers of a tag, `Older` compares them |
| `MCDiscovery`, `MCOutFile`, `MCCrawlSelect`, `MCEnrich`, `MCNames`, `MCSelfUpdate` | – | the instances' values |
| `StoreProofs`, `DiscoveryProofs`, `OutFileProofs`, `DownloadProofs`, `CDXCacheProofs`, `ListProofs`, `EnrichProofs`, `SelfUpdateProofs` | – | theorems |

`Discovery` takes the files of a crawl as given and their download as a success or a failure;
`CrawlSelect`, `Download` and `CDXCache` are what is behind these.

An operator commented *Mutant* is not part of the specification. It stands before the
definition it varies by a plausible mistake; `PROJECT.json` pairs it with the property that
must notice the mistake.

## 3. Runs

Passing runs explore their whole state space.

| Run | Module | Instance | Question |
|---|---|---|---|
| `crawls` | `MCDiscovery` | crt.sh, a cluster crawl of two files that share a domain, a sequential crawl of four files (before, across and after the cz range); batch 2; limit 0, 2 or 3; all faults but commits, sink and power; fairness | are checkpoints, total, limit and clean endings right over any number of runs, are valid copies kept and failures recorded, and does a run end unless it waits for ever for an answer? |
| `commits` | `MCDiscovery` | an unknown source and two crawls; every fault | does a checkpoint ever run ahead of its rows, in the database or on the disk? is `Checkpoint` implemented? |
| `download` | `Download` | 3 bytes, threshold 2, 0 (unlimited) or 2 cooldowns; every trouble, all but a cut range, only what is transient; fairness | is the file right, does the download end, and in which ways does it give up? |
| `out` | `MCOutFile` | 3 domains; no faults, files that cannot be opened and a failing database, a failing file, all of it and kills but failing commits | do file and table agree over any number of fresh and appending runs; does a bad file cost rows? |
| `update` | `MCSelfUpdate` | three processes, Unix and Windows, an unversioned build and releases v1.9.1 and v1.10; nothing goes wrong but their overlap and a withdrawn release, or everything | is the executable always whole; does only overlap let an older release replace a newer one; is anybody's update installed? |
| `select` | `MCCrawlSelect` | every layout of 5 or 6 keys in blocks of two over up to three files, every prefix of `cluster.idx` in the cache or a damaged copy, with bare file names or paths in it, files completed before; crawl lists with duplicates and junk, counts 0, 2 and 9 | are the files with cz data, and the newest crawls, the ones chosen and read? |
| `cdxcache` | `CDXCache` | two processes, Unix and Windows; only their overlap, two file systems, or everything; fairness | does anybody see a copy in progress, does one of them succeed, do they stop chasing the file? |
| `enrich` | `MCEnrich` | three domains with shared, nameless and unlinked contacts; delay 2; a buffer of three half records; no trouble or all of it | do the files agree, are contacts right, requests spaced? |
| `names` | `MCNames` | every host of up to four labels out of `cz`, `www`, `a`, `a_b`, the empty one and `*`; tables of two domains, input files of three lines | do a crawl, a certificate and an input file give the same domain, is an export read back? |
| `clean_commit`, `stall_race`, `www_cz` | `MCDiscovery`, `Download`, `MCNames` | | the findings of section 4 |

`Download`, `OutFile`, `SelfUpdate`, `CrawlSelect`, `CDXCache` and `Enrich` choose what goes
wrong once, in `Init` (`trouble`, `faults`), so that one run covers behaviours with different
trouble and a property can speak of those where only some of it happens. In `Discovery` it is
the constant `Faults`.

**Bounds.** The commit counter of a batch, the indexes and the file lengths are bounded by
the instance. Cut are only `OutFile`'s counts of lines, which stop at 2 (more than once),
`Enrich`'s clock where it no longer makes a difference (a `gap` of `Delay`, an `ahead` in the
past), the number of releases, and in `Names` the domains found (`MaxFound`) and the lines
written (`MaxLines`). Why they are enough:

- *Discovery*: three or four domains and a batch of two make a batch commit in the middle of a
  file, a second one stay open, and a limit of two fall on the last insert of a batch, on a
  duplicate and between files; two files that share a domain make a file complete with rows
  another one inserted. Four sequential files are the shortest crawl with a file on either
  side of the cz range and a range across two. Any number of runs and crashes follow each other.
- *Download*: three bytes distinguish the start, the middle and the end of a body.
- *CrawlSelect*: blocks of two put the beginning and the end of the range at every place within
  a block, and three files put each at every place within a file and at its edges.
- *CDXCache*: two processes are one that publishes, reads or deletes and one that disturbs it;
  `KeepsShared` is proved for any number.
- *Enrich*: three domains make the first answer for a contact used by a later one, also after a
  failure; a buffer of three halves fills in the middle of a record; a delay of 2 separates a
  timer that is early, on time and late.
- *Names*: four labels hold a prefix `www`, a subdomain, the name and `cz`, and an empty label
  at either end.
- *SelfUpdate*: with three processes one can lose its file to a second while a third renames.
  They are interchangeable, so states are taken up to their permutations. v1.9.1 and v1.10
  differ as numbers and as text, and in length. The installed one may be the older release or
  an unversioned build.

**Fairness.** Only what a process does by itself is fair. Nobody is obliged to start a run, and no
server to answer: `--timeout` bounds the way to the header of a response and nothing behind it
(`discoveryHTTPClient`), the bodies of the crawl list, of a manifest, of crt.sh and of a
streamed CDX file have no stall timer, and with the default `--cc-max-cooldowns 0` a download is
repeated until it succeeds ("waits indefinitely", as README.md of the program says).

- `Discovery!FairSpec` is weak fairness of the steps of `Run` that wait for nobody
  (`~OnNetwork`). That the others come back is the premise of `RunEnds`, not part of the
  specification: `RunEnds` shows that no loop over sources, crawls, files, attempts or lines
  goes on for ever, and that what keeps a run from its end is one answer that does not come.
- `CDXCache!FairSpec` likewise is weak fairness of the `Local` steps of each process;
  `UseEnds` has the fairness of that process's own download as its premise. None is obliged to
  begin, and a killed one may start again for ever.
- `Download!FairSpec` is weak fairness of answering a request (the response header has a
  timeout; with `--timeout 0` it has none), of the copy loop, of the timer, and of the steps
  after a failure. A server that may fall silent is not obliged to send a byte of a body: that
  a download ends all the same, if its cooldowns are limited, is what the stall timer is for.
  Only where `trouble` excludes silence is the arrival of data fair.

The others state no fairness and have only safety properties.

`CHECK_DEADLOCK FALSE` stands where a command ends and nothing starts it again.

## 4. Findings

Each has a run that TLC ends with the violation.

- `clean_commit` (`CleanRunIsDone`): `*total` counts an insert before its commit and keeps
  the count when the commit fails. The second attempt of the same cached file reads the rows
  again and counts them twice; with `--limit` the run can end early, without a warning and
  with fewer rows than the limit.
- `stall_race` (`NeverGivesUp`): the timer's callback sets the flag, the copy clears it, the
  callback cancels: the request ends with `context.Canceled`, which is not transient.
- `www_cz` (`ReducesToRegistrable`): `FromHost` trims `www.` before it splits the labels, so
  the domain www.cz itself is not a .cz domain to it.

Where a property had to name an exception, the exception is behaviour of the code too, and a
mutant shows that the rest of the property still bites:

| Property | What the code does all the same |
|---|---|
| `CacheKept` | any error of a scan is taken for a damaged file: when the insert, or the text file behind the sink, fails, a valid cached copy is deleted |
| `LimitRespected`, `TotalIsExact` (their theorems assume `EveryRowCounts`; the run leaves "sink" out) | a row whose line cannot be printed is inserted but not counted, and takes the table past the limit |
| `StopsPastRange` | a resumed sequential scan skips the file in which the range ended and reads on; so does one whose range ends exactly with a file |
| `TwoWaysToGiveUp` | besides the race above, a body that breaks off after its last byte is resumed behind the end, and the 416 is permanent |
| `DeliveredWhole` | a 206 with a shorter range than asked for ends with EOF and counts as the whole object |
| `OnlyInsertedUnlessLost`, `PrintedOnce` | a line is printed for an insert whose commit then fails, or whose process is killed; a fresh run that cannot open `--out`, or its database, has deleted the old one by then: the old text stays beside an empty database, and an appending run prints the same domains again |
| `NoneMissing` | a kill loses buffered lines of rows that checkpoints have committed; no later run prints them |
| `ChoosesCZFiles` | a `cluster.idx` that is cut off inside the range is a valid shorter map: files are left out unnoticed |
| `FailsOnlyIfStuck` | a cached `cluster.idx` that parses and has no cz block is never deleted: every later run of the crawl fails |
| `SomebodyScans` | processes that find the same damaged copy delete each other's replacements, and one may fail by that; on Windows all of them may, where one could not delete it in both its attempts because another had it open: then nothing is in the cache at the end (`HeldUp`) |
| `SomebodyInstalls` | on Windows two overlapping updates can both come to nothing: one loses its file to the other's cleanup and is still running when that one's script moves, which then deletes its download |
| `SourcesAgree`, `ReadBack` | a crawl key with an underscore in any label or with a port behind the domain itself gives nothing; www.cz is lost when an export is read back |
| `WritersAgree` | after an error nothing flushes the CSV writer: records in the JSONL file are missing there |
| `ContactsOwn` | contacts without a handle share one cache entry |
| `ExecutableWhole` | the length is checked only where the release gives one, the digest likewise (`Sized`, `Digest`); a release without a digest can be damaged |
| `OnlyOverlapDowngrades` | an update that read the latest release before a newer one was installed by another puts the older one back |
| `RunEnds` | a run can wait for one answer for ever |

## 5. Proofs

**Assumptions**, named in the modules and evaluated by TLC in the runs: the constants have
their types (`ConstantsAssumption`, `FaultsAssumption`, `DownloadAssumption`,
`CacheAssumption`, `EnrichAssumption`, `UpdateAssumption`), the batch size is positive and
`Domain` finite, the lines of a CDX file and the files of a crawl are in key order
(`SortedLines`, `SortedFiles`; Common Crawl sorts them, and the scans stop early because of
it), so are the lines of `cluster.idx`, and no file of a manifest has a key of the range behind
the one in which it ends (`SelectAssumption`), the name that stands for no file is no process
(`NoOneAssumption`), what stands for no block, junk or a line that is too long is no block
(`SentinelAssumption`), and host names are made of `Labels`, `cz` being one without an
underscore, while what stands for no domain is no name (`NamesAssumption`).
Three theorems assume more, in their statement: `TotalsAreExact` and `LimitIsRespected` take
`EveryRowCounts`, that neither commits nor the sink fail, and `CleanRunsAreDone` that commits
do not (the first finding, and the first exceptions, are what happens otherwise).

**`StoreProofs`**: under any client, `StoreTypeCorrect` and `LossWindowHolds` (an open
transaction holds fewer rows than a batch), from `StoreInv`. The subtle part is `pending`,
which keeps its value when a commit fails; the next insert resets it because no transaction
is open.

**`DiscoveryProofs`**: for every list of sources and crawls, every content of the files, batch
size, limit and combination of faults,

- `TypeCorrect`; `CrashLosesLessThanABatch` (every step of Discovery is a step of `StoreSpec`);
- `CheckpointsAreSound`, `DiskCheckpointsAreSound`: a file marked completed has all its
  domains in the table, and so it is on the disk; `ScanKeepsDomains`;
- `ImplementsCheckpoint`: Discovery implements `Checkpoint`;
- `CacheIsKept` and `FailuresAreRecorded`, two action properties;
- `TotalsAreExact` and `LimitIsRespected` under `EveryRowCounts`;
- `CleanRunsAreDone`: a run that ends without an error has reached its limit or has every
  selected domain in the table, while commits succeed. The sink, the network, the cache, the
  inserts and the process may fail: then an error is noted or the run does not end.

`CheckpointSound` is not inductive: the step that writes a checkpoint needs to know that the
rows of the whole file are committed. `DiscoveryInv` adds

- `ScanKept`: the domains of the lines read so far are in the table or in the open
  transaction, and from `"checkpoint"` on in the table. A failed commit breaks neither part,
  because every path from it leaves the scan or starts it at the first line;
- `AtFile`: the indexes are in range and the file at hand is not completed (else a retry of
  a completed file could mark it failed, which `Checkpoint` forbids);
- `DiskBehind`: what is on disk is an earlier part of what is committed, so that a power
  loss brings the table to a state it was in;
- `TypeOK` and `LossWindow`.

The leaf where a scan ends is where `SortedLines` is used: the lines after it hold no domain.
`CacheIsKept` adds `ScanReadsCache`: a scan of a cached file reads what the cache holds, so an
error that is not AddDomain's means a damaged copy. `TotalsInv` says that the total is the
number of rows, committed or not, that it is below the limit wherever counting goes on, and
that the open transaction never holds a row past the limit; `LimitRespected` follows because
commits add only rows that were counted. Both rest on a lemma on the cardinality of a finite
set and one more element.

`DoneInv` is the history of a run: no error is noted, and the limit is not reached, only if
everything behind the indexes is found. `ReadSoFar` says it for each loop: the sources before
`si` (`SourcesRead`), the crawls before `ci` (`CrawlsRead`), the files before `fi` of the crawl
at hand (`FilesRead`), the names of a certificate search (`NamesRead`). Found is what is in the
table or in the open transaction; at the end of a run both are the same, as `Count` has flushed
it. `SortedFiles` is used in one step, where a sequential scan stops at the first file past the
range. That the total is not above the number of rows found is part of it: otherwise the limit
could seem reached too early, which is what a failing commit brings about.

**`OutFileProofs`**: besides the types and `LossWindow`, `OutInv` says that what is printed (in
the file or the buffer) is a row or an insert of the open transaction, while no commit and no
run is lost (`PrintedIsKnown`), but for the moment in which a fresh run has deleted the database
and not yet truncated the file: then nothing is known (`NothingKnown`); that every row and
insert is printed, while the file holds and nothing is killed (`KnownIsPrinted`); that none is
printed twice (`PrintedOnce`), which needs the first: the store calls a domain new only if it
knows nothing of it; and that nothing is buffered or open between runs (`AtRest`). Proved:
`FileListsOnlyRows` and `FilePrintsOnce`, for histories without failed commits, kills and runs
that cannot open their files, and `FileMissesNoRow` and `SinkKeepsRows`.

**`DownloadProofs`**: `DownloadInv` has `FileIsPrefix`, `BodyFollowsFile` (the response at
hand goes on where the file ends, and ends where the object does unless it was cut),
`ErrorHasCause` (a permanent error without permanent trouble means that nothing was left to
ask for), and the types, `Counts` and `Flags`. From it `FileIsAPrefix`, `DeliversWhole`,
`GivesUpInTwoWays`, `KeepsProgress` for every size, threshold and trouble: the two ways to give
up are the only ones, not just the ones seen with three bytes.

**`CDXCacheProofs`**: for any number of processes `CacheKeepsShared`, the refinement of
`SharedFile`. `CacheInv` adds `OnTheWay` to the types: what a process is about to publish is
complete and under its own temporary name, which holds because no other process writes or
removes that name; and `TwoAttempts`. `SomebodyAlwaysScans`: when nothing goes wrong but the
overlap of processes, not all of them fail, unless Windows made them hold each other up. One
failing is a local event and all failing a global one; `QuietInv` connects them by what the
cache held at the start: unless it was damaged (`DamagedFromStart`), nothing damaged ever
appears (`WholeDownloads`), no process has a reason to delete or to fail, and so a process that
has begun goes on or is through (`SomebodyGoesOn`). If it was damaged, the first attempt of any
process is enough to delete it on Unix (`FirstAttempts`). On Windows what is open is what is
cached, and a process comes to a second attempt at the damaged copy only beside another one
that held it (`HeldOpen`): that all fail takes one which another held up in both its attempts
(`HeldUp`), and the copy is gone then.

**`SelfUpdateProofs`**: for any number of processes and releases and on both platforms
`ExecutableStaysWhole`, `LeavesNoTempFile`, `OnlyOverlappingDowngrades`. `UpdateInv`: a
temporary name leads to its owner's file or nowhere (`OwnNames`), a script runs only for a
process that got to the end (`ScriptsOutlive`), a file past its verification is good and newer
than the process (`ReadyIsGood`, `ReadyIsNewer`), a process that has cleaned up its own path has
no file before it creates one (`OwnFileGone`), `ExecutableWhole`. That two versions are not each
older than the other (`OlderAsymmetric`) is proved from the comparison of parts.

`SomebodyAlwaysInstalls`: on Unix, when nothing goes wrong but the overlap of updates, not
all of them fail; on Windows, one that is alone does not. `QuietInv` holds
while nothing else goes wrong: only updates of this directory change it (`OnlyUpdates`), each
starts from the version installed at the beginning (`StartedFromThis`). On Unix the file of a
process is removed only by the cleanup of another one, which is then still at work itself
and whose own file comes later (`UnixGoesOn`): the last to clean up loses nothing. On Windows
a process alone keeps its file and its script to the end (`WindowsGoesOn`).

**`EnrichProofs`**: four invariants. `SpacingInv`: the limiter's `next` lies at
least as far ahead as the delay has still to run (`gap + ahead >= Delay`). `AskedInv`: a
handle that was asked for is in the cache, and the one about to be asked for is not.
`FilesInv`: both files hold the records before the one at hand, less what is buffered.
`OwnInv`, on top of it: the entity at hand is one of the domain's answer (`AtEntity`); what the
cache holds under a handle was fetched for an entity with it (`CacheOwn`); so the contacts of
the record at hand and of the records written (`RecordOwn`, `ListOwn`) belong to entities of
their own domain, and what was looked up was looked up for their handle. From them
`RequestsKeepDistance`, `ContactsAskedOnce`, `FilesAgree`, `ContactsAreOwn`.

**`ListProofs`**, about `CrawlSelect` and `Names`: `ScanInv` says that a sequential scan has read or found completed
every file with cz keys behind it, and goes on while none of those it read showed the end of
the range. From it `ScanReadsCZFiles` and `ScanStopsPastRange`, for every layout.

The other theorems are about loops over data. `SetInduction` (a set of numbers that has 0
and with each its successor has them all, from the well-foundedness of `<`) needs no operator
as a parameter, so that a recursive function over the positions of a list can be followed to its
end: `DistinctIsRecursive`, `CrawlIdsIsRecursive`, `ParserIsRecursive`,
`CleanIsRecursive` and `InputsAreRecursive` give the equations of the five loops, and the lemmas behind them what they compute.

- `NewestAreChosen`: `DistinctIs` (each element once, nothing lost), `CrawlIdsAre`, `SortIs`
  (the order of crawls is total, so that a list without repetition has exactly one sorted form)
  and `NewestIs` (a beginning of it has the newest).
- `CZFilesAreChosen`: `IsParsed` is the loop invariant of `parseCommonCrawlCluster`: it has the
  blocks that start in the range and the last one before it, and stopped at a line that is too
  long, at one above the range or not at all. By `CopyParsed` the lines it has read are a
  beginning of the published ones which, if the end of the range shows, goes past every block
  with a key of it; by `LastBlockBefore` such a block that does not start in the range is the
  last one before it, because keys are sorted. `CopiesInv` says that whatever is cached or at
  hand is a copy (`IsCopy`) of what was published: junk, or a beginning of it with unreadable
  lines.
- `UntroubledFailsOnlyIfStuck`: `UntroubledInv` says that without trouble the map at hand is the
  one in the cache, a downloaded one is the published one, which parses, and a second attempt
  comes only after the cached one was deleted; so an invalid copy is never the reason of a
  failure.
- `SourcesAlwaysAgree`: `CleanIs` says that dropping empty labels leaves none and leaves a name
  without any alone, so that `FromHostOfFull` has what `FromHost` makes of every well-formed
  name: its last two labels, unless the prefix `www` was one of only two. A key has the labels
  backwards (`KeyIs`), and `FromHost` of a domain is the domain (`FromHostOfDomain`).
- `TableIsReadBack`, `InputsAreDistinct`: `HasInputs` is the loop invariant of
  `readDomainInputs`: one input for each domain among the lines read, made of the first line
  with it; `InputsOneMore` is its step. `NamesInv` says that the table has domains only, that an
  exported file lists it whole (`Listing`) and that the inputs are what was read of the file.

**Only model-checked.** Liveness (`RunEnds`, `Ends`, `UseEnds`), fairness as a premise
included, is beyond the prover's reach. Every other property of a passing run is a theorem.

## 6. What is left out, and why

**Not modelled.** The in-memory sink: a map that no command uses. The command line: flags,
messages, progress. The formatting of JSON, vCards and CSV (its header too), and the splitting
of URLs, user names and ports into a host: text. `Dedupe`: only tests call it. After a power
loss, what is behind the executable's name: the file system decides.

**Simplified.**

- `Discovery`: manifest and `cluster.idx` are a success or a failure (`CrawlSelect` has them);
  `Open` succeeds; `MarkBlockFailed`'s flush and statement are one step, its error being
  ignored. A failed commit loses its batch. One discovery process: SQLite allows one writer.
  The cache directory is always set, as main does. A line of a CDX file is its place below, in
  or above the cz range and the domain in it. Of the sink of `--out` it has the failures; the
  lines are `OutFile`'s.
- `Download`: progress output, the displayed total and the lengths of waits are left out; Go
  reports a body shorter than announced as an error. Without a limit the count of cooldowns is
  not kept, as nothing reads it.
- `OutFile`: bufio writes a full buffer whole; a fresh run whose `Open` fails has
  deleted the database (one that fails before that changes nothing, a stuttering step).
- `CrawlSelect`: `getOK`'s retries are a success or a failure. What Common Crawl publishes is
  the same for all crawls of a run. A completed file was completed by an earlier run. The
  limit, which ends a scan, is `Discovery`'s.
- `CDXCache`: one file, as files do not interfere; what a scan does with it is `Discovery`'s. A copy
  that has been published, or looked at, can be opened while it is there.
- `Enrich`: limiter waits are not cancelled (the context is `context.Background()`); the
  output files exist before the first record, as `os.Create` comes before the loop; a kill
  while a write is on its way leaves the whole of it or nothing.
- `Names`: host names are in lower case, without spaces; only an underscore stands for the
  characters a label may not have.
- `SelfUpdate`: a stale path is removed in any order; how long a script waits, and the 60
  seconds of the HTTP client, are left out. Whether releases have a size and a digest is fixed for a
  history (`Sized`, `Digest`; both in the run). `versionParts` drops the suffix of a tag, so that a
  release candidate equals its release; tags here are the numbers that are left.

## 7. Plan

Done: all components of section 1 with state, their runs, the refinements of `Checkpoint` and
`SharedFile`, and the proofs of section 5. What could still be added:

- `CrawlSelect`'s choice of files as the crawls of `Discovery`, one module instantiating both.
