-------------------------- MODULE DiscoveryProofs --------------------------
(***************************************************************************)
(* Proofs about Discovery: its types, that a checkpoint is never ahead of  *)
(* its data, that valid cached files are kept and failures recorded, that  *)
(* the running total and the limit are right while every insert counts,    *)
(* that a clean run has found what it was asked for while commits succeed, *)
(* and that the database keeps the promise of Checkpoint, for every set of *)
(* domains and files, every content of the files, every batch size and     *)
(* every kind of fault.                                                    *)
(***************************************************************************)
EXTENDS Discovery, StoreProofs

----------------------------------------------------------------------------
(* Facts about the constants *)

LEMMA CrawlType ==
    ASSUME NEW i \in 1..Len(Crawls), NEW j \in 1..Len(Crawls[i].files)
    PROVE  Crawls[i].files[j] \in File
<1> DEFINE C == [mode : {"cluster", "sequential"}, files : Seq(File)]
<1>0. Crawls \in Seq(C)
  BY ConstantsAssumption
<1>1. Crawls[i] \in C
  <2> HIDE DEF C
  <2> QED BY <1>0
<1>2. Crawls[i].files \in Seq(File)
  BY <1>1
<1> QED
  BY <1>2

LEMMA LineType ==
    ASSUME NEW f \in File, NEW i \in 1..Len(Lines[f])
    PROVE  /\ Len(Lines[f]) \in Nat
           /\ Lines[f][i].class \in Class
           /\ Lines[f][i].domain \in Domain \cup {NoDomain}
<1> DEFINE L == [class : Class, domain : Domain \cup {NoDomain}]
<1>1. Lines[f] \in Seq(L)
  BY ConstantsAssumption
<1>2. Lines[f][i] \in L
  <2> HIDE DEF L
  <2> QED BY <1>1
<1> QED
  BY <1>1, <1>2

LEMMA LengthType ==
    ASSUME NEW f \in File
    PROVE  Len(Lines[f]) \in Nat
<1>1. Lines[f] \in Seq([class : Class, domain : Domain \cup {NoDomain}])
  BY ConstantsAssumption
<1> QED BY <1>1

\* Nothing has been read before the first line.
LEMMA NothingBefore ==
    ASSUME NEW f \in File
    PROVE  DomainsBefore(f, 1) = {}
BY DEF DomainsBefore

\* Reading one more line adds at most its domain, and only if it is a cz line.
LEMMA OneMoreLine ==
    ASSUME NEW f \in File, NEW n \in Nat \ {0}, NEW S,
           DomainsBefore(f, n) \subseteq S,
           n <= Len(Lines[f]) /\ Lines[f][n].class = "cz"
             => Lines[f][n].domain \in S \cup {NoDomain}
    PROVE  DomainsBefore(f, n + 1) \subseteq S
<1> SUFFICES ASSUME NEW d \in DomainsBefore(f, n + 1) PROVE d \in S
  OBVIOUS
<1>1. PICK j \in 1..Len(Lines[f]) : /\ j < n + 1 /\ Lines[f][j].class = "cz"
                                    /\ d = Lines[f][j].domain /\ d # NoDomain
  BY DEF DomainsBefore
<1>2. CASE j < n
  BY <1>1, <1>2 DEF DomainsBefore
<1>3. CASE j = n
  BY <1>1, <1>3, LengthType
<1> QED
  BY <1>1, <1>2, <1>3, LengthType

\* At the end of the file, everything in it has been read.
LEMMA AtEnd ==
    ASSUME NEW f \in File, NEW n \in Nat, ~(n <= Len(Lines[f]))
    PROVE  DomainsOf(f) \subseteq DomainsBefore(f, n)
<1> SUFFICES ASSUME NEW d \in DomainsOf(f) PROVE d \in DomainsBefore(f, n)
  OBVIOUS
<1>1. PICK j \in 1..Len(Lines[f]) : /\ Lines[f][j].class = "cz"
                                    /\ d = Lines[f][j].domain /\ d # NoDomain
  BY DEF DomainsOf, DomainsBefore
<1>2. j < n
  BY LengthType
<1> QED
  BY <1>1, <1>2 DEF DomainsBefore

\* At a key >= "cz-", too: the file is sorted.
LEMMA AtAbove ==
    ASSUME NEW f \in File, NEW n \in 1..Len(Lines[f]), Lines[f][n].class = "above"
    PROVE  DomainsOf(f) \subseteq DomainsBefore(f, n)
<1> SUFFICES ASSUME NEW d \in DomainsOf(f) PROVE d \in DomainsBefore(f, n)
  OBVIOUS
<1>1. PICK j \in 1..Len(Lines[f]) : /\ Lines[f][j].class = "cz"
                                    /\ d = Lines[f][j].domain /\ d # NoDomain
  BY DEF DomainsOf, DomainsBefore
<1>2. j # n /\ ~(n < j)
  BY <1>1, SortedLines
<1>3. j < n
  BY <1>2, LengthType
<1> QED
  BY <1>1, <1>3 DEF DomainsBefore

LEMMA NameType ==
    ASSUME NEW i \in 1..Len(CrtNames), CrtNames[i] # NoDomain
    PROVE  CrtNames[i] \in Domain
BY ConstantsAssumption

----------------------------------------------------------------------------
(* Every step of Discovery is a step of the Store *)

LEMMA FileType ==
    ASSUME AtFile, pc \in FileSteps
    PROVE  ThisFile \in File
BY CrawlType DEF AtFile, ThisFile, Crawl

LEMMA LineDomainType ==
    ASSUME ProcessTypeOK, AtFile, pc = "scan", AtLine, Line.domain # NoDomain
    PROVE  Line.domain \in Domain
<1>1. ThisFile \in File
  BY FileType DEF FileSteps
<1>2. scan.ln \in Nat \ {0}
  BY DEF ProcessTypeOK, ScanRecord
<1>3. scan.ln \in 1..Len(Lines[ThisFile])
  BY <1>1, <1>2, LengthType DEF AtLine
<1> QED
  BY <1>1, <1>3, LineType DEF Line

\* The outcomes of a failing sink.AddDomain are outcomes of the store.
LEMMA AddDomainFailsStep ==
    ASSUME NEW d \in Domain, AddDomainFails(d)
    PROVE  StoreNext
BY DEF AddDomainFails, StoreNext

LEMMA AddDomainFailsShape ==
    ASSUME NEW d, AddDomainFails(d)
    PROVE  rows \subseteq rows' /\ UNCHANGED <<marks, disk>>
<1>1. CASE BeginFails \/ InsertFails \/ BatchCommitFails
  BY <1>1 DEF BeginFails, InsertFails, BatchCommitFails, storeVars
<1>2. CASE AddDomain(d)
  BY <1>2 DEF AddDomain
<1> QED
  BY <1>1, <1>2 DEF AddDomainFails

LEMMA StoreStep ==
    ASSUME TypeOK, AtFile, [Next]_vars
    PROVE  [StoreNext]_storeVars
<1> USE DEF StoreNext
<1>1. ASSUME NEW fresh \in BOOLEAN, NEW lim \in Limits, Start(fresh, lim)
      PROVE  StoreNext
  BY <1>1 DEF Start
<1>2. ASSUME SourceStep PROVE [StoreNext]_storeVars
  <2>1. CASE NoMoreSources BY <2>1 DEF NoMoreSources
  <2>2. CASE SelectSource
    BY <2>2 DEF SelectSource, storeVars, txVars
  <2>3. CASE SelectSourceFails BY <2>3 DEF SelectSourceFails, StoreCallFails
  <2>4. CASE Finish BY <2>4 DEF Finish, StoreCallFails
  <2> QED BY <1>2, <2>1, <2>2, <2>3, <2>4 DEF SourceStep
<1>3. ASSUME CrawlStep PROVE [StoreNext]_storeVars
  <2>1. CASE StartCrawls BY <2>1 DEF StartCrawls
  <2>2. CASE StartCrawlsFails
    BY <2>2 DEF StartCrawlsFails, StoreCallFails, storeVars, txVars
  <2>3. CASE NoMoreCrawls BY <2>3 DEF NoMoreCrawls
  <2>4. CASE PrepareCrawl BY <2>4 DEF PrepareCrawl
  <2>5. CASE PrepareCrawlFails BY <2>5 DEF PrepareCrawlFails
  <2> QED BY <1>3, <2>1, <2>2, <2>3, <2>4, <2>5 DEF CrawlStep
<1>4. ASSUME CheckStep PROVE [StoreNext]_storeVars
  <2>1. CASE NoMoreFiles BY <2>1 DEF NoMoreFiles
  <2>2. CASE CheckFile BY <2>2 DEF CheckFile
  <2>3. CASE StartFile
    <3>1. ThisFile \in File BY <2>3, FileType DEF StartFile, FileSteps
    <3> QED BY <2>3, <3>1 DEF StartFile, Status
  <2>4. CASE CheckFileFails BY <2>4 DEF CheckFileFails, StoreCallFails
  <2> QED BY <1>4, <2>1, <2>2, <2>3, <2>4 DEF CheckStep
<1>5. ASSUME OpenStep PROVE UNCHANGED storeVars
  BY <1>5 DEF OpenStep, OpenCached, Download, OpenStream, OpenFails
<1>6. ASSUME ScanStep PROVE [StoreNext]_storeVars
  <2>1. CASE SkipLine BY <2>1 DEF SkipLine
  <2>2. CASE JunkLine BY <2>2 DEF JunkLine
  <2>3. CASE AddLine
    <3>1. Line.domain \in Domain BY <2>3, LineDomainType DEF AddLine, TypeOK
    <3> QED BY <2>3, <3>1 DEF AddLine
  <2>4. CASE EndScan BY <2>4 DEF EndScan
  <2>5. CASE ReadFails BY <2>5 DEF ReadFails
  <2>6. CASE AddLineFails
    <3>1. Line.domain \in Domain BY <2>6, LineDomainType DEF AddLineFails, TypeOK
    <3> QED BY <2>6, <3>1, AddDomainFailsStep DEF AddLineFails
  <2> QED BY <1>6, <2>1, <2>2, <2>3, <2>4, <2>5, <2>6 DEF ScanStep
<1>7. ASSUME MarkStep PROVE [StoreNext]_storeVars
  <2>1. CASE FlushFile BY <2>1 DEF FlushFile
  <2>2. CASE CompleteFile
    <3>1. ThisFile \in File BY <2>2, FileType DEF CompleteFile, FileSteps
    <3> QED BY <2>2, <3>1 DEF CompleteFile, Status
  <2>3. CASE CompleteFileFails BY <2>3 DEF CompleteFileFails, storeVars, txVars
  <2>4. CASE FailFile
    <3>1. ThisFile \in File BY <2>4, FileType DEF FailFile, FileSteps
    <3> QED BY <2>4, <3>1 DEF FailFile, StoreCallFails, Status
  <2> QED BY <1>7, <2>1, <2>2, <2>3, <2>4 DEF MarkStep
<1>8. ASSUME NamesStep PROVE [StoreNext]_storeVars
  <2>1. CASE FetchNames BY <2>1 DEF FetchNames
  <2>2. CASE FetchNamesFails
    BY <2>2 DEF FetchNamesFails, StoreCallFails, storeVars, txVars
  <2>3. CASE AddName
    <3>1. CASE CrtNames[scan.ln] = NoDomain BY <2>3, <3>1 DEF AddName
    <3>2. CASE CrtNames[scan.ln] # NoDomain
      <4>0. scan.ln \in Nat \ {0} /\ Len(CrtNames) \in Nat
        BY ConstantsAssumption DEF TypeOK, ProcessTypeOK, ScanRecord
      <4>1. scan.ln \in 1..Len(CrtNames)
        BY <2>3, <4>0 DEF AddName
      <4>2. CrtNames[scan.ln] \in Domain BY <3>2, <4>1, NameType
      <4> QED BY <2>3, <3>2, <4>2 DEF AddName
    <3> QED BY <3>1, <3>2
  <2>4. CASE AddNameFails
    <3>1. scan.ln \in Nat \ {0} /\ Len(CrtNames) \in Nat
      BY ConstantsAssumption DEF TypeOK, ProcessTypeOK, ScanRecord
    <3>2. scan.ln \in 1..Len(CrtNames)
      BY <2>4, <3>1 DEF AddNameFails
    <3>3. CrtNames[scan.ln] \in Domain BY <2>4, <3>2, NameType DEF AddNameFails
    <3> QED BY <2>4, <3>3, AddDomainFailsStep DEF AddNameFails
  <2>5. CASE NoMoreNames BY <2>5 DEF NoMoreNames
  <2> QED BY <1>8, <2>1, <2>2, <2>3, <2>4, <2>5 DEF NamesStep
<1>9. ASSUME Crash PROVE StoreNext
  <2>1. Open(FALSE) BY <1>9 DEF Crash, Open
  <2> QED BY <2>1
<1>10. ASSUME PowerLoss PROVE StoreNext
  BY <1>10 DEF PowerLoss
<1>11. ASSUME Sync PROVE StoreNext
  BY <1>11 DEF Sync
<1>12. ASSUME UNCHANGED vars PROVE UNCHANGED storeVars
  BY <1>12 DEF vars
<1> QED
  BY <1>1, <1>2, <1>3, <1>4, <1>5, <1>6, <1>7, <1>8, <1>9, <1>10, <1>11, <1>12
     DEF Next, StartSome, Run

----------------------------------------------------------------------------
(* The process's variables keep their types *)

LEMMA RowsAreCounted ==
    ASSUME NEW S \in SUBSET Domain
    PROVE  Cardinality(S) \in Nat
BY DomainsFinite, FS_Subset, FS_CardinalityType

LEMMA NoScanType == NoScan \in ScanRecord
BY DEF NoScan, ScanRecord

LEMMA ScanUpdates ==
    ASSUME NEW r \in ScanRecord
    PROVE  /\ [r EXCEPT !.ln = @ + 1] \in ScanRecord
           /\ [r EXCEPT !.ln = @ + 1, !.hit = TRUE] \in ScanRecord
           /\ [r EXCEPT !.passed = TRUE] \in ScanRecord
<1>1. r.ln + 1 \in Nat \ {0}
  BY DEF ScanRecord
<1>2. [r EXCEPT !.ln = @ + 1] \in ScanRecord
  BY <1>1 DEF ScanRecord
<1>3. [r EXCEPT !.ln = @ + 1, !.hit = TRUE] \in ScanRecord
  BY <1>1 DEF ScanRecord
<1>4. [r EXCEPT !.passed = TRUE] \in ScanRecord
  BY DEF ScanRecord
<1> QED
  BY <1>2, <1>3, <1>4

LEMMA FreshScan ==
    ASSUME NEW n \in Nat \ {0}, NEW cached \in BOOLEAN,
           NEW body \in {"none", "good", "bad"}
    PROVE  /\ [NoScan EXCEPT !.attempt = n] \in ScanRecord
           /\ [NoScan EXCEPT !.attempt = n, !.body = body, !.cached = cached] \in ScanRecord
<1>1. [NoScan EXCEPT !.attempt = n] \in ScanRecord
  BY NoScanType DEF ScanRecord
<1>2. [NoScan EXCEPT !.attempt = n, !.body = body, !.cached = cached] \in ScanRecord
  BY NoScanType DEF ScanRecord
<1> QED
  BY <1>1, <1>2

\* Each way to leave a step keeps the types of the process's place.
PlaceOK == PositionOK /\ FlagsOK

LEMMA PlaceType ==
    ASSUME PlaceOK
    PROVE  /\ \A label \in Labels : Goto(label) => PlaceOK'
           /\ NextSource(TRUE) \/ NextSource(FALSE) => PlaceOK'
           /\ NextCrawl(TRUE) \/ NextCrawl(FALSE) => PlaceOK'
           /\ NextFile => PlaceOK'
<1>1. ASSUME NEW label \in Labels, Goto(label) PROVE PlaceOK'
  <2>1. PositionOK' BY <1>1 DEF PlaceOK, PositionOK, Goto
  <2>2. FlagsOK' BY <1>1 DEF PlaceOK, FlagsOK, Goto
  <2> QED BY <2>1, <2>2 DEF PlaceOK
<1>2. ASSUME NextSource(TRUE) \/ NextSource(FALSE) PROVE PlaceOK'
  <2>1. PositionOK' BY <1>2 DEF PlaceOK, PositionOK, NextSource, Labels
  <2>2. FlagsOK' BY <1>2 DEF PlaceOK, FlagsOK, NextSource
  <2> QED BY <2>1, <2>2 DEF PlaceOK
<1>3. ASSUME NextCrawl(TRUE) \/ NextCrawl(FALSE) PROVE PlaceOK'
  <2>1. PositionOK' BY <1>3 DEF PlaceOK, PositionOK, NextCrawl, Labels
  <2>2. FlagsOK' BY <1>3 DEF PlaceOK, FlagsOK, NextCrawl
  <2> QED BY <2>1, <2>2 DEF PlaceOK
<1>4. ASSUME NextFile PROVE PlaceOK'
  <2>1. PositionOK' BY <1>4 DEF PlaceOK, PositionOK, NextFile, Labels
  <2>2. FlagsOK' BY <1>4 DEF PlaceOK, FlagsOK, NextFile
  <2> QED BY <2>1, <2>2 DEF PlaceOK
<1> QED
  BY <1>1, <1>2, <1>3, <1>4

LEMMA EnterSourceType ==
    ASSUME PlaceOK, EnterSource
    PROVE  PlaceOK'
BY PlaceType DEF EnterSource, Labels

LEMMA ProcessEndsType ==
    ASSUME ProcessTypeOK, cache' \in [File -> {"none", "good", "bad"}],
           ProcessEnds("clean") \/ ProcessEnds("warning") \/ ProcessEnds("crashed")
    PROVE  ProcessTypeOK'
<1>1. PositionOK'
  BY DEF ProcessEnds, PositionOK, Labels
<1>2. FlagsOK'
  BY DEF ProcessEnds, FlagsOK
<1> QED
  BY <1>1, <1>2, NoScanType DEF ProcessEnds, ProcessTypeOK

LEMMA BeginScanType ==
    ASSUME ProcessTypeOK, NEW body \in {"good", "bad"}, NEW cached \in BOOLEAN,
           BeginScan(body, cached)
    PROVE  scan' \in ScanRecord /\ PlaceOK'
<1>1. scan' = [NoScan EXCEPT !.attempt = scan.attempt, !.body = body, !.cached = cached]
  BY DEF BeginScan
<1>2. scan.attempt \in Nat \ {0}
  BY DEF ProcessTypeOK, ScanRecord
<1>3. scan' \in ScanRecord
  BY <1>1, <1>2, FreshScan
<1> QED
  BY <1>3, PlaceType DEF ProcessTypeOK, PlaceOK, BeginScan, Labels

LEMMA ScanToType ==
    ASSUME ProcessTypeOK,
           \/ ScanTo([scan EXCEPT !.ln = @ + 1])
           \/ ScanTo([scan EXCEPT !.ln = @ + 1, !.hit = TRUE])
    PROVE  scan' \in ScanRecord /\ PlaceOK'
<1>1. scan \in ScanRecord
  BY DEF ProcessTypeOK
<1>3. /\ [scan EXCEPT !.ln = @ + 1] \in ScanRecord
      /\ [scan EXCEPT !.ln = @ + 1, !.hit = TRUE] \in ScanRecord
  BY <1>1, ScanUpdates
<1> QED
  BY <1>3, PlaceType DEF ProcessTypeOK, PlaceOK, ScanTo, Labels

LEMMA RescanType ==
    ASSUME ProcessTypeOK, Rescan, UNCHANGED <<limit, total, last>>
    PROVE  ProcessTypeOK'
<1>1. PlaceOK'
  BY PlaceType DEF ProcessTypeOK, PlaceOK, Rescan, Labels
<1>0. scan.attempt + 1 \in Nat \ {0}
  BY DEF ProcessTypeOK, ScanRecord
<1>4. [NoScan EXCEPT !.attempt = scan.attempt + 1] \in ScanRecord
  BY <1>0, FreshScan
<1>2. scan' \in ScanRecord
  BY <1>4, NoScanType DEF Rescan
<1>3. cache' \in [File -> {"none", "good", "bad"}]
  BY DEF ProcessTypeOK, Rescan
<1> QED
  BY <1>1, <1>2, <1>3 DEF ProcessTypeOK, PlaceOK

LEMMA ProcessTypeStep ==
    ASSUME TypeOK, AtFile, [Next]_vars, StoreTypeOK'
    PROVE  ProcessTypeOK'
<1> USE DEF ProcessTypeOK, PlaceOK
<1>0. ProcessTypeOK /\ Cardinality(rows') \in Nat
  BY RowsAreCounted DEF TypeOK, StoreTypeOK
<1>l. {"source", "crawl", "file", "start", "open", "scan", "complete", "checkpoint",
       "fail", "names", "finish", "crawls", "crtsh"} \subseteq Labels
  BY DEF Labels
<1>1. ASSUME NEW fresh \in BOOLEAN, NEW lim \in Limits, Start(fresh, lim)
      PROVE  ProcessTypeOK'
  <2>1. PositionOK' BY <1>1 DEF Start, PositionOK, Labels
  <2>3. FlagsOK' BY <1>1 DEF Start, FlagsOK
  <2>2. lim \in Nat BY ConstantsAssumption
  <2> QED BY <1>0, <1>1, <2>1, <2>2, <2>3, NoScanType DEF Start
<1>2. ASSUME SourceStep PROVE ProcessTypeOK'
  <2>1. CASE NoMoreSources BY <1>0, <1>l, <2>1, PlaceType DEF NoMoreSources
  <2>2. CASE SelectSource
    <3>1. PlaceOK' BY <1>0, <1>l, <2>2, PlaceType, EnterSourceType DEF SelectSource
    <3> QED BY <1>0, <2>2, <3>1 DEF SelectSource
  <2>3. CASE SelectSourceFails
    <3>1. PositionOK' BY <1>0, <2>3 DEF SelectSourceFails, PositionOK, Labels
    <3>2. FlagsOK' BY <1>0, <2>3 DEF SelectSourceFails, FlagsOK
    <3> QED BY <1>0, <2>3, <3>1, <3>2 DEF SelectSourceFails
  <2>4. CASE Finish
    <3>1. cache' \in [File -> {"none", "good", "bad"}] BY <1>0, <2>4 DEF Finish
    <3> QED BY <1>0, <2>4, <3>1, ProcessEndsType DEF Finish
  <2> QED BY <1>2, <2>1, <2>2, <2>3, <2>4 DEF SourceStep
<1>3. ASSUME CrawlStep PROVE ProcessTypeOK'
  <2>1. CASE StartCrawls
    <3>1. PlaceOK'
      <4>1. CASE LimitIs(total') BY <1>0, <2>1, <4>1, PlaceType DEF StartCrawls
      <4>2. CASE ~LimitIs(total')
        <5>1. PositionOK' BY <1>0, <2>1, <4>2 DEF StartCrawls, PositionOK, Labels
        <5>2. FlagsOK' BY <1>0, <2>1, <4>2 DEF StartCrawls, FlagsOK
        <5> QED BY <5>1, <5>2
      <4> QED BY <4>1, <4>2
    <3> QED BY <1>0, <2>1, <3>1 DEF StartCrawls
  <2>2. CASE StartCrawlsFails BY <1>0, <2>2, PlaceType DEF StartCrawlsFails
  <2>3. CASE NoMoreCrawls BY <1>0, <2>3, PlaceType DEF NoMoreCrawls
  <2>4. CASE PrepareCrawl
    <3>1. PositionOK' BY <1>0, <2>4 DEF PrepareCrawl, PositionOK, Labels
    <3>2. FlagsOK' BY <1>0, <2>4 DEF PrepareCrawl, FlagsOK
    <3> QED BY <1>0, <2>4, <3>1, <3>2 DEF PrepareCrawl
  <2>5. CASE PrepareCrawlFails BY <1>0, <2>5, PlaceType DEF PrepareCrawlFails
  <2> QED BY <1>3, <2>1, <2>2, <2>3, <2>4, <2>5 DEF CrawlStep
<1>4. ASSUME CheckStep PROVE ProcessTypeOK'
  <2>1. CASE NoMoreFiles BY <1>0, <2>1, PlaceType DEF NoMoreFiles
  <2>2. CASE CheckFile BY <1>0, <1>l, <2>2, PlaceType DEF CheckFile
  <2>3. CASE StartFile BY <1>0, <1>l, <2>3, PlaceType DEF StartFile
  <2>4. CASE CheckFileFails BY <1>0, <2>4, PlaceType DEF CheckFileFails
  <2> QED BY <1>4, <2>1, <2>2, <2>3, <2>4 DEF CheckStep
<1>5. ASSUME OpenStep PROVE ProcessTypeOK'
  <2>0. pc = "open" /\ ThisFile \in File
    BY <1>5, FileType DEF OpenStep, OpenCached, Download, OpenStream, OpenFails, FileSteps
  <2>1. CASE OpenCached
    <3>1. cache[ThisFile] \in {"good", "bad"} BY <1>0, <2>0, <2>1 DEF OpenCached
    <3>2. scan' \in ScanRecord /\ PlaceOK'
      BY <1>0, <2>1, <3>1, BeginScanType DEF OpenCached
    <3> QED BY <1>0, <2>1, <3>2 DEF OpenCached
  <2>2. CASE Download
    <3>1. PICK body \in {"good", "bad"} :
                /\ cache' = [cache EXCEPT ![ThisFile] = body]
                /\ BeginScan(body, FALSE)
      BY <2>2 DEF Download
    <3>2. cache' \in [File -> {"none", "good", "bad"}] BY <1>0, <2>0, <3>1
    <3>3. scan' \in ScanRecord /\ PlaceOK' BY <1>0, <3>1, BeginScanType
    <3> QED BY <1>0, <2>2, <3>2, <3>3 DEF Download
  <2>3. CASE OpenStream
    <3>1. PICK body \in {"good", "bad"} : BeginScan(body, FALSE)
      BY <2>3 DEF OpenStream
    <3>2. scan' \in ScanRecord /\ PlaceOK' BY <1>0, <3>1, BeginScanType
    <3> QED BY <1>0, <2>3, <3>2 DEF OpenStream
  <2>4. CASE OpenFails
    BY <1>0, <1>l, <2>4, NoScanType, PlaceType DEF OpenFails
  <2> QED BY <1>5, <2>1, <2>2, <2>3, <2>4 DEF OpenStep
<1>6. ASSUME ScanStep PROVE ProcessTypeOK'
  <2>1. CASE SkipLine
    <3>1. scan' \in ScanRecord /\ PlaceOK' BY <1>0, <2>1, ScanToType DEF SkipLine
    <3> QED BY <1>0, <2>1, <3>1 DEF SkipLine
  <2>2. CASE JunkLine
    <3>1. scan' \in ScanRecord /\ PlaceOK' BY <1>0, <2>2, ScanToType DEF JunkLine
    <3> QED BY <1>0, <2>2, <3>1 DEF JunkLine
  <2>3. CASE AddLine
    <3>1. total' \in Nat BY <1>0, <2>3 DEF AddLine
    <3>2. scan' \in ScanRecord /\ PlaceOK'
      BY <1>0, <2>3, ScanToType, PlaceType, NoScanType DEF AddLine
    <3> QED BY <1>0, <2>3, <3>1, <3>2 DEF AddLine
  <2>4. CASE EndScan
    <3>1. scan' \in ScanRecord BY <1>0, <2>4, ScanUpdates DEF EndScan
    <3>2. PlaceOK' BY <1>0, <1>l, <2>4, PlaceType DEF EndScan
    <3> QED BY <1>0, <2>4, <3>1, <3>2 DEF EndScan
  <2>5. CASE ReadFails BY <1>0, <2>5, RescanType DEF ReadFails
  <2>6. CASE AddLineFails BY <1>0, <2>6, RescanType DEF AddLineFails
  <2> QED BY <1>6, <2>1, <2>2, <2>3, <2>4, <2>5, <2>6 DEF ScanStep
<1>7. ASSUME MarkStep PROVE ProcessTypeOK'
  <2>1. CASE FlushFile BY <1>0, <1>l, <2>1, PlaceType DEF FlushFile
  <2>2. CASE CompleteFile
    <3>1. PlaceOK'
      <4>1. CASE Crawl.mode = "cluster" \/ ((seenCZ \/ scan.hit) /\ scan.passed)
        BY <1>0, <2>2, <4>1, PlaceType DEF CompleteFile, CZEnded
      <4>2. CASE ~(Crawl.mode = "cluster" \/ ((seenCZ \/ scan.hit) /\ scan.passed))
        <5>1. (seenCZ \/ scan.hit) \in BOOLEAN BY <1>0 DEF FlagsOK, ScanRecord
        <5>0. /\ pc' = "file" /\ fi' = fi + 1 /\ seenCZ' = (seenCZ \/ scan.hit)
              /\ UNCHANGED <<si, ci, errs>>
          BY <2>2, <4>2 DEF CompleteFile, CZEnded
        <5>2. PositionOK' BY <1>0, <5>0 DEF PositionOK, Labels
        <5>3. FlagsOK' BY <1>0, <5>0, <5>1 DEF FlagsOK
        <5> QED BY <5>2, <5>3
      <4> QED BY <4>1, <4>2
    <3> QED BY <1>0, <2>2, <3>1, NoScanType DEF CompleteFile
  <2>3. CASE CompleteFileFails
    BY <1>0, <2>3, NoScanType, PlaceType DEF CompleteFileFails
  <2>4. CASE FailFile BY <1>0, <2>4, NoScanType, PlaceType DEF FailFile
  <2> QED BY <1>7, <2>1, <2>2, <2>3, <2>4 DEF MarkStep
<1>8. ASSUME NamesStep PROVE ProcessTypeOK'
  <2> USE DEF LeaveNames
  <2>1. CASE FetchNames
    <3>1. PlaceOK' BY <1>0, <1>l, <2>1, PlaceType DEF FetchNames
    <3> QED BY <1>0, <2>1, <3>1 DEF FetchNames
  <2>2. CASE FetchNamesFails BY <1>0, <2>2, PlaceType DEF FetchNamesFails
  <2>3. CASE AddName
    <3>1. total' \in Nat
      <4>1. total' = total \/ total' = total + 1 BY <2>3, Zenon DEF AddName
      <4> QED BY <1>0, <4>1
    <3>2. NextName => scan' \in ScanRecord /\ PlaceOK'
      BY <1>0, <1>l, PlaceType, ScanUpdates DEF NextName
    <3>3. LeaveNames(FALSE) => scan' \in ScanRecord /\ PlaceOK'
      BY <1>0, NoScanType, PlaceType
    <3>4. scan' \in ScanRecord /\ PlaceOK' BY <2>3, <3>2, <3>3 DEF AddName
    <3> QED BY <1>0, <2>3, <3>1, <3>4 DEF AddName
  <2>4. CASE AddNameFails BY <1>0, <2>4, NoScanType, PlaceType DEF AddNameFails
  <2>5. CASE NoMoreNames BY <1>0, <2>5, NoScanType, PlaceType DEF NoMoreNames
  <2> QED BY <1>8, <2>1, <2>2, <2>3, <2>4, <2>5 DEF NamesStep
<1>9. ASSUME Crash PROVE ProcessTypeOK'
  BY <1>0, <1>9, ProcessEndsType DEF Crash
<1>10. ASSUME PowerLoss PROVE ProcessTypeOK'
  <2>1. cache' \in [File -> {"none", "good", "bad"}]
    BY <1>0, <1>10 DEF PowerLoss
  <2> QED BY <1>0, <1>10, <2>1, ProcessEndsType DEF PowerLoss
<1>11. ASSUME UNCHANGED <<processVars, cache>> PROVE ProcessTypeOK'
  <2>1. PositionOK' BY <1>0, <1>11 DEF processVars, PositionOK
  <2>2. FlagsOK' BY <1>0, <1>11 DEF processVars, FlagsOK
  <2> QED BY <1>0, <1>11, <2>1, <2>2 DEF processVars
<1> QED
  BY <1>1, <1>2, <1>3, <1>4, <1>5, <1>6, <1>7, <1>8, <1>9, <1>10, <1>11
     DEF Next, StartSome, Run, Sync, vars

----------------------------------------------------------------------------
(* A file is worked on only while it is not completed *)

LEMMA CrawlsLength == Len(Crawls) \in Nat
BY ConstantsAssumption

LEMMA FilesLength ==
    ASSUME ci \in 1..Len(Crawls)
    PROVE  Len(Crawl.files) \in Nat
<1> DEFINE C == [mode : {"cluster", "sequential"}, files : Seq(File)]
<1>1. Crawls \in Seq(C)
  BY ConstantsAssumption
<1>2. Crawls[ci] \in C
  <2> HIDE DEF C
  <2> QED BY <1>1
<1> QED
  BY <1>2 DEF Crawl

\* Outside the files there is nothing to show; inside one, the same file stays
\* at hand and its mark does not become "completed".
LEMMA AtFileLeaves ==
    ASSUME pc' \notin FileSteps \cup {"file"}
    PROVE  AtFile'
BY DEF AtFile

LEMMA AtFileStays ==
    ASSUME TypeOK, AtFile, pc \in FileSteps, UNCHANGED <<ci, fi>>,
           UNCHANGED marks \/ Mark(ThisFile, "running")
    PROVE  AtFile'
<1>1. ThisFile \in File /\ ThisFile' = ThisFile
  BY FileType DEF ThisFile, Crawl
<1>2. marks'[ThisFile] # "completed"
  <2>1. CASE UNCHANGED marks BY <2>1 DEF AtFile, BlockComplete
  <2>2. CASE Mark(ThisFile, "running")
    BY <1>1, <2>2 DEF Mark, TypeOK, StoreTypeOK
  <2> QED BY <2>1, <2>2
<1> QED
  BY <1>1, <1>2 DEF AtFile, BlockComplete, Crawl

LEMMA AtFileStep ==
    ASSUME TypeOK, AtFile, [Next]_vars
    PROVE  AtFile'
<1> USE DEF FileSteps
<1>1. ASSUME StartSome PROVE AtFile'
  BY <1>1, AtFileLeaves DEF StartSome, Start
<1>2. ASSUME SourceStep PROVE AtFile'
  <2>1. pc' \notin FileSteps \cup {"file"}
    BY <1>2 DEF SourceStep, NoMoreSources, SelectSource, SelectSourceFails, Finish,
                EnterSource, Goto, NextSource, ProcessEnds
  <2> QED BY <2>1, AtFileLeaves
<1>3. ASSUME CrawlStep PROVE AtFile'
  <2>1. CASE PrepareCrawl
    <3>1. ci \in 1..Len(Crawls)
      BY <2>1, CrawlsLength DEF PrepareCrawl, TypeOK, ProcessTypeOK, PositionOK
    <3> QED BY <2>1, <3>1 DEF PrepareCrawl, AtFile
  <2>2. CASE ~PrepareCrawl
    <3>1. pc' \notin FileSteps \cup {"file"}
      BY <1>3, <2>2 DEF CrawlStep, StartCrawls, StartCrawlsFails, NoMoreCrawls,
                        PrepareCrawlFails, NextSource, NextCrawl
    <3> QED BY <3>1, AtFileLeaves
  <2> QED BY <2>1, <2>2
<1>4. ASSUME CheckStep PROVE AtFile'
  <2>1. CASE CheckFile
    <3>1. ci \in 1..Len(Crawls) BY <2>1 DEF CheckFile, AtFile
    <3>2. fi \in 1..Len(Crawl.files)
      BY <2>1, <3>1, FilesLength DEF CheckFile, TypeOK, ProcessTypeOK, PositionOK
    <3>3. CASE BlockComplete(ThisFile)
      BY <2>1, <3>1, <3>3 DEF CheckFile, NextFile, AtFile
    <3>4. CASE ~BlockComplete(ThisFile)
      BY <2>1, <3>1, <3>2, <3>4 DEF CheckFile, Goto, AtFile, ThisFile, Crawl, BlockComplete
    <3> QED BY <3>3, <3>4
  <2>2. CASE StartFile BY <2>2, AtFileStays DEF StartFile, Goto
  <2>3. CASE NoMoreFiles BY <2>3, AtFileLeaves DEF NoMoreFiles, NextCrawl
  <2>4. CASE CheckFileFails BY <2>4, AtFileLeaves DEF CheckFileFails, NextCrawl
  <2> QED BY <1>4, <2>1, <2>2, <2>3, <2>4 DEF CheckStep
<1>5. ASSUME OpenStep PROVE AtFile'
  <2>1. pc \in FileSteps /\ UNCHANGED <<ci, fi, marks>>
    BY <1>5 DEF OpenStep, OpenCached, Download, OpenStream, OpenFails, BeginScan, Goto,
                storeVars
  <2> QED BY <2>1, AtFileStays
<1>6. ASSUME ScanStep PROVE AtFile'
  <2>1. CASE AddLine
    <3>1. CASE NextSource(FALSE) BY <3>1, AtFileLeaves DEF NextSource
    <3>2. CASE ~NextSource(FALSE)
      <4>1. pc \in FileSteps /\ UNCHANGED <<ci, fi, marks>>
        BY <2>1, <3>2 DEF AddLine, ScanTo, Goto, AddDomain
      <4> QED BY <4>1, AtFileStays
    <3> QED BY <3>1, <3>2
  <2>2. CASE ~AddLine
    <3>1. pc \in FileSteps /\ UNCHANGED <<ci, fi>>
      BY <1>6, <2>2 DEF ScanStep, SkipLine, JunkLine, EndScan, ReadFails, AddLineFails,
              ScanTo, Rescan, Goto
    <3>2. UNCHANGED marks
      <4>1. CASE AddLineFails BY <4>1, AddDomainFailsShape DEF AddLineFails
      <4>2. CASE ~AddLineFails
        BY <1>6, <2>2, <4>2 DEF ScanStep, SkipLine, JunkLine, EndScan, ReadFails, storeVars
      <4> QED BY <4>1, <4>2
    <3> QED BY <3>1, <3>2, AtFileStays
  <2> QED BY <2>1, <2>2
<1>7. ASSUME MarkStep PROVE AtFile'
  <2>1. CASE FlushFile BY <2>1, AtFileStays DEF FlushFile, Goto
  <2>2. CASE CompleteFile
    <3>1. CASE pc' = "crawl" BY <3>1, AtFileLeaves
    <3>2. CASE pc' # "crawl"
      <4>1. pc' = "file" /\ ci' = ci
        BY <2>2, <3>2 DEF CompleteFile, NextFile, NextCrawl
      <4> QED BY <2>2, <4>1 DEF AtFile, CompleteFile
    <3> QED BY <3>1, <3>2
  <2>3. CASE CompleteFileFails BY <2>3, AtFileLeaves DEF CompleteFileFails, NextCrawl
  <2>4. CASE FailFile BY <2>4, AtFileLeaves DEF FailFile, NextCrawl
  <2> QED BY <1>7, <2>1, <2>2, <2>3, <2>4 DEF MarkStep
<1>8. ASSUME NamesStep PROVE AtFile'
  <2>1. pc' \notin FileSteps \cup {"file"}
    <3>1. CASE AddName
      <4>1. NextName \/ LeaveNames(FALSE) BY <3>1, Zenon DEF AddName
      <4> QED BY <4>1 DEF NextName, LeaveNames, NextSource, Goto
    <3>2. CASE ~AddName
      BY <1>8, <3>2 DEF NamesStep, FetchNames, FetchNamesFails, AddNameFails,
                        NoMoreNames, LeaveNames, NextSource, Goto
    <3> QED BY <3>1, <3>2
  <2> QED BY <2>1, AtFileLeaves
<1>9. ASSUME Crash \/ PowerLoss PROVE AtFile'
  BY <1>9, AtFileLeaves DEF Crash, PowerLoss, ProcessEnds
<1>10. ASSUME UNCHANGED <<pc, ci, fi, marks>> PROVE AtFile'
  BY <1>10 DEF AtFile, ThisFile, Crawl, BlockComplete
<1>11. ASSUME Sync \/ UNCHANGED vars PROVE UNCHANGED <<pc, ci, fi, marks>>
  BY <1>11 DEF Sync, WalSync, processVars, vars, storeVars
<1> QED
  BY <1>1, <1>2, <1>3, <1>4, <1>5, <1>6, <1>7, <1>8, <1>9, <1>10, <1>11 DEF Next, Run

----------------------------------------------------------------------------
(* What a step can do to the two tables *)

\* A run adds rows and marks a file it works on; only completing a file makes a
\* mark "completed".
Grows ==
    /\ rows \subseteq rows'
    /\ disk' = disk
    /\ \/ marks' = marks
       \/ /\ pc \in FileSteps
          /\ Mark(ThisFile, "running") \/ Mark(ThisFile, "failed")

LEMMA StepShape ==
    ASSUME Next
    PROVE  \/ Grows
           \/ CompleteFile
           \/ StartSome
           \/ PowerLoss
           \/ Sync
<1> USE DEF Grows, FlushCommits, FlushFails, StoreCallFails, txVars, storeVars
<1>1. ASSUME SourceStep PROVE Grows
  BY <1>1 DEF SourceStep, NoMoreSources, SelectSource, SelectSourceFails, Finish
<1>2. ASSUME CrawlStep PROVE Grows
  BY <1>2 DEF CrawlStep, StartCrawls, StartCrawlsFails, NoMoreCrawls, PrepareCrawl,
              PrepareCrawlFails
<1>3. ASSUME CheckStep PROVE Grows
  BY <1>3 DEF CheckStep, NoMoreFiles, CheckFile, StartFile, CheckFileFails, FileSteps
<1>4. ASSUME OpenStep PROVE Grows
  BY <1>4 DEF OpenStep, OpenCached, Download, OpenStream, OpenFails
<1>5. ASSUME ScanStep PROVE Grows
  <2>1. CASE AddLineFails BY <2>1, AddDomainFailsShape DEF AddLineFails
  <2>2. CASE ~AddLineFails
    BY <1>5, <2>2 DEF ScanStep, SkipLine, JunkLine, AddLine, EndScan, ReadFails, AddDomain
  <2> QED BY <2>1, <2>2
<1>6. ASSUME MarkStep PROVE Grows \/ CompleteFile
  BY <1>6 DEF MarkStep, FlushFile, CompleteFileFails, FailFile, FileSteps
<1>7. ASSUME NamesStep PROVE Grows
  <2>1. CASE AddName
    <3>1. UNCHANGED storeVars \/ \E d : AddDomain(d) BY <2>1, Zenon DEF AddName
    <3> QED BY <3>1 DEF AddDomain
  <2>2. CASE AddNameFails BY <2>2, AddDomainFailsShape DEF AddNameFails
  <2>3. CASE ~AddName /\ ~AddNameFails
    BY <1>7, <2>3 DEF NamesStep, FetchNames, FetchNamesFails, NoMoreNames
  <2> QED BY <2>1, <2>2, <2>3
<1>8. ASSUME Crash PROVE Grows
  BY <1>8 DEF Crash
<1> QED
  BY <1>1, <1>2, <1>3, <1>4, <1>5, <1>6, <1>7, <1>8 DEF Next, Run

----------------------------------------------------------------------------
(* The lines already read are kept *)

LEMMA ScanKeptStep ==
    ASSUME TypeOK, AtFile, ScanKept, [Next]_vars
    PROVE  ScanKept'
<1>0. ASSUME pc' \notin {"scan", "complete", "checkpoint"} PROVE ScanKept'
  BY <1>0 DEF ScanKept
<1>1. ASSUME pc \in FileSteps, UNCHANGED <<ci, fi>>
      PROVE  ThisFile \in File /\ ThisFile' = ThisFile
  BY <1>1, FileType DEF ThisFile, Crawl
<1>2. CASE StartSome \/ SourceStep \/ CrawlStep \/ CheckStep
  <2>1. pc' \notin {"scan", "complete", "checkpoint"}
    BY <1>2 DEF StartSome, Start, SourceStep, NoMoreSources, SelectSource, EnterSource,
       SelectSourceFails, Finish, CrawlStep, StartCrawls, StartCrawlsFails, NoMoreCrawls,
       PrepareCrawl, PrepareCrawlFails, CheckStep, NoMoreFiles, CheckFile, StartFile,
       CheckFileFails, Goto, NextSource, NextCrawl, NextFile, ProcessEnds
  <2> QED BY <2>1, <1>0
<1>3. CASE OpenStep
  <2>1. CASE OpenFails BY <1>0, <2>1 DEF OpenFails, Goto
  <2>2. CASE ~OpenFails
    <3>1. PICK body, cached : BeginScan(body, cached)
      BY <1>3, <2>2 DEF OpenStep, OpenCached, Download, OpenStream
    <3>2. pc = "open" BY <1>3 DEF OpenStep, OpenCached, Download, OpenStream, OpenFails
    <3>3. pc' = "scan" /\ scan'.ln = 1 /\ ThisFile' = ThisFile /\ ThisFile \in File
      BY <1>1, <3>1, <3>2 DEF BeginScan, Goto, NoScan, FileSteps
    <3>4. DomainsBefore(ThisFile', scan'.ln) = {} BY <3>3, NothingBefore
    <3> QED BY <3>3, <3>4 DEF ScanKept
  <2> QED BY <2>1, <2>2
<1>4. ASSUME pc = "scan" /\ AtLine
      PROVE  /\ ThisFile \in File /\ scan.ln \in 1..Len(Lines[ThisFile])
             /\ scan.ln \in Nat \ {0}
  <2>1. ThisFile \in File BY <1>4, FileType DEF FileSteps
  <2>2. scan.ln \in Nat \ {0} BY DEF TypeOK, ProcessTypeOK, ScanRecord
  <2> QED BY <1>4, <2>1, <2>2, LengthType DEF AtLine
<1>5. ASSUME ScanTo([scan EXCEPT !.ln = @ + 1]) \/ ScanTo([scan EXCEPT !.ln = @ + 1, !.hit = TRUE]),
             pc = "scan" /\ AtLine,
             rows \cup txRows \subseteq rows' \cup txRows',
             Line.class = "cz" => Line.domain \in rows' \cup txRows' \cup {NoDomain}
      PROVE  ScanKept'
  <2>1. pc' = "scan" /\ ThisFile' = ThisFile
    BY <1>1, <1>5 DEF ScanTo, Goto, FileSteps
  <2>2. scan'.ln = scan.ln + 1
    BY <1>5 DEF ScanTo, TypeOK, ProcessTypeOK, ScanRecord
  <2>3. DomainsBefore(ThisFile, scan.ln) \subseteq rows' \cup txRows'
    BY <1>5 DEF ScanKept
  <2>4. DomainsBefore(ThisFile, scan.ln + 1) \subseteq rows' \cup txRows'
    BY <1>4, <1>5, <2>3, OneMoreLine DEF Line
  <2> QED BY <2>1, <2>2, <2>4 DEF ScanKept
<1>6. CASE ScanStep
  <2>1. CASE SkipLine
    BY <1>5, <2>1 DEF SkipLine, storeVars
  <2>2. CASE JunkLine
    BY <1>5, <2>2 DEF JunkLine, storeVars
  <2>3. CASE AddLine
    <3>1. CASE NextSource(FALSE) BY <1>0, <3>1 DEF NextSource
    <3>2. CASE ~NextSource(FALSE)
      <4>1. ScanTo([scan EXCEPT !.ln = @ + 1, !.hit = TRUE]) BY <2>3, <3>2 DEF AddLine
      <4>2. /\ rows \cup txRows \subseteq rows' \cup txRows'
            /\ Line.domain \in rows' \cup txRows'
        BY <2>3 DEF AddLine, AddDomain
      <4> QED BY <1>5, <2>3, <4>1, <4>2 DEF AddLine
    <3> QED BY <3>1, <3>2
  <2>4. CASE EndScan
    <3>1. /\ pc = "scan" /\ pc' = "complete" /\ ThisFile' = ThisFile /\ ThisFile \in File
          /\ rows' = rows /\ txRows' = txRows
      BY <1>1, <2>4 DEF EndScan, Goto, FileSteps, storeVars
    <3>2. DomainsOf(ThisFile) \subseteq DomainsBefore(ThisFile, scan.ln)
      <4>1. CASE AtLine
        BY <1>4, <2>4, <3>1, <4>1, AtAbove DEF EndScan, Line
      <4>2. CASE ~AtLine
        <5>1. scan.ln \in Nat BY DEF TypeOK, ProcessTypeOK, ScanRecord
        <5> QED BY <3>1, <4>2, <5>1, AtEnd DEF AtLine
      <4> QED BY <4>1, <4>2
    <3> QED BY <3>1, <3>2 DEF ScanKept
  <2>5. CASE ReadFails \/ AddLineFails
    BY <1>0, <2>5 DEF ReadFails, AddLineFails, Rescan, Goto
  <2> QED BY <1>6, <2>1, <2>2, <2>3, <2>4, <2>5 DEF ScanStep
<1>7. CASE MarkStep
  <2>1. CASE FlushFile
    <3>1. /\ pc = "complete" /\ pc' = "checkpoint" /\ ThisFile' = ThisFile
          /\ rows' = rows \cup txRows
      BY <1>1, <2>1 DEF FlushFile, Goto, FileSteps, FlushCommits
    <3> QED BY <3>1 DEF ScanKept
  <2>2. CASE CompleteFile \/ CompleteFileFails \/ FailFile
    BY <1>0, <2>2 DEF CompleteFile, CompleteFileFails, FailFile, NextFile, NextCrawl
  <2> QED BY <1>7, <2>1, <2>2 DEF MarkStep
<1>8. CASE NamesStep
  <2>1. pc' \notin {"scan", "complete", "checkpoint"}
    <3>1. CASE AddName
      <4>1. NextName \/ LeaveNames(FALSE) BY <3>1, Zenon DEF AddName
      <4> QED BY <4>1 DEF NextName, LeaveNames, NextSource, Goto
    <3>2. CASE ~AddName
      BY <1>8, <3>2 DEF NamesStep, FetchNames, FetchNamesFails, AddNameFails,
                        NoMoreNames, LeaveNames, NextSource, Goto
    <3> QED BY <3>1, <3>2
  <2> QED BY <2>1, <1>0
<1>9. CASE Crash \/ PowerLoss
  BY <1>0, <1>9 DEF Crash, PowerLoss, ProcessEnds
<1>10. CASE Sync \/ UNCHANGED vars
  <2>1. UNCHANGED <<pc, ci, fi, scan, rows, txRows>>
    BY <1>10 DEF Sync, WalSync, txVars, processVars, vars, storeVars
  <2> QED BY <2>1 DEF ScanKept, ThisFile, Crawl
<1> QED
  BY <1>2, <1>3, <1>6, <1>7, <1>8, <1>9, <1>10 DEF Next, Run

----------------------------------------------------------------------------
(* Checkpoints are sound *)

Sound == CheckpointSound /\ DiskCheckpointSound

LEMMA SoundStep ==
    ASSUME TypeOK, AtFile, ScanKept, Sound, [Next]_vars
    PROVE  Sound'
<1> USE DEF Sound, CheckpointSound, DiskCheckpointSound
<1>1. CASE Grows
  <2>1. ASSUME NEW f \in File, marks'[f] = "completed"
        PROVE  marks[f] = "completed"
    BY <1>1, <2>1 DEF Grows, Mark, TypeOK, StoreTypeOK
  <2> QED BY <1>1, <2>1 DEF Grows
<1>2. CASE CompleteFile
  <2>1. DomainsOf(ThisFile) \subseteq rows /\ rows' = rows /\ disk' = disk
    BY <1>2 DEF CompleteFile, ScanKept
  <2>2. ASSUME NEW f \in File, marks'[f] = "completed", f # ThisFile
        PROVE  marks[f] = "completed"
    BY <1>2, <2>2 DEF CompleteFile, Mark, TypeOK, StoreTypeOK
  <2> QED BY <2>1, <2>2
<1>3. CASE StartSome
  <2>1. PICK fresh \in BOOLEAN : Open(fresh) BY <1>3 DEF StartSome, Start
  <2>2. CASE fresh
    <3>1. marks' = NoMarks /\ disk' = [rows |-> {}, marks |-> NoMarks]
      BY <2>1, <2>2 DEF Open
    <3>2. \A f \in File : NoMarks[f] # "completed" BY DEF NoMarks
    <3> QED BY <3>1, <3>2
  <2>3. CASE ~fresh BY <2>1, <2>3 DEF Open
  <2> QED BY <2>2, <2>3
<1>4. CASE PowerLoss
  BY <1>4 DEF PowerLoss, LosePower
<1>5. CASE Sync
  BY <1>5 DEF Sync, WalSync
<1>6. CASE UNCHANGED vars
  BY <1>6 DEF vars, storeVars
<1> QED
  BY <1>1, <1>2, <1>3, <1>4, <1>5, <1>6, StepShape

LEMMA DiskBehindStep ==
    ASSUME TypeOK, AtFile, DiskBehind, [Next]_vars
    PROVE  DiskBehind'
<1> USE DEF DiskBehind, BlockComplete
<1>0. marks \in [File -> Status]
  BY DEF TypeOK, StoreTypeOK
<1>1. CASE Grows
  <2>1. ASSUME NEW f \in File, marks[f] = "completed"
        PROVE  marks'[f] = "completed"
    <3>1. CASE marks' = marks BY <2>1, <3>1
    <3>2. CASE marks' # marks
      <4>1. pc \in FileSteps /\ (Mark(ThisFile, "running") \/ Mark(ThisFile, "failed"))
        BY <1>1, <3>2 DEF Grows
      <4>2. marks[ThisFile] # "completed" BY <4>1 DEF AtFile
      <4> QED BY <1>0, <2>1, <4>1, <4>2 DEF Mark
    <3> QED BY <3>1, <3>2
  <2> QED BY <1>1, <2>1 DEF Grows
<1>2. CASE CompleteFile
  <2>1. rows' = rows /\ disk' = disk BY <1>2 DEF CompleteFile
  <2>2. ASSUME NEW f \in File, marks[f] = "completed"
        PROVE  marks'[f] = "completed"
    BY <1>0, <1>2, <2>2 DEF CompleteFile, Mark
  <2> QED BY <2>1, <2>2
<1>3. CASE StartSome
  <2>1. PICK fresh \in BOOLEAN : Open(fresh) BY <1>3 DEF StartSome, Start
  <2>2. CASE fresh
    <3>1. /\ rows' = {} /\ marks' = NoMarks
          /\ disk' = [rows |-> {}, marks |-> NoMarks]
      BY <2>1, <2>2 DEF Open
    <3> QED BY <3>1
  <2>3. CASE ~fresh BY <2>1, <2>3 DEF Open
  <2> QED BY <2>2, <2>3
<1>4. CASE PowerLoss
  BY <1>4 DEF PowerLoss, LosePower
<1>5. CASE Sync
  BY <1>5 DEF Sync, WalSync
<1>6. CASE UNCHANGED vars
  BY <1>6 DEF vars, storeVars
<1> QED
  BY <1>1, <1>2, <1>3, <1>4, <1>5, <1>6, StepShape

\* The inductive invariant: a checkpoint is written only in a state where
\* ScanKept says that the rows of its file are committed.
DiscoveryInv == TypeOK /\ LossWindow /\ AtFile /\ ScanKept /\ Sound /\ DiskBehind

LEMMA DiscoveryInvInit == Init => DiscoveryInv
<1> SUFFICES ASSUME Init PROVE DiscoveryInv
  OBVIOUS
<1>1. StoreTypeOK /\ LossWindow
  BY StoreInvInit DEF Init, StoreInv
<1>2. ProcessTypeOK
  <2>1. PositionOK BY DEF Init, PositionOK, Labels
  <2>2. FlagsOK BY DEF Init, FlagsOK
  <2> QED BY <2>1, <2>2, NoScanType DEF Init, ProcessTypeOK
<1>3. AtFile /\ ScanKept
  BY DEF Init, AtFile, ScanKept, FileSteps
<1>4. Sound
  <2>1. \A f \in File : NoMarks[f] # "completed" BY DEF NoMarks
  <2> QED BY <2>1 DEF Init, StoreInit, Sound, CheckpointSound, DiskCheckpointSound
<1>5. DiskBehind
  BY DEF Init, StoreInit, DiskBehind, BlockComplete
<1> QED
  BY <1>1, <1>2, <1>3, <1>4, <1>5 DEF DiscoveryInv, TypeOK

LEMMA DiscoveryInvStep == DiscoveryInv /\ [Next]_vars => DiscoveryInv'
<1> SUFFICES ASSUME DiscoveryInv, [Next]_vars PROVE DiscoveryInv'
  OBVIOUS
<1> USE DEF DiscoveryInv
<1>1. [StoreNext]_storeVars
  BY StoreStep
<1>2. StoreTypeOK' /\ LossWindow'
  BY <1>1, StoreTypeStep, LossWindowStep DEF StoreInv, TypeOK
<1>3. TypeOK'
  BY <1>2, ProcessTypeStep DEF TypeOK
<1> QED
  BY <1>2, <1>3, AtFileStep, ScanKeptStep, SoundStep, DiskBehindStep

LEMMA DiscoveryInvariance == Spec => []DiscoveryInv
BY DiscoveryInvInit, DiscoveryInvStep, PTL DEF Spec

\* Every variable of the store and of the process keeps its type, for every
\* choice of the constants.
THEOREM TypeCorrect == Spec => []TypeOK
<1>1. DiscoveryInv => TypeOK BY DEF DiscoveryInv
<1> QED BY <1>1, DiscoveryInvariance, PTL

\* A file marked completed (MarkBlockCompleted) has all its domains committed,
\* whatever crashed, failed or was lost before.
THEOREM CheckpointsAreSound == Spec => []CheckpointSound
<1>1. DiscoveryInv => CheckpointSound BY DEF DiscoveryInv, Sound
<1> QED BY <1>1, DiscoveryInvariance, PTL

\* The same of the part of the database a power loss would leave.
THEOREM DiskCheckpointsAreSound == Spec => []DiskCheckpointSound
<1>1. DiscoveryInv => DiskCheckpointSound BY DEF DiscoveryInv, Sound
<1> QED BY <1>1, DiscoveryInvariance, PTL

\* Discovery uses the store only through its operations, so what holds of the
\* store under any client holds here: a crash loses less than a batch.
THEOREM CrashLosesLessThanABatch == Spec => []LossWindow
<1>1. DiscoveryInv => LossWindow BY DEF DiscoveryInv
<1> QED BY <1>1, DiscoveryInvariance, PTL

\* The domains of the lines already read are in the table or in the transaction that
\* the checkpoint will commit first (addCDXDomain, MarkBlockCompleted).
THEOREM ScanKeepsDomains == Spec => []ScanKept
<1>1. DiscoveryInv => ScanKept BY DEF DiscoveryInv
<1> QED BY <1>1, DiscoveryInvariance, PTL

----------------------------------------------------------------------------
(* Cached files and recorded failures *)

\* What is scanned as a cached copy is the copy in the cache.
ScanReadsCache == pc = "scan" /\ scan.cached => cache[ThisFile] = scan.body

LEMMA ScanReadsCacheStep ==
    ASSUME TypeOK, ScanReadsCache, [Next]_vars
    PROVE  ScanReadsCache'
<1>0. scan \in ScanRecord
  BY DEF TypeOK, ProcessTypeOK
<1>1. ASSUME pc' # "scan" PROVE ScanReadsCache'
  BY <1>1 DEF ScanReadsCache
<1>2. ASSUME UNCHANGED <<ci, fi, cache>>, pc = "scan",
             scan'.cached = scan.cached, scan'.body = scan.body
      PROVE  ScanReadsCache'
  BY <1>2 DEF ScanReadsCache, ThisFile, Crawl
<1>3. ASSUME ~scan'.cached PROVE ScanReadsCache'
  BY <1>3 DEF ScanReadsCache
<1>4. CASE OpenStep
  <2>1. CASE OpenCached
    <3>1. UNCHANGED <<ci, fi, cache>> /\ scan'.body = cache[ThisFile]
      BY <2>1 DEF OpenCached, BeginScan, Goto, NoScan
    <3> QED BY <3>1 DEF ScanReadsCache, ThisFile, Crawl
  <2>2. CASE Download \/ OpenStream
    <3>1. PICK body : BeginScan(body, FALSE) BY <2>2, Zenon DEF Download, OpenStream
    <3>2. scan'.cached = FALSE BY <3>1 DEF BeginScan, NoScan
    <3> QED BY <1>3, <3>2
  <2>3. CASE OpenFails BY <1>1, <2>3 DEF OpenFails, Goto
  <2> QED BY <1>4, <2>1, <2>2, <2>3 DEF OpenStep
<1>5. CASE ScanStep
  <2>1. CASE SkipLine \/ JunkLine
    <3>1. pc = "scan" /\ UNCHANGED <<ci, fi, cache>>
      BY <2>1 DEF SkipLine, JunkLine, ScanTo, Goto
    <3>2. scan'.cached = scan.cached /\ scan'.body = scan.body
      BY <1>0, <2>1 DEF SkipLine, JunkLine, ScanTo, ScanRecord
    <3> QED BY <1>2, <3>1, <3>2
  <2>2. CASE AddLine
    <3>1. CASE pc' = "source" BY <1>1, <3>1
    <3>2. CASE pc' # "source"
      <4>1. ScanTo([scan EXCEPT !.ln = @ + 1, !.hit = TRUE]) /\ pc = "scan" /\ UNCHANGED cache
        BY <2>2, <3>2 DEF AddLine, NextSource
      <4>2. scan'.cached = scan.cached /\ scan'.body = scan.body
        BY <1>0, <4>1 DEF ScanTo, ScanRecord
      <4> QED BY <1>2, <4>1, <4>2 DEF ScanTo, Goto
    <3> QED BY <3>1, <3>2
  <2>3. CASE EndScan \/ ReadFails \/ AddLineFails
    BY <1>1, <2>3 DEF EndScan, ReadFails, AddLineFails, Rescan, Goto
  <2> QED BY <1>5, <2>1, <2>2, <2>3 DEF ScanStep
<1>6. CASE StartSome \/ Crash \/ PowerLoss
  BY <1>1, <1>6 DEF StartSome, Start, Crash, PowerLoss, ProcessEnds
<1>7. CASE SourceStep \/ CrawlStep
  <2>1. pc' # "scan"
    BY <1>7 DEF SourceStep, NoMoreSources, SelectSource, SelectSourceFails, Finish, EnterSource,
       Goto, NextSource, ProcessEnds, CrawlStep, StartCrawls, StartCrawlsFails, NoMoreCrawls,
       PrepareCrawl, PrepareCrawlFails, NextCrawl
  <2> QED BY <1>1, <2>1
<1>8. CASE CheckStep \/ MarkStep
  <2>1. pc' # "scan"
    BY <1>8 DEF CheckStep, NoMoreFiles, CheckFile, StartFile, CheckFileFails, MarkStep, FlushFile,
       CompleteFile, CompleteFileFails, FailFile, Goto, NextCrawl, NextFile
  <2> QED BY <1>1, <2>1
<1>9. CASE NamesStep
  <2>1. pc' # "scan"
    <3>1. CASE AddName
      <4>1. NextName \/ LeaveNames(FALSE) BY <3>1, Zenon DEF AddName
      <4> QED BY <4>1 DEF NextName, LeaveNames, NextSource, Goto
    <3>2. CASE ~AddName
      BY <1>9, <3>2 DEF NamesStep, FetchNames, FetchNamesFails, AddNameFails,
                        NoMoreNames, LeaveNames, NextSource, Goto
    <3> QED BY <3>1, <3>2
  <2> QED BY <1>1, <2>1
<1>10. CASE Sync \/ UNCHANGED vars
  <2>1. UNCHANGED <<pc, ci, fi, scan, cache>>
    BY <1>10 DEF Sync, processVars, vars
  <2> QED BY <2>1 DEF ScanReadsCache, ThisFile, Crawl
<1> QED
  BY <1>4, <1>5, <1>6, <1>7, <1>8, <1>9, <1>10 DEF Next, Run

\* A valid cached copy is deleted only after a failing AddDomain.
LEMMA CacheKeptStep ==
    ASSUME TypeOK, AtFile, ScanReadsCache, [Next]_vars
    PROVE  \A f \in File : cache[f] = "good" => cache'[f] # "none" \/ AddLineFails
<1> SUFFICES ASSUME NEW f \in File, cache[f] = "good", ~AddLineFails
             PROVE  cache'[f] # "none"
  OBVIOUS
<1>0. cache \in [File -> {"none", "good", "bad"}]
  BY DEF TypeOK, ProcessTypeOK
<1>1. CASE Download
  <2>1. PICK body \in {"good", "bad"} : cache' = [cache EXCEPT ![ThisFile] = body]
    BY <1>1 DEF Download
  <2> QED BY <1>0, <2>1
<1>2. CASE ReadFails
  <2>1. CASE UNCHANGED cache BY <2>1
  <2>2. CASE ~UNCHANGED cache
    <3>1. scan.cached /\ scan.body = "bad" /\ pc = "scan"
      BY <1>2, <2>2 DEF ReadFails, Rescan
    <3>2. cache[ThisFile] = "bad"
      BY <3>1 DEF ScanReadsCache
    <3>3. cache' = [cache EXCEPT ![ThisFile] = "none"]
      BY <1>2, <2>2 DEF ReadFails, Rescan
    <3> QED BY <1>0, <3>2, <3>3
  <2> QED BY <2>1, <2>2
<1>3. CASE PowerLoss
  BY <1>3 DEF PowerLoss
<1>4. CASE ~Download /\ ~ReadFails /\ ~PowerLoss
  <2>1. UNCHANGED cache
    <3>1. CASE StartSome \/ Crash \/ Sync \/ UNCHANGED vars
      BY <3>1 DEF StartSome, Start, Crash, Sync, vars
    <3>2. CASE SourceStep \/ CrawlStep
      BY <3>2 DEF SourceStep, NoMoreSources, SelectSource, SelectSourceFails, Finish,
         CrawlStep, StartCrawls, StartCrawlsFails, NoMoreCrawls, PrepareCrawl, PrepareCrawlFails
    <3>3. CASE CheckStep \/ MarkStep
      BY <3>3 DEF CheckStep, NoMoreFiles, CheckFile, StartFile, CheckFileFails, MarkStep,
         FlushFile, CompleteFile, CompleteFileFails, FailFile
    <3>4. CASE OpenStep \/ ScanStep
      BY <1>4, <3>4 DEF OpenStep, OpenCached, OpenStream, OpenFails, ScanStep, SkipLine,
         JunkLine, AddLine, EndScan
    <3>5. CASE NamesStep
      BY <3>5 DEF NamesStep, FetchNames, FetchNamesFails, AddName, AddNameFails, NoMoreNames
    <3> QED BY <1>4, <3>1, <3>2, <3>3, <3>4, <3>5 DEF Next, Run
  <2> QED BY <2>1
<1> QED BY <1>1, <1>2, <1>3, <1>4

\* A valid cached CDX file is never deleted but after a failing insert or output file
\* (scanCommonCrawlClusterCDXFile).
THEOREM CacheIsKept == Spec => CacheKept
<1>1. Init => ScanReadsCache
  BY DEF Init, ScanReadsCache
<1>2. DiscoveryInv /\ ScanReadsCache /\ [Next]_vars => ScanReadsCache'
  BY ScanReadsCacheStep DEF DiscoveryInv
<1>3. DiscoveryInv /\ ScanReadsCache /\ [Next]_vars
        => [\A f \in File : cache[f] = "good" => cache'[f] # "none" \/ AddLineFails]_vars
  BY CacheKeptStep DEF DiscoveryInv
<1> QED
  BY <1>1, <1>2, <1>3, DiscoveryInvariance, PTL DEF Spec, CacheKept

LEMMA FailureRecordedStep ==
    ASSUME TypeOK, AtFile, Next, LeavesFile
    PROVE  \/ marks'[ThisFile] \in {"completed", "failed"}
           \/ LimitIs(total')
           \/ CheckpointRefused
<1>0. marks \in [File -> Status] /\ ThisFile \in File
  BY FileType DEF TypeOK, StoreTypeOK, LeavesFile, AtFile
<1> USE DEF LeavesFile, FileSteps
<1>1. CASE AddLine
  BY <1>1 DEF AddLine, ScanTo, Goto
<1>2. CASE CompleteFile
  BY <1>0, <1>2 DEF CompleteFile, Mark
<1>3. CASE CompleteFileFails
  <2>1. pc \in {"complete", "checkpoint", "fail"} /\ UNCHANGED marks
    BY <1>3 DEF CompleteFileFails
  <2>2. errs' BY <1>3, Zenon DEF CompleteFileFails, NextCrawl
  <2> QED BY <2>1, <2>2 DEF CheckpointRefused
<1>4. CASE FailFile
  <2>1. CASE Mark(ThisFile, "failed") BY <1>0, <2>1 DEF Mark
  <2>2. CASE UNCHANGED marks
    <3>1. errs' BY <1>4, Zenon DEF FailFile, NextCrawl
    <3>2. pc = "fail" BY <1>4 DEF FailFile
    <3> QED BY <2>2, <3>1, <3>2 DEF CheckpointRefused
  <2> QED BY <1>4, <2>1, <2>2 DEF FailFile
<1>5. CASE StartSome \/ Crash \/ PowerLoss \/ Sync
  BY <1>5 DEF StartSome, Start, Crash, PowerLoss, ProcessEnds, Sync, processVars
<1>6. CASE OpenStep
  BY <1>6 DEF OpenStep, OpenCached, Download, OpenStream, OpenFails, BeginScan, Goto
<1>7. CASE ScanStep /\ ~AddLine
  BY <1>7 DEF ScanStep, SkipLine, JunkLine, EndScan, ReadFails, AddLineFails, ScanTo, Rescan, Goto
<1>8. CASE FlushFile
  BY <1>8 DEF FlushFile, Goto
<1>9. CASE SourceStep \/ CrawlStep
  BY <1>9 DEF SourceStep, NoMoreSources, SelectSource, SelectSourceFails, Finish, EnterSource,
     Goto, NextSource, ProcessEnds, CrawlStep, StartCrawls, StartCrawlsFails, NoMoreCrawls,
     PrepareCrawl, PrepareCrawlFails
<1>10. CASE CheckStep
  BY <1>10 DEF CheckStep, NoMoreFiles, CheckFile, StartFile, CheckFileFails, Goto
<1>11. CASE NamesStep
  BY <1>11 DEF NamesStep, FetchNames, FetchNamesFails, AddName, AddNameFails, NoMoreNames
<1> QED
  BY <1>1, <1>2, <1>3, <1>4, <1>5, <1>6, <1>7, <1>8, <1>9, <1>10, <1>11 DEF Next, Run, MarkStep

\* A run that goes on after a file has recorded what became of it (MarkBlockCompleted,
\* MarkBlockFailed), unless the limit was reached or the store refused.
THEOREM FailuresAreRecorded == Spec => FailureRecorded
<1>1. DiscoveryInv /\ [Next]_vars
        => [LeavesFile => \/ marks'[ThisFile] \in {"completed", "failed"}
                          \/ LimitIs(total')
                          \/ CheckpointRefused]_vars
  BY FailureRecordedStep DEF DiscoveryInv
<1> QED
  BY <1>1, DiscoveryInvariance, PTL DEF Spec, FailureRecorded

----------------------------------------------------------------------------
(* The running total and the limit *)

\* No insert is lost after the caller has counted it, or made without its knowledge.
EveryRowCounts == Faults \cap {"commit", "sink"} = {}

Found == rows \cup txRows

\* What is found but not committed does not pass the limit.
TotalsInv ==
    /\ TotalIsExact
    /\ pc \in Counting => ~LimitIs(total)
    /\ limit > 0 /\ txRows # {} => Cardinality(Found) <= limit

LimitKept == limit > 0 /\ ~(rows' \subseteq rows) => Cardinality(rows') <= limit

\* A step that finds nothing.
LEMMA TotalsSame ==
    ASSUME TotalsInv,
           \/ UNCHANGED <<rows, txRows>>
           \/ rows' = Found /\ txRows' = {},
           UNCHANGED <<limit, total>>, pc' \in Counting => pc \in Counting
    PROVE  TotalsInv' /\ LimitKept
<1>1. Found' = Found
  BY DEF Found
<1>2. TotalIsExact'
  BY <1>1 DEF TotalsInv, TotalIsExact, Found
<1>3. pc' \in Counting => ~LimitIs(total)'
  BY DEF TotalsInv, LimitIs
<1>4. limit' > 0 /\ txRows' # {} => Cardinality(Found') <= limit'
  BY <1>1 DEF TotalsInv
<1>5. LimitKept
  BY DEF LimitKept, TotalsInv, Found
<1> QED BY <1>2, <1>3, <1>4, <1>5 DEF TotalsInv

\* The rows are counted after a flush.
LEMMA TotalsCounted ==
    ASSUME TotalsInv, FlushCommits, UNCHANGED limit, total' = Cardinality(rows'),
           pc' \in Counting => ~LimitIs(total')
    PROVE  TotalsInv' /\ LimitKept
<1>1. rows' = Found /\ txRows' = {} /\ Found' = rows'
  BY DEF FlushCommits, Found
<1>2. TotalIsExact'
  BY <1>1 DEF TotalIsExact, Found
<1>3. pc' \in Counting => ~LimitIs(total)'
  BY DEF LimitIs
<1>4. LimitKept
  BY <1>1 DEF LimitKept, TotalsInv, Found
<1> QED BY <1>1, <1>2, <1>3, <1>4 DEF TotalsInv

\* The process goes, or comes.
LEMMA TotalsDropped ==
    ASSUME txRows' = {}, rows' \subseteq rows, pc' \notin Counting
    PROVE  TotalsInv' /\ LimitKept
BY DEF TotalsInv, TotalIsExact, LimitKept

\* A domain is added and, if it is new, counted.
LEMMA TotalsAdded ==
    ASSUME TypeOK, TotalsInv, NEW d \in Domain, AddDomain(d), pc \in Counting, UNCHANGED limit,
           total' = IF Inserted(d) THEN total + 1 ELSE total,
           pc' \in Counting => ~(Inserted(d) /\ LimitIs(total'))
    PROVE  TotalsInv' /\ LimitKept
<1>1. /\ Found \in SUBSET Domain /\ rows' \subseteq Found' /\ Found' = Found \cup {d}
      /\ txRows' # {} => txRows' \subseteq Found'
  BY DEF TypeOK, StoreTypeOK, Found, AddDomain, DropTx
<1>2. Cardinality(Found) \in Nat /\ Cardinality(Found') \in Nat /\ IsFiniteSet(Found)
      /\ IsFiniteSet(Found')
  BY <1>1, RowsAreCounted, DomainsFinite, FS_Subset
<1>3. limit \in Nat /\ total = Cardinality(Found) /\ ~LimitIs(total)
  BY DEF TypeOK, ProcessTypeOK, FlagsOK, TotalsInv, TotalIsExact, Found
<1>4. limit > 0 => total + 1 <= limit
  BY <1>2, <1>3 DEF LimitIs
<1>5. CASE Inserted(d)
  <2>1. d \notin Found
    BY <1>5 DEF Inserted, Found
  <2>2. Cardinality(Found') = total + 1 /\ total' = total + 1
    BY <1>1, <1>2, <1>3, <1>5, <2>1, FS_AddElement
  <2>3. limit > 0 => Cardinality(Found') <= limit
    BY <1>4, <2>2
  <2>4. Cardinality(rows') <= Cardinality(Found') /\ Cardinality(rows') \in Nat
    BY <1>1, <1>2, FS_Subset, FS_CardinalityType
  <2>5. LimitKept
    BY <1>2, <1>3, <2>3, <2>4 DEF LimitKept
  <2>6. TotalIsExact'
    BY <2>2 DEF TotalIsExact, Found
  <2>7. pc' \in Counting => ~LimitIs(total)'
    BY <1>5 DEF LimitIs
  <2> QED BY <2>3, <2>5, <2>6, <2>7 DEF TotalsInv
<1>6. CASE ~Inserted(d)
  <2>1. Found' = Found /\ total' = total
    BY <1>1, <1>6 DEF Inserted, Found
  <2>2. TotalIsExact'
    BY <1>3, <2>1 DEF TotalIsExact, Found
  <2>3. pc' \in Counting => ~LimitIs(total)'
    BY <1>3, <2>1 DEF LimitIs
  <2>4. limit > 0 => Cardinality(Found') <= limit
    BY <1>2, <1>3, <1>4, <2>1
  <2>5. Cardinality(rows') <= Cardinality(Found') /\ Cardinality(rows') \in Nat
    BY <1>1, <1>2, FS_Subset, FS_CardinalityType
  <2>6. LimitKept
    BY <1>2, <1>3, <2>4, <2>5 DEF LimitKept
  <2> QED BY <2>2, <2>3, <2>4, <2>6 DEF TotalsInv
<1> QED BY <1>5, <1>6

LEMMA FlushFindsNothing ==
    ASSUME EveryRowCounts,
           FlushCommits \/ StoreCallFails \/ UNCHANGED storeVars
             \/ UNCHANGED <<rows, txVars, disk>>
    PROVE  \/ UNCHANGED <<rows, txRows>>
           \/ rows' = Found /\ txRows' = {}
BY DEF EveryRowCounts, FlushCommits, StoreCallFails, Fault, Found, storeVars, txVars

LEMMA AddDomainFailsFindsNothing ==
    ASSUME EveryRowCounts, NEW d, AddDomainFails(d)
    PROVE  UNCHANGED <<rows, txRows>>
BY DEF EveryRowCounts, AddDomainFails, Fault, BeginFails, InsertFails, storeVars

LEMMA TotalsStep ==
    ASSUME EveryRowCounts, DiscoveryInv, TotalsInv, [Next]_vars
    PROVE  TotalsInv' /\ LimitKept
<1> USE DEF Counting
<1>0. TypeOK /\ ProcessTypeOK /\ AtFile /\ DiskBehind /\ LossWindow
  BY DEF DiscoveryInv, TypeOK
<1> DEFINE Quiet == /\ \/ FlushCommits \/ StoreCallFails \/ UNCHANGED storeVars
                       \/ UNCHANGED <<rows, txVars, disk>>
                    /\ UNCHANGED <<limit, total>>
                    /\ pc' \in Counting => pc \in Counting
<1>1. ASSUME Quiet PROVE TotalsInv' /\ LimitKept
  BY <1>1, FlushFindsNothing, TotalsSame
<1>2. CASE StartSome \/ Crash \/ PowerLoss
  <2>1. txRows' = {} /\ rows' \subseteq rows /\ pc' \notin Counting
    BY <1>0, <1>2 DEF StartSome, Start, Open, Crash, PowerLoss, LosePower, DropTx, ProcessEnds,
       DiskBehind
  <2> QED BY <2>1, TotalsDropped
<1>3. CASE SourceStep
  <2>1. CASE Finish
    <3>1. /\ FlushCommits \/ StoreCallFails
          /\ UNCHANGED limit /\ pc' = "idle"
      BY <2>1 DEF Finish, ProcessEnds
    <3>2. \/ UNCHANGED <<rows, txRows>>
          \/ rows' = Found /\ txRows' = {}
      BY <3>1, FlushFindsNothing
    <3>3. Found' = Found
      BY <3>2 DEF Found
    <3>4. TotalsInv'
      BY <3>1, <3>2, <3>3 DEF TotalsInv, TotalIsExact
    <3>5. LimitKept
      BY <3>2 DEF LimitKept, TotalsInv, Found
    <3> QED BY <3>4, <3>5
  <2>2. CASE NoMoreSources \/ SelectSource \/ SelectSourceFails
    <3>1. Quiet
      BY <2>2 DEF NoMoreSources, SelectSource, SelectSourceFails, EnterSource, Goto, NextSource
    <3> QED BY <1>1, <3>1
  <2> QED BY <1>3, <2>1, <2>2 DEF SourceStep
<1>4. CASE StartCrawls \/ FetchNames
  <2>1. /\ FlushCommits /\ UNCHANGED limit /\ total' = Cardinality(rows')
        /\ pc' \in Counting => ~LimitIs(total')
    BY <1>4 DEF StartCrawls, FetchNames, NextSource, Goto
  <2> QED BY <1>0, <2>1, TotalsCounted
<1>5. CASE StartCrawlsFails \/ NoMoreCrawls \/ PrepareCrawl \/ PrepareCrawlFails
  <2>1. Quiet
    BY <1>5 DEF StartCrawlsFails, NoMoreCrawls, PrepareCrawl, PrepareCrawlFails, NextSource,
       NextCrawl
  <2> QED BY <1>1, <2>1
<1>6. CASE CheckStep
  <2>1. Quiet
    BY <1>6 DEF CheckStep, NoMoreFiles, CheckFile, StartFile, CheckFileFails, NextCrawl, NextFile,
       Goto
  <2> QED BY <1>1, <2>1
<1>7. CASE OpenStep
  <2>1. Quiet
    BY <1>7 DEF OpenStep, OpenCached, Download, OpenStream, OpenFails, BeginScan, Goto
  <2> QED BY <1>1, <2>1
<1>8. CASE ScanStep
  <2>1. CASE AddLine
    <3>1. /\ pc = "scan" /\ UNCHANGED limit
          /\ AddDomain(Line.domain)
          /\ total' = IF Inserted(Line.domain) THEN total + 1 ELSE total
      BY <2>1 DEF AddLine
    <3>2. pc' \in Counting => ~(Inserted(Line.domain) /\ LimitIs(total'))
      BY <2>1 DEF AddLine, NextSource
    <3>3. Line.domain \in Domain
      BY <1>0, <2>1, LineDomainType DEF AddLine
    <3> QED BY <1>0, <3>1, <3>2, <3>3, TotalsAdded
  <2>2. CASE AddLineFails
    <3>1. UNCHANGED <<rows, txRows>>
      BY <2>2, AddDomainFailsFindsNothing DEF AddLineFails
    <3>2. UNCHANGED <<limit, total>> /\ pc = "scan"
      BY <2>2 DEF AddLineFails
    <3> QED BY <3>1, <3>2, TotalsSame
  <2>3. CASE SkipLine \/ JunkLine \/ EndScan \/ ReadFails
    <3>1. Quiet
      BY <2>3 DEF SkipLine, JunkLine, EndScan, ReadFails
    <3> QED BY <1>1, <3>1
  <2> QED BY <1>8, <2>1, <2>2, <2>3 DEF ScanStep
<1>9. CASE MarkStep
  <2>1. Quiet
    <3>1. CASE CompleteFileFails
      BY <3>1 DEF CompleteFileFails, StoreCallFails
    <3>2. CASE FlushFile \/ CompleteFile \/ FailFile
      BY <3>2 DEF FlushFile, CompleteFile, FailFile
    <3> QED BY <1>9, <3>1, <3>2 DEF MarkStep
  <2> QED BY <1>1, <2>1
<1>10. CASE NamesStep
  <2>1. CASE AddName
    <3> DEFINE name == CrtNames[scan.ln]
    <3>1. CASE name = NoDomain
      <4>1. Quiet
        BY <2>1, <3>1 DEF AddName
      <4> QED BY <1>1, <4>1
    <3>2. CASE name # NoDomain
      <4>1. /\ pc = "names" /\ UNCHANGED limit
            /\ AddDomain(name)
            /\ total' = IF Inserted(name) THEN total + 1 ELSE total
        BY <2>1, <3>2 DEF AddName
      <4>2. Inserted(name) /\ LimitIs(total') => LeaveNames(FALSE)
        BY <2>1, <3>2 DEF AddName
      <4>3. pc' \in Counting => ~(Inserted(name) /\ LimitIs(total'))
        BY <4>2 DEF LeaveNames, NextSource
      <4>4. name \in Domain
        BY <1>0, <2>1, <3>2, NameType DEF AddName, ProcessTypeOK, ScanRecord
      <4> HIDE DEF name
      <4> QED BY <1>0, <4>1, <4>3, <4>4, TotalsAdded
    <3> QED BY <3>1, <3>2
  <2>2. CASE AddNameFails
    <3>1. UNCHANGED <<rows, txRows>>
      BY <2>2, AddDomainFailsFindsNothing DEF AddNameFails
    <3>2. UNCHANGED <<limit, total>> /\ pc = "names"
      BY <2>2 DEF AddNameFails
    <3> QED BY <3>1, <3>2, TotalsSame
  <2>3. CASE FetchNamesFails \/ NoMoreNames
    <3>1. Quiet
      BY <2>3 DEF FetchNamesFails, NoMoreNames, LeaveNames, NextSource
    <3> QED BY <1>1, <3>1
  <2> QED BY <1>4, <1>10, <2>1, <2>2, <2>3 DEF NamesStep
<1>11. CASE Sync \/ UNCHANGED vars
  <2>1. UNCHANGED <<rows, txRows, limit, total, pc>>
    BY <1>11 DEF Sync, WalSync, vars, processVars, storeVars, txVars
  <2> QED BY <2>1, TotalsSame
<1> QED
  BY <1>2, <1>3, <1>4, <1>5, <1>6, <1>7, <1>8, <1>9, <1>10, <1>11 DEF Next, Run, CrawlStep

LEMMA TotalsInit == Init => TotalsInv
BY DEF Init, StoreInit, TotalsInv, TotalIsExact, Counting

\* The running total (addCDXDomain, discoverCRTSh) is the number of domains found, as
\* long as no commit fails and the text file can be written.
THEOREM TotalsAreExact ==
    ASSUME EveryRowCounts
    PROVE  Spec => []TotalIsExact
<1>1. DiscoveryInv /\ TotalsInv /\ [Next]_vars => TotalsInv'
  BY TotalsStep
<1>2. TotalsInv => TotalIsExact
  BY DEF TotalsInv
<1> QED
  BY <1>1, <1>2, TotalsInit, DiscoveryInvariance, PTL DEF Spec

\* Then --limit is a maximum: no row is committed that takes the table past it.
THEOREM LimitIsRespected ==
    ASSUME EveryRowCounts
    PROVE  Spec => LimitRespected
<1>1. DiscoveryInv /\ TotalsInv /\ [Next]_vars => TotalsInv'
  BY TotalsStep
<1>2. DiscoveryInv /\ TotalsInv /\ [Next]_vars
        => [limit > 0 /\ ~(rows' \subseteq rows) => Cardinality(rows') <= limit]_vars
  BY TotalsStep DEF LimitKept
<1> QED
  BY <1>1, <1>2, TotalsInit, DiscoveryInvariance, PTL DEF Spec, LimitRespected

----------------------------------------------------------------------------
(* A run that ends without a warning is done *)

\* What has been read is found: the table has reached the limit, or the domains of
\* everything behind the process are found.
Reached == LimitIs(Cardinality(Found))

AtCrawl == {"crawl", "file"} \cup FileSteps

\* The process is at a source of its kind, or past them all.
AtSource ==
    /\ pc \in {"crawls"} \cup AtCrawl => si \in 1..Len(Sources) /\ Sources[si] = "commoncrawl"
    /\ pc \in {"crtsh", "names"} => si \in 1..Len(Sources) /\ Sources[si] = "crtsh"
    /\ pc = "finish" => si > Len(Sources)

SourcesRead == \A i \in 1..Len(Sources) : i < si => SourceDomains(Sources[i]) \subseteq Found
CrawlsRead ==
    pc \in AtCrawl => \A c \in 1..Len(Crawls) : c < ci => CrawlDomains(c) \subseteq Found
FilesRead ==
    pc \in {"file"} \cup FileSteps =>
        \A i \in 1..Len(Crawl.files) : i < fi => DomainsOf(Crawl.files[i]) \subseteq Found
NamesRead ==
    pc = "names" =>
        \A i \in 1..Len(CrtNames) : i < scan.ln => CrtNames[i] \in Found \cup {NoDomain}

ReadSoFar == AtSource /\ SourcesRead /\ CrawlsRead /\ FilesRead /\ NamesRead

\* The locals of the scan are fresh between two files, and know where a file ended.
ScanFresh ==
    /\ pc \notin {"open", "scan", "complete", "checkpoint", "fail", "names"} => scan = NoScan
    /\ scan.passed => /\ pc \in {"complete", "checkpoint"}
                      /\ \E j \in 1..Len(Lines[ThisFile]) : Lines[ThisFile][j].class = "above"

DoneInv ==
    /\ ScanFresh
    /\ pc \in Counting => total <= Cardinality(Found)
    /\ pc # "idle" => errs \/ Reached \/ ReadSoFar
    /\ last = "clean" => pc = "idle"
    /\ CleanRunIsDone

LEMMA DoneInit == Init => DoneInv
BY DEF Init, DoneInv, ScanFresh, NoScan, CleanRunIsDone, Counting

\* A step of a run adds to what is found, as long as no commit fails.
LEMMA FindsMore ==
    ASSUME "commit" \notin Faults, Run
    PROVE  Found \subseteq Found'
<1> USE DEF Found, Fault, FlushCommits, StoreCallFails, storeVars, txVars
<1>1. CASE SourceStep \/ CrawlStep
  BY <1>1 DEF SourceStep, NoMoreSources, SelectSource, SelectSourceFails, Finish, CrawlStep,
     StartCrawls, StartCrawlsFails, NoMoreCrawls, PrepareCrawl, PrepareCrawlFails
<1>2. CASE CheckStep \/ OpenStep
  BY <1>2 DEF CheckStep, NoMoreFiles, CheckFile, StartFile, CheckFileFails, OpenStep, OpenCached,
     Download, OpenStream, OpenFails
<1>3. ASSUME NEW d, AddDomain(d) \/ AddDomainFails(d) PROVE Found \subseteq Found'
  BY <1>3 DEF AddDomain, DropTx, AddDomainFails, BeginFails, InsertFails
<1>4. CASE ScanStep
  BY <1>3, <1>4 DEF ScanStep, SkipLine, JunkLine, AddLine, EndScan, ReadFails, AddLineFails
<1>5. CASE MarkStep
  BY <1>5 DEF MarkStep, FlushFile, CompleteFile, CompleteFileFails, FailFile
<1>6. CASE NamesStep
  <2>1. CASE AddName
    <3>1. UNCHANGED storeVars \/ AddDomain(CrtNames[scan.ln])
      BY <2>1, Zenon DEF AddName
    <3> QED BY <1>3, <3>1
  <2>2. CASE AddNameFails
    BY <1>3, <2>2 DEF AddNameFails
  <2>3. CASE FetchNames \/ FetchNamesFails \/ NoMoreNames
    BY <2>3 DEF FetchNames, FetchNamesFails, NoMoreNames
  <2> QED BY <1>6, <2>1, <2>2, <2>3 DEF NamesStep
<1> QED BY <1>1, <1>2, <1>4, <1>5, <1>6 DEF Run

LEMMA ReachedStays ==
    ASSUME TypeOK, TypeOK', Found \subseteq Found', UNCHANGED limit
    PROVE  /\ Cardinality(Found) \in Nat /\ Cardinality(Found') \in Nat
           /\ Cardinality(Found) <= Cardinality(Found')
           /\ Reached => Reached'
<1>1. Found \in SUBSET Domain /\ Found' \in SUBSET Domain
  BY DEF TypeOK, StoreTypeOK, Found
<1>2. /\ Cardinality(Found) \in Nat /\ Cardinality(Found') \in Nat
      /\ Cardinality(Found) <= Cardinality(Found')
  BY <1>1, RowsAreCounted, DomainsFinite, FS_Subset
<1>3. limit \in Nat
  BY DEF TypeOK, ProcessTypeOK
<1> QED BY <1>2, <1>3 DEF Reached, LimitIs

\* The running total never runs ahead of what is found.
LEMMA TotalStaysBelow ==
    ASSUME TypeOK, TypeOK', Found \subseteq Found', Run,
           pc \in Counting => total <= Cardinality(Found)
    PROVE  /\ pc' \in Counting => total' <= Cardinality(Found')
           /\ (AddLine \/ AddName) => total' <= Cardinality(Found')
<1> USE DEF Counting
<1>1. UNCHANGED limit
  BY DEF Run, SourceStep, NoMoreSources, SelectSource, SelectSourceFails, Finish, ProcessEnds,
     CrawlStep, StartCrawls, StartCrawlsFails, NoMoreCrawls, PrepareCrawl, PrepareCrawlFails,
     CheckStep, NoMoreFiles, CheckFile, StartFile, CheckFileFails, OpenStep, OpenCached,
     Download, OpenStream, OpenFails, ScanStep, SkipLine, JunkLine, AddLine, EndScan, ReadFails,
     AddLineFails, MarkStep, FlushFile, CompleteFile, CompleteFileFails, FailFile,
     NamesStep, FetchNames, FetchNamesFails, AddName, AddNameFails, NoMoreNames
<1>2. /\ Cardinality(Found) \in Nat /\ Cardinality(Found') \in Nat
      /\ Cardinality(Found) <= Cardinality(Found') /\ total \in Nat
  BY <1>1, ReachedStays DEF TypeOK, ProcessTypeOK
<1>3. ASSUME pc \in Counting, UNCHANGED total PROVE total' <= Cardinality(Found')
  BY <1>2, <1>3
<1>4. ASSUME NEW d, pc \in Counting, AddDomain(d),
             total' = IF Inserted(d) THEN total + 1 ELSE total
      PROVE  total' <= Cardinality(Found')
  <2>1. CASE Inserted(d)
    <3>1. d \notin Found /\ Found' = Found \cup {d}
      BY <1>4, <2>1 DEF Inserted, Found, AddDomain, DropTx
    <3>2. IsFiniteSet(Found)
      BY DomainsFinite, FS_Subset DEF TypeOK, StoreTypeOK, Found
    <3>3. Cardinality(Found') = Cardinality(Found) + 1
      BY <3>1, <3>2, FS_AddElement
    <3> QED BY <1>2, <1>4, <2>1, <3>3
  <2>2. CASE ~Inserted(d)
    BY <1>3, <1>4, <2>2
  <2> QED BY <2>1, <2>2
<1>5. ASSUME FlushCommits, total' = Cardinality(rows') PROVE total' <= Cardinality(Found')
  BY <1>2, <1>5 DEF FlushCommits, Found
<1>6. CASE SourceStep
  BY <1>6 DEF SourceStep, NoMoreSources, SelectSource, SelectSourceFails, Finish, EnterSource,
     Goto, NextSource, ProcessEnds, AddLine, AddName
<1>7. CASE CrawlStep
  BY <1>3, <1>5, <1>7 DEF CrawlStep, StartCrawls, StartCrawlsFails, NoMoreCrawls, PrepareCrawl,
     PrepareCrawlFails, NextSource, NextCrawl, AddLine, AddName
<1>8. CASE CheckStep \/ OpenStep
  BY <1>3, <1>8 DEF CheckStep, NoMoreFiles, CheckFile, StartFile, CheckFileFails, OpenStep,
     OpenCached, Download, OpenStream, OpenFails
<1>9. CASE ScanStep
  <2>1. CASE AddLine
    <3>1. /\ pc = "scan" /\ AddDomain(Line.domain)
          /\ total' = IF Inserted(Line.domain) THEN total + 1 ELSE total
      BY <2>1 DEF AddLine
    <3> QED BY <1>4, <3>1
  <2>2. CASE ~AddLine
    BY <1>3, <1>9, <2>2 DEF ScanStep, SkipLine, JunkLine, EndScan, ReadFails, AddLineFails, AddName
  <2> QED BY <2>1, <2>2
<1>10. CASE MarkStep
  BY <1>3, <1>10 DEF MarkStep, FlushFile, CompleteFile, CompleteFileFails, FailFile, AddLine, AddName
<1>11. CASE NamesStep
  <2>1. CASE AddName
    <3>1. CASE CrtNames[scan.ln] = NoDomain
      BY <1>3, <2>1, <3>1 DEF AddName
    <3>2. CASE CrtNames[scan.ln] # NoDomain
      <4> DEFINE name == CrtNames[scan.ln]
      <4>1. /\ pc = "names" /\ AddDomain(name)
            /\ total' = IF Inserted(name) THEN total + 1 ELSE total
        BY <2>1, <3>2 DEF AddName
      <4> HIDE DEF name
      <4> QED BY <1>4, <4>1
    <3> QED BY <3>1, <3>2
  <2>2. CASE FetchNames \/ FetchNamesFails \/ AddNameFails \/ NoMoreNames
    BY <1>3, <1>5, <2>2 DEF FetchNames, FetchNamesFails, AddNameFails, NoMoreNames, LeaveNames,
       NextSource, AddLine, AddName
  <2> QED BY <1>11, <2>1, <2>2 DEF NamesStep
<1> QED BY <1>6, <1>7, <1>8, <1>9, <1>10, <1>11 DEF Run

LEMMA ScanFreshStep ==
    ASSUME TypeOK, AtFile, ScanFresh, Run
    PROVE  ScanFresh'
<1> USE DEF FileSteps
<1>0. ASSUME scan' = NoScan PROVE ScanFresh'
  BY <1>0 DEF ScanFresh, NoScan
<1>1. scan \in ScanRecord
  BY DEF TypeOK, ProcessTypeOK
<1>2. CASE SourceStep \/ CrawlStep
  <2>1. scan' = NoScan
    BY <1>2 DEF SourceStep, NoMoreSources, SelectSource, SelectSourceFails, Finish, ProcessEnds,
       CrawlStep, StartCrawls, StartCrawlsFails, NoMoreCrawls, PrepareCrawl, PrepareCrawlFails,
       ScanFresh
  <2> QED BY <1>0, <2>1
<1>3. CASE CheckStep
  <2>1. scan' = NoScan
    BY <1>3 DEF CheckStep, NoMoreFiles, CheckFile, StartFile, CheckFileFails, ScanFresh
  <2> QED BY <1>0, <2>1
<1>4. ASSUME pc' \in {"open", "scan", "fail"}, ~scan'.passed PROVE ScanFresh'
  BY <1>4 DEF ScanFresh
<1>5. CASE OpenStep
  <2>1. CASE OpenFails
    BY <1>4, <2>1 DEF OpenFails, Goto, NoScan
  <2>2. CASE OpenCached \/ Download \/ OpenStream
    <3>1. PICK body, cached : BeginScan(body, cached)
      BY <2>2 DEF OpenCached, Download, OpenStream
    <3> QED BY <1>4, <3>1 DEF BeginScan, Goto, NoScan
  <2> QED BY <1>5, <2>1, <2>2 DEF OpenStep
<1>6. CASE ScanStep
  <2>1. pc = "scan" /\ ~scan.passed
    BY <1>6 DEF ScanStep, SkipLine, JunkLine, AddLine, EndScan, ReadFails, AddLineFails, ScanFresh
  <2>2. ASSUME ScanTo([scan EXCEPT !.ln = @ + 1]) \/ ScanTo([scan EXCEPT !.ln = @ + 1, !.hit = TRUE])
        PROVE  ScanFresh'
    BY <1>1, <1>4, <2>1, <2>2 DEF ScanTo, Goto, ScanRecord
  <2>3. CASE SkipLine \/ JunkLine
    BY <2>2, <2>3 DEF SkipLine, JunkLine
  <2>4. CASE AddLine
    BY <1>0, <2>2, <2>4 DEF AddLine
  <2>5. CASE EndScan
    <3>1. pc' = "complete" /\ ThisFile' = ThisFile
      BY <2>5 DEF EndScan, Goto, ThisFile, Crawl
    <3>2. CASE AtLine /\ Line.class = "above"
      <4>1. ThisFile \in File /\ scan.ln \in 1..Len(Lines[ThisFile])
        BY <1>1, <2>1, <3>2, FileType, LengthType DEF AtLine, ScanRecord
      <4> QED BY <3>1, <3>2, <4>1 DEF Line, ScanFresh
    <3>3. CASE scan' = scan
      BY <2>1, <3>1, <3>3 DEF ScanFresh
    <3> QED BY <2>5, <3>2, <3>3 DEF EndScan
  <2>6. CASE ReadFails \/ AddLineFails
    BY <1>4, <2>6 DEF ReadFails, AddLineFails, Rescan, Goto, NoScan
  <2> QED BY <1>6, <2>3, <2>4, <2>5, <2>6 DEF ScanStep
<1>7. CASE MarkStep
  <2>1. CASE FlushFile
    BY <2>1 DEF FlushFile, Goto, ScanFresh, ThisFile, Crawl
  <2>2. CASE CompleteFile \/ CompleteFileFails \/ FailFile
    BY <1>0, <2>2 DEF CompleteFile, CompleteFileFails, FailFile
  <2> QED BY <1>7, <2>1, <2>2 DEF MarkStep
<1>8. CASE NamesStep
  <2>1. CASE FetchNames \/ FetchNamesFails
    BY <1>0, <2>1 DEF FetchNames, FetchNamesFails, ScanFresh
  <2>2. CASE AddName
    <3>1. NextName \/ LeaveNames(FALSE)
      BY <2>2, Zenon DEF AddName
    <3>2. pc = "names" /\ ~scan.passed
      BY <2>2 DEF AddName, ScanFresh
    <3> QED BY <1>0, <1>1, <3>1, <3>2 DEF NextName, LeaveNames, Goto, ScanRecord, ScanFresh
  <2>3. CASE AddNameFails \/ NoMoreNames
    BY <1>0, <2>3 DEF AddNameFails, NoMoreNames, LeaveNames
  <2> QED BY <1>8, <2>1, <2>2, <2>3 DEF NamesStep
<1> QED BY <1>2, <1>3, <1>5, <1>6, <1>7, <1>8 DEF Run

\* Four ways to go on, each with what it takes to have read everything behind: inside a
\* file, ...
LEMMA ReadInFile ==
    ASSUME ReadSoFar, Found \subseteq Found', UNCHANGED <<si, ci, fi>>,
           pc \in {"file"} \cup FileSteps, pc' \in {"file"} \cup FileSteps
    PROVE  ReadSoFar'
<1> USE DEF FileSteps, AtCrawl, ReadSoFar
<1>1. AtSource' /\ SourcesRead'
  BY DEF AtSource, SourcesRead
<1>2. CrawlsRead' /\ FilesRead' /\ NamesRead'
  BY DEF CrawlsRead, FilesRead, NamesRead, Crawl
<1> QED BY <1>1, <1>2

\* ... to the next file, ...
LEMMA ReadNextFile ==
    ASSUME TypeOK, ReadSoFar, Found \subseteq Found', UNCHANGED <<si, ci>>, fi' = fi + 1,
           pc \in {"file"} \cup FileSteps, pc' = "file", fi \in 1..Len(Crawl.files),
           DomainsOf(ThisFile) \subseteq Found'
    PROVE  ReadSoFar'
<1> USE DEF FileSteps, AtCrawl, ReadSoFar
<1>1. AtSource' /\ SourcesRead'
  BY DEF AtSource, SourcesRead
<1>2. CrawlsRead' /\ NamesRead'
  BY DEF CrawlsRead, NamesRead
<1>3. FilesRead'
  <2> SUFFICES ASSUME NEW i \in 1..Len(Crawl.files), i < fi + 1
               PROVE  DomainsOf(Crawl.files[i]) \subseteq Found'
    BY DEF FilesRead, Crawl
  <2>1. i < fi \/ i = fi
    BY DEF TypeOK, ProcessTypeOK, PositionOK
  <2> QED BY <2>1 DEF FilesRead, ThisFile
<1> QED BY <1>1, <1>2, <1>3

\* ... to the next crawl, ...
LEMMA ReadNextCrawl ==
    ASSUME TypeOK, ReadSoFar, Found \subseteq Found', NextCrawl(FALSE), pc \in AtCrawl,
           ci \in 1..Len(Crawls), CrawlDomains(ci) \subseteq Found'
    PROVE  ReadSoFar'
<1> USE DEF FileSteps, AtCrawl, ReadSoFar, NextCrawl
<1>1. AtSource' /\ SourcesRead'
  BY DEF AtSource, SourcesRead
<1>2. FilesRead' /\ NamesRead'
  BY DEF FilesRead, NamesRead
<1>3. CrawlsRead'
  <2> SUFFICES ASSUME NEW c \in 1..Len(Crawls), c < ci + 1 PROVE CrawlDomains(c) \subseteq Found'
    BY DEF CrawlsRead
  <2>1. c < ci \/ c = ci
    BY DEF TypeOK, ProcessTypeOK, PositionOK
  <2> QED BY <2>1 DEF CrawlsRead
<1> QED BY <1>1, <1>2, <1>3

\* ... and to the next source.
LEMMA ReadNextSource ==
    ASSUME TypeOK, ReadSoFar, Found \subseteq Found', NextSource(FALSE),
           SourceDomains(Sources[si]) \subseteq Found'
    PROVE  ReadSoFar'
<1> USE DEF FileSteps, AtCrawl, ReadSoFar, NextSource
<1>1. AtSource' /\ CrawlsRead' /\ FilesRead' /\ NamesRead'
  BY DEF AtSource, CrawlsRead, FilesRead, NamesRead
<1>2. SourcesRead'
  <2> SUFFICES ASSUME NEW i \in 1..Len(Sources), i < si + 1
               PROVE  SourceDomains(Sources[i]) \subseteq Found'
    BY DEF SourcesRead
  <2>1. i < si \/ i = si
    BY ConstantsAssumption DEF TypeOK, ProcessTypeOK, PositionOK
  <2> QED BY <2>1 DEF SourcesRead
<1> QED BY <1>1, <1>2

\* A sequential scan that ends early has read the crawl: the files are sorted.
LEMMA EarlyEndReadsCrawl ==
    ASSUME TypeOK, AtFile, pc \in FileSteps, FilesRead, Crawl.mode # "cluster",
           DomainsOf(ThisFile) \subseteq Found,
           NEW j \in 1..Len(Lines[ThisFile]), Lines[ThisFile][j].class = "above"
    PROVE  CrawlDomains(ci) \subseteq Found
<1>1. ci \in 1..Len(Crawls) /\ fi \in 1..Len(Crawl.files)
  BY DEF AtFile
<1>2. Crawl.mode = "sequential"
  <2> DEFINE C == [mode : {"cluster", "sequential"}, files : Seq(File)]
  <2>1. Crawls \in Seq(C)
    BY ConstantsAssumption
  <2>2. Crawls[ci] \in C
    <3> HIDE DEF C
    <3> QED BY <1>1, <2>1
  <2> QED BY <2>2 DEF Crawl
<1> SUFFICES ASSUME NEW i \in 1..Len(Crawl.files)
             PROVE  DomainsOf(Crawl.files[i]) \subseteq Found
  BY <1>1 DEF CrawlDomains, Crawl
<1>3. CASE i < fi
  BY <1>3 DEF FilesRead
<1>4. CASE i = fi
  BY <1>4 DEF ThisFile
<1>5. CASE fi < i
  <2>1. \A n \in 1..Len(Lines[Crawl.files[i]]) : Lines[Crawl.files[i]][n].class # "cz"
    BY <1>1, <1>2, <1>5, SortedFiles DEF ThisFile, Crawl
  <2>2. DomainsOf(Crawl.files[i]) = {}
    BY <2>1 DEF DomainsOf, DomainsBefore
  <2> QED BY <2>2
<1>6. i < fi \/ i = fi \/ fi < i
  BY <1>1
<1> QED BY <1>3, <1>4, <1>5, <1>6

\* An error of the run stays one.
LEMMA ErrorsStay ==
    ASSUME Run, errs
    PROVE  errs' \/ pc' = "idle"
<1> USE DEF Goto, NextSource, NextCrawl, NextFile, LeaveNames, NextName, BeginScan, ScanTo, Rescan
<1>1. CASE SourceStep
  BY <1>1 DEF SourceStep, NoMoreSources, SelectSource, EnterSource, SelectSourceFails, Finish, ProcessEnds
<1>2. CASE CrawlStep \/ CheckStep
  BY <1>2 DEF CrawlStep, StartCrawls, StartCrawlsFails, NoMoreCrawls, PrepareCrawl,
     PrepareCrawlFails, CheckStep, NoMoreFiles, CheckFile, StartFile, CheckFileFails
<1>3. CASE OpenStep \/ ScanStep
  BY <1>3 DEF OpenStep, OpenCached, Download, OpenStream, OpenFails, ScanStep, SkipLine, JunkLine,
     AddLine, EndScan, ReadFails, AddLineFails
<1>4. CASE MarkStep
  BY <1>4 DEF MarkStep, FlushFile, CompleteFile, CompleteFileFails, FailFile
<1>5. CASE NamesStep
  <2>1. CASE AddName
    <3>1. NextName \/ LeaveNames(FALSE)
      BY <2>1, Zenon DEF AddName
    <3> QED BY <3>1
  <2>2. CASE FetchNames \/ FetchNamesFails \/ AddNameFails \/ NoMoreNames
    BY <2>2 DEF FetchNames, FetchNamesFails, AddNameFails, NoMoreNames
  <2> QED BY <1>5, <2>1, <2>2 DEF NamesStep
<1> QED BY <1>1, <1>2, <1>3, <1>4, <1>5 DEF Run

\* What a run has read without an error and short of its limit is found.
LEMMA ReadSoFarStep ==
    ASSUME DiscoveryInv, DiscoveryInv', Found \subseteq Found', Run, ScanFresh, ReadSoFar,
           (AddLine \/ AddName) => total' <= Cardinality(Found'),
           ~errs', ~Reached'
    PROVE  pc' = "idle" \/ ReadSoFar'
<1> USE DEF FileSteps
<1>0. /\ TypeOK /\ TypeOK' /\ AtFile /\ ScanKept /\ CheckpointSound
      /\ si \in Nat \ {0} /\ ci \in Nat \ {0} /\ fi \in Nat \ {0} /\ scan.ln \in Nat \ {0}
      /\ Len(Sources) \in Nat /\ Len(Crawls) \in Nat /\ Len(CrtNames) \in Nat
  BY ConstantsAssumption DEF DiscoveryInv, Sound, TypeOK, ProcessTypeOK, PositionOK, ScanRecord
<1>1. ASSUME FlushCommits, UNCHANGED limit, LimitIs(Cardinality(rows')) PROVE FALSE
  <2>1. Found' = rows'
    BY <1>1 DEF FlushCommits, Found
  <2> QED BY <1>1, <2>1 DEF Reached, LimitIs
<1>2. ASSUME UNCHANGED limit, LimitIs(total'), total' <= Cardinality(Found') PROVE FALSE
  <2>1. limit \in Nat /\ total' \in Nat /\ Cardinality(Found') \in Nat
    BY <1>0, RowsAreCounted DEF TypeOK, ProcessTypeOK, StoreTypeOK, Found
  <2> QED BY <1>2, <2>1 DEF Reached, LimitIs
<1>3. CASE SourceStep
  <2>1. CASE NoMoreSources
    BY <1>0, <2>1 DEF NoMoreSources, Goto, ReadSoFar, AtSource, SourcesRead, CrawlsRead, FilesRead,
       NamesRead, AtCrawl
  <2>2. CASE SelectSource
    <3>1. EnterSource /\ si \in 1..Len(Sources)
      BY <1>0, <1>1, <2>2 DEF SelectSource
    <3>2. \/ Sources[si] = "commoncrawl" /\ Goto("crawls")
          \/ Sources[si] = "crtsh" /\ Goto("crtsh")
      BY <3>1 DEF EnterSource, NextSource
    <3> QED BY <1>0, <3>1, <3>2 DEF Goto, ReadSoFar, AtSource, SourcesRead, CrawlsRead, FilesRead,
       NamesRead, AtCrawl
  <2>3. CASE SelectSourceFails \/ Finish
    BY <2>3 DEF SelectSourceFails, Finish, ProcessEnds
  <2> QED BY <1>3, <2>1, <2>2, <2>3 DEF SourceStep
<1>4. CASE CrawlStep
  <2>1. CASE StartCrawls
    <3>1. pc' = "crawl" /\ ci' = 1 /\ UNCHANGED <<si, fi>> /\ pc = "crawls"
      BY <1>1, <2>1 DEF StartCrawls
    <3> QED BY <1>0, <3>1 DEF ReadSoFar, AtSource, SourcesRead, CrawlsRead, FilesRead, NamesRead, AtCrawl
  <2>2. CASE NoMoreCrawls
    <3>1. Sources[si] = "commoncrawl" /\ \A c \in 1..Len(Crawls) : CrawlDomains(c) \subseteq Found
      BY <1>0, <2>2 DEF NoMoreCrawls, ReadSoFar, AtSource, CrawlsRead, AtCrawl
    <3>2. SourceDomains(Sources[si]) \subseteq Found'
      BY <3>1 DEF SourceDomains
    <3> QED BY <1>0, <2>2, <3>2, ReadNextSource DEF NoMoreCrawls
  <2>3. CASE PrepareCrawl
    BY <1>0, <2>3 DEF PrepareCrawl, ReadSoFar, AtSource, SourcesRead, CrawlsRead, FilesRead,
       NamesRead, AtCrawl
  <2>4. CASE StartCrawlsFails \/ PrepareCrawlFails
    BY <2>4 DEF StartCrawlsFails, PrepareCrawlFails, NextSource, NextCrawl
  <2> QED BY <1>4, <2>1, <2>2, <2>3, <2>4 DEF CrawlStep
<1>5. CASE CheckStep
  <2>1. CASE NoMoreFiles
    <3>1. ci \in 1..Len(Crawls) /\ pc = "file"
      BY <1>0, <2>1 DEF NoMoreFiles, AtFile
    <3>2. \A i \in 1..Len(Crawl.files) : DomainsOf(Crawl.files[i]) \subseteq Found
      <4>1. \A i \in 1..Len(Crawl.files) : i < fi
        BY <1>0, <2>1, <3>1, FilesLength DEF NoMoreFiles, Crawl
      <4> QED BY <3>1, <4>1 DEF ReadSoFar, FilesRead
    <3>3. CrawlDomains(ci) \subseteq Found'
      BY <3>2 DEF CrawlDomains, Crawl
    <3> QED BY <1>0, <2>1, <3>1, <3>3, ReadNextCrawl DEF NoMoreFiles, AtCrawl
  <2>2. CASE CheckFile
    <3>1. CASE BlockComplete(ThisFile)
      <4>1. ci \in 1..Len(Crawls) /\ fi \in 1..Len(Crawl.files) /\ pc = "file"
        BY <1>0, <2>2, FilesLength DEF CheckFile, AtFile, Crawl
      <4>2. ThisFile \in File
        BY <4>1, CrawlType DEF ThisFile, Crawl
      <4>3. DomainsOf(ThisFile) \subseteq Found'
        BY <1>0, <3>1, <4>2 DEF CheckpointSound, BlockComplete, Found
      <4> QED BY <1>0, <2>2, <3>1, <4>1, <4>3, ReadNextFile DEF CheckFile, NextFile
    <3>2. CASE ~BlockComplete(ThisFile)
      BY <2>2, <3>2, ReadInFile DEF CheckFile, Goto
    <3> QED BY <3>1, <3>2
  <2>3. CASE StartFile
    BY <2>3, ReadInFile DEF StartFile, Goto
  <2>4. CASE CheckFileFails
    BY <2>4 DEF CheckFileFails, NextCrawl
  <2> QED BY <1>5, <2>1, <2>2, <2>3, <2>4 DEF CheckStep
<1>6. CASE OpenStep
  BY <1>6, ReadInFile DEF OpenStep, OpenCached, Download, OpenStream, OpenFails, BeginScan, Goto
<1>7. CASE ScanStep
  <2>1. CASE AddLine
    <3>1. ~(Inserted(Line.domain) /\ LimitIs(total'))
      BY <1>2, <2>1 DEF AddLine
    <3> QED BY <2>1, <3>1, ReadInFile DEF AddLine, ScanTo, Goto
  <2>2. CASE ~AddLine
    BY <1>7, <2>2, ReadInFile DEF ScanStep, SkipLine, JunkLine, EndScan, ReadFails, AddLineFails,
       ScanTo, Rescan, Goto
  <2> QED BY <2>1, <2>2
<1>8. CASE MarkStep
  <2>1. CASE FlushFile
    BY <2>1, ReadInFile DEF FlushFile, Goto
  <2>2. CASE CompleteFile
    <3>1. /\ pc = "checkpoint" /\ ci \in 1..Len(Crawls) /\ fi \in 1..Len(Crawl.files)
          /\ DomainsOf(ThisFile) \subseteq Found
      BY <1>0, <2>2 DEF CompleteFile, AtFile, ScanKept, Found
    <3>2. CASE Crawl.mode # "cluster" /\ CZEnded
      <4>1. NextCrawl(FALSE)
        BY <2>2, <3>2 DEF CompleteFile
      <4>2. PICK j \in 1..Len(Lines[ThisFile]) : Lines[ThisFile][j].class = "above"
        BY <3>2 DEF CZEnded, ScanFresh
      <4>3. CrawlDomains(ci) \subseteq Found
        BY <1>0, <3>1, <3>2, <4>2, EarlyEndReadsCrawl DEF ReadSoFar
      <4> QED BY <1>0, <3>1, <4>1, <4>3, ReadNextCrawl DEF AtCrawl
    <3>3. CASE ~(Crawl.mode # "cluster" /\ CZEnded)
      <4>1. pc' = "file" /\ fi' = fi + 1 /\ UNCHANGED <<si, ci>>
        BY <2>2, <3>3 DEF CompleteFile, NextFile
      <4> QED BY <1>0, <3>1, <4>1, ReadNextFile
    <3> QED BY <3>2, <3>3
  <2>3. CASE CompleteFileFails \/ FailFile
    BY <2>3 DEF CompleteFileFails, FailFile, NextCrawl
  <2> QED BY <1>8, <2>1, <2>2, <2>3 DEF MarkStep
<1>9. CASE NamesStep
  <2>1. CASE FetchNames
    <3>1. Goto("names") /\ pc = "crtsh" /\ scan' = scan
      BY <1>1, <2>1 DEF FetchNames
    <3>2. scan'.ln = 1
      BY <3>1 DEF ScanFresh, NoScan
    <3> QED BY <1>0, <3>1, <3>2 DEF Goto, ReadSoFar, AtSource, SourcesRead, CrawlsRead, FilesRead,
       NamesRead, AtCrawl
  <2>2. CASE AddName
    <3> DEFINE name == CrtNames[scan.ln]
    <3>1. pc = "names" /\ scan.ln \in 1..Len(CrtNames) /\ UNCHANGED limit
      BY <1>0, <2>2 DEF AddName
    <3>2. NextName /\ name \in Found' \cup {NoDomain}
      <4>1. CASE name = NoDomain
        BY <2>2, <4>1 DEF AddName
      <4>2. CASE name # NoDomain
        <5>1. AddDomain(name) /\ (~(Inserted(name) /\ LimitIs(total')) => NextName)
          BY <2>2, <4>2 DEF AddName
        <5>2. name \in Found'
          BY <5>1 DEF AddDomain, DropTx, Found
        <5> QED BY <1>2, <2>2, <3>1, <5>1, <5>2
      <4> QED BY <4>1, <4>2
    <3>3. pc' = "names" /\ scan'.ln = scan.ln + 1 /\ UNCHANGED <<si, ci, fi>>
      BY <1>0, <3>2 DEF NextName, Goto, TypeOK, ProcessTypeOK, ScanRecord
    <3>4. NamesRead'
      <4> SUFFICES ASSUME NEW i \in 1..Len(CrtNames), i < scan.ln + 1
                   PROVE  CrtNames[i] \in Found' \cup {NoDomain}
        BY <3>3 DEF NamesRead
      <4>1. i < scan.ln \/ i = scan.ln
        BY <1>0
      <4> QED BY <3>1, <3>2, <4>1 DEF ReadSoFar, NamesRead
    <3> QED BY <3>1, <3>3, <3>4 DEF ReadSoFar, AtSource, SourcesRead, CrawlsRead, FilesRead, AtCrawl
  <2>3. CASE NoMoreNames
    <3>1. /\ Sources[si] = "crtsh"
          /\ \A i \in 1..Len(CrtNames) : CrtNames[i] \in Found \cup {NoDomain}
      BY <1>0, <2>3 DEF NoMoreNames, ReadSoFar, AtSource, NamesRead
    <3>2. SourceDomains(Sources[si]) \subseteq Found'
      BY <3>1 DEF SourceDomains
    <3> QED BY <1>0, <2>3, <3>2, ReadNextSource DEF NoMoreNames, LeaveNames
  <2>4. CASE FetchNamesFails \/ AddNameFails
    BY <2>4 DEF FetchNamesFails, AddNameFails, LeaveNames, NextSource
  <2> QED BY <1>9, <2>1, <2>2, <2>3, <2>4 DEF NamesStep
<1> QED BY <1>3, <1>4, <1>5, <1>6, <1>7, <1>8, <1>9 DEF Run

LEMMA DoneStep ==
    ASSUME "commit" \notin Faults, DiscoveryInv, DiscoveryInv', DoneInv, [Next]_vars
    PROVE  DoneInv'
<1>0. TypeOK /\ TypeOK' /\ AtFile /\ DiskBehind
  BY DEF DiscoveryInv
<1>1. CASE Run
  <2>1. Found \subseteq Found'
    BY <1>1, FindsMore
  <2>2. /\ pc' \in Counting => total' <= Cardinality(Found')
        /\ (AddLine \/ AddName) => total' <= Cardinality(Found')
    BY <1>0, <1>1, <2>1, TotalStaysBelow DEF DoneInv
  <2>3. pc # "idle" /\ UNCHANGED limit
    BY <1>1 DEF Run, SourceStep, NoMoreSources, SelectSource, SelectSourceFails, Finish, ProcessEnds,
       CrawlStep, StartCrawls, StartCrawlsFails, NoMoreCrawls, PrepareCrawl, PrepareCrawlFails,
       CheckStep, NoMoreFiles, CheckFile, StartFile, CheckFileFails, OpenStep, OpenCached,
       Download, OpenStream, OpenFails, ScanStep, SkipLine, JunkLine, AddLine, EndScan, ReadFails,
       AddLineFails, MarkStep, FlushFile, CompleteFile, CompleteFileFails, FailFile,
       NamesStep, FetchNames, FetchNamesFails, AddName, AddNameFails, NoMoreNames
  <2>4. ScanFresh'
    BY <1>0, <1>1, ScanFreshStep DEF DoneInv
  <2>5. pc' # "idle" => errs' \/ Reached' \/ ReadSoFar'
    BY <1>0, <1>1, <2>1, <2>2, <2>3, ErrorsStay, ReachedStays, ReadSoFarStep DEF DoneInv
  <2>6. last' = "clean" => pc' = "idle" /\ CleanRunIsDone'
    <3>1. CASE last' = last
      BY <2>3, <3>1 DEF DoneInv
    <3>2. CASE last' # last
      <4>1. Finish
        BY <1>1, <3>2 DEF Run, SourceStep, NoMoreSources, SelectSource, SelectSourceFails,
           CrawlStep, StartCrawls, StartCrawlsFails, NoMoreCrawls, PrepareCrawl, PrepareCrawlFails,
           CheckStep, NoMoreFiles, CheckFile, StartFile, CheckFileFails, OpenStep, OpenCached,
           Download, OpenStream, OpenFails, ScanStep, SkipLine, JunkLine, AddLine, EndScan, ReadFails,
           AddLineFails, MarkStep, FlushFile, CompleteFile, CompleteFileFails, FailFile,
           NamesStep, FetchNames, FetchNamesFails, AddName, AddNameFails, NoMoreNames
      <4> SUFFICES ASSUME last' = "clean" PROVE pc' = "idle" /\ CleanRunIsDone'
        OBVIOUS
      <4>2. FlushCommits /\ ~errs /\ pc' = "idle"
        BY <4>1 DEF Finish, ProcessEnds
      <4>3. rows' = Found
        BY <4>2 DEF FlushCommits, Found
      <4>4. CASE Reached
        BY <2>3, <4>2, <4>3, <4>4 DEF Reached, CleanRunIsDone, LimitIs
      <4>5. CASE ReadSoFar
        <5>1. \A i \in 1..Len(Sources) : i < si
          BY <1>0, <4>1, <4>5, ConstantsAssumption
             DEF Finish, ReadSoFar, AtSource, TypeOK, ProcessTypeOK, PositionOK
        <5>2. Selected \subseteq Found
          BY <4>5, <5>1 DEF Selected, ReadSoFar, SourcesRead
        <5> QED BY <4>2, <4>3, <5>2 DEF CleanRunIsDone, Selected
      <4> QED BY <2>3, <4>2, <4>4, <4>5 DEF DoneInv
    <3> QED BY <3>1, <3>2
  <2> QED BY <2>2, <2>4, <2>5, <2>6 DEF DoneInv, CleanRunIsDone
<1>2. CASE StartSome
  <2>1. pc' = "source" /\ si' = 1 /\ scan' = NoScan /\ last' = "running"
    BY <1>2 DEF StartSome, Start
  <2>2. ReadSoFar'
    BY <2>1, ConstantsAssumption DEF ReadSoFar, AtSource, SourcesRead, CrawlsRead, FilesRead,
       NamesRead, AtCrawl, FileSteps
  <2> QED BY <2>1, <2>2 DEF DoneInv, ScanFresh, NoScan, CleanRunIsDone, Counting
<1>3. CASE Crash \/ PowerLoss
  <2>1. pc' = "idle" /\ scan' = NoScan /\ last' = "crashed"
    BY <1>3 DEF Crash, PowerLoss, ProcessEnds
  <2> QED BY <2>1 DEF DoneInv, ScanFresh, NoScan, CleanRunIsDone, Counting
<1>4. CASE Sync \/ UNCHANGED vars
  <2>1. UNCHANGED <<rows, txRows, processVars>>
    BY <1>4 DEF Sync, WalSync, vars, storeVars, txVars
  <2> QED BY <2>1 DEF DoneInv, ScanFresh, CleanRunIsDone, Found, Reached, LimitIs, ReadSoFar, AtSource,
       SourcesRead, CrawlsRead, FilesRead, NamesRead, processVars, ThisFile, Crawl
<1> QED BY <1>1, <1>2, <1>3, <1>4 DEF Next

\* A run that ends without a warning is done, if no commit fails: whatever it skipped,
\* retried or took from the cache, the table has reached the limit or holds every domain
\* of every source (DiscoverTo, discoverCommonCrawl, discoverCRTSh).
THEOREM CleanRunsAreDone ==
    ASSUME "commit" \notin Faults
    PROVE  Spec => []CleanRunIsDone
<1>1. DiscoveryInv /\ DiscoveryInv' /\ DoneInv /\ [Next]_vars => DoneInv'
  BY DoneStep
<1>2. DoneInv => CleanRunIsDone
  BY DEF DoneInv
<1> QED
  BY <1>1, <1>2, DoneInit, DiscoveryInvariance, PTL DEF Spec

----------------------------------------------------------------------------
(* Discovery implements Checkpoint *)

LEMMA PromiseInit == Init => Promise!Init
<1>1. \A f \in File : NoMarks[f] # "completed" BY DEF NoMarks
<1> QED BY <1>1 DEF Init, StoreInit, Promise!Init, BlockComplete

LEMMA PromiseStep ==
    ASSUME DiscoveryInv, DiscoveryInv', [Next]_vars
    PROVE  [Promise!Next]_<<rows, {f \in File : BlockComplete(f)}>>
<1> DEFINE done == {f \in File : BlockComplete(f)}
<1> USE DEF BlockComplete
<1>0. /\ marks \in [File -> Status] /\ marks' \in [File -> Status]
      /\ rows' \subseteq Domain
  BY DEF DiscoveryInv, TypeOK, StoreTypeOK
<1>1. CASE Grows
  <2>1. done' = done
    <3>1. CASE marks' = marks BY <3>1
    <3>2. CASE marks' # marks
      <4>1. pc \in FileSteps /\ (Mark(ThisFile, "running") \/ Mark(ThisFile, "failed"))
        BY <1>1, <3>2 DEF Grows
      <4>2. ThisFile \in File /\ marks[ThisFile] # "completed"
        BY <4>1, FileType DEF DiscoveryInv, AtFile
      <4>3. \A f \in File : marks'[f] = "completed" <=> marks[f] = "completed"
        BY <1>0, <4>1, <4>2 DEF Mark
      <4> QED BY <4>3
    <3> QED BY <3>1, <3>2
  <2>2. rows' = rows \cup rows'
    BY <1>1 DEF Grows
  <2>3. Promise!Find
    BY <1>0, <2>1, <2>2 DEF Promise!Find
  <2> QED BY <2>3 DEF Promise!Next
<1>2. CASE CompleteFile
  <2>1. /\ ThisFile \in File /\ ThisFile \notin done
        /\ DomainsOf(ThisFile) \subseteq rows /\ rows' = rows
    BY <1>2, FileType DEF CompleteFile, DiscoveryInv, AtFile, ScanKept, FileSteps
  <2>2. done' = done \cup {ThisFile}
    BY <1>0, <1>2, <2>1 DEF CompleteFile, Mark
  <2>3. Promise!Complete
    BY <2>1, <2>2 DEF Promise!Complete
  <2> QED BY <2>3 DEF Promise!Next
<1>3. CASE StartSome
  <2>1. PICK fresh \in BOOLEAN : Open(fresh) BY <1>3 DEF StartSome, Start
  <2>2. CASE fresh
    <3>1. rows' = {} /\ marks' = NoMarks BY <2>1, <2>2 DEF Open
    <3>2. done' = {} BY <3>1 DEF NoMarks
    <3> QED BY <3>1, <3>2 DEF Promise!Next, Promise!StartFresh
  <2>3. CASE ~fresh BY <2>1, <2>3 DEF Open
  <2> QED BY <2>2, <2>3
<1>4. CASE PowerLoss
  <2>1. rows' \subseteq rows /\ done' \subseteq done
    BY <1>4 DEF PowerLoss, LosePower, DiscoveryInv, DiskBehind
  <2>2. \A f \in done' : DomainsOf(f) \subseteq rows'
    BY DEF DiscoveryInv, Sound, CheckpointSound
  <2>3. Fault("power") BY <1>4 DEF PowerLoss
  <2>4. Promise!Lose
    BY <2>1, <2>2, <2>3 DEF Promise!Lose
  <2> QED BY <2>4 DEF Promise!Next
<1>5. CASE Sync \/ UNCHANGED vars
  BY <1>5 DEF Sync, WalSync, vars, storeVars
<1> QED
  BY <1>1, <1>2, <1>3, <1>4, <1>5, StepShape

\* The database keeps the promise of Checkpoint: found domains stay found,
\* completed files stay completed, and no file is completed before its domains
\* are found; a fresh start and a power loss are the only exceptions.
THEOREM ImplementsCheckpoint == Spec => KeepsPromise
<1>1. DiscoveryInv /\ DiscoveryInv' /\ [Next]_vars
        => [Promise!Next]_<<rows, {f \in File : BlockComplete(f)}>>
  BY PromiseStep
<1> QED
  BY <1>1, PromiseInit, DiscoveryInvariance, PTL DEF Spec, KeepsPromise, Promise!Spec
=============================================================================
