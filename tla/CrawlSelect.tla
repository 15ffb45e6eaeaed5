---------------------------- MODULE CrawlSelect ----------------------------
(***************************************************************************)
(* Which crawls and which of their CDX files a discovery run reads.        *)
(*                                                                         *)
(* The crawls come from collinfo.json or, when that fails, from an HTML    *)
(* page, or from --cc-index.  The CDX files of a crawl come from           *)
(* cluster.idx, which names the first key of every block of every file, or *)
(* from the manifest in order when there is no cluster.idx.  cluster.idx   *)
(* is cached, and the copy at hand may be a damaged or a short one.        *)
(*                                                                         *)
(* The process makes one run.  What Common Crawl publishes, what is        *)
(* cached, what was completed before and what goes wrong are chosen first, *)
(* and are alike for all crawls: each has files and a cached copy of its   *)
(* own.                                                                    *)
(***************************************************************************)
EXTENDS Naturals, Sequences, FiniteSets, SequencesExt

CONSTANTS Worlds,       \* what Common Crawl publishes and the run is asked for
          Troubles,     \* what may go wrong together
          None, Junk, TooLong

\* "net": a request fails      "short": cluster.idx arrives short or damaged
\* "keep": a deletion fails
TroubleKind == {"net", "short", "keep"}

\* A crawl id is CC-MAIN-<year> or CC-MAIN-<year>-<week>, here <<year, week>>.
CrawlId == Nat \X Nat
\* A block of a CDX file: the classes of its keys, in order, where "cz" is the
\* range ["cz,", "cz-").  A line of cluster.idx names it by its first key.
Class == {"below", "cz", "above"}
Block == [file : STRING, offset : Nat, keys : Seq(Class) \ {<<>>}]
World == [index : Seq(Block),       \* the blocks of a crawl's CDX files, in order
          mapped : BOOLEAN,         \* the manifest names a cluster.idx
          manifest : Seq(STRING),   \* the CDX files it names
          full : BOOLEAN,           \* cluster.idx names them with their directories
          collinfo : Seq(CrawlId \cup {Junk}), html : Seq(CrawlId),
          wanted : CrawlId \cup {None, Junk}, \* --cc-index; None is "latest"
          count : Nat,              \* --cc-index-count
          done : SUBSET STRING]     \* the files earlier runs have completed

\* The file has a key of the range; the range ends in it and a key above it follows.
HasCZ(index, f) ==
    \E a \in 1..Len(index) :
        index[a].file = f /\ \E i \in 1..Len(index[a].keys) : index[a].keys[i] = "cz"
ShowsEnd(index, f) ==
    \E a, b \in 1..Len(index) :
      \E i \in 1..Len(index[a].keys), j \in 1..Len(index[b].keys) :
        /\ index[a].file = f /\ index[a].keys[i] = "cz"
        /\ index[b].file = f /\ index[b].keys[j] = "above"
        /\ a < b \/ (a = b /\ i < j)

\* The keys of a crawl are sorted: cluster.idx is an index of a sorted list.
Rank == [below |-> 0, cz |-> 1, above |-> 2]
InKeyOrder(index) ==
    \A a, b \in 1..Len(index) :
      \A i \in 1..Len(index[a].keys), j \in 1..Len(index[b].keys) :
        a < b \/ (a = b /\ i < j) => Rank[index[a].keys[i]] <= Rank[index[b].keys[j]]

\* The files of a manifest are in the order of their keys: none has a key of the
\* range behind the one in which it ends.
ASSUME SelectAssumption ==
    /\ Worlds \subseteq World
    /\ Troubles \subseteq SUBSET TroubleKind
    /\ \A w \in Worlds : InKeyOrder(w.index)
    /\ \A w \in Worlds : \A j, k \in 1..Len(w.manifest) :
          j < k /\ ShowsEnd(w.index, w.manifest[j]) => ~HasCZ(w.index, w.manifest[k])

\* What stands for no block, no line and no crawl is none.
ASSUME SentinelAssumption ==
    /\ {None, Junk, TooLong} \cap Block = {} /\ Junk # TooLong
    /\ None \notin Seq(Block \cup {Junk, TooLong})
    /\ {None, Junk} \cap CrawlId = {}

VARIABLES
    world, trouble,
    cached,     \* for each crawl, its cached cluster.idx: a sequence of lines, or None
    pc,
    crawls,     \* the crawls selected
    ci,         \* the crawl at hand
    attempt,    \* at its cluster.idx
    map,        \* the cluster.idx that is open: [lines, cached]
    paths, fi,  \* the CDX files selected, and the one at hand
    seenCZ,     \* scanCommonCrawlSequential's seenCZ
    read,       \* the files of this crawl that were read
    errs        \* the crawls that failed

chosen == <<world, trouble>>
perCrawl == <<attempt, map, paths, fi, seenCZ, read>>
vars == <<chosen, cached, pc, crawls, ci, perCrawl, errs>>

May(kind) == kind \in trouble
MaxCrawls == Len(world.collinfo) + Len(world.html) + 1
NoMap == [lines |-> <<>>, cached |-> FALSE]

----------------------------------------------------------------------------
(* The crawls *)

\* The elements of a list, each once, where it first occurs.
Distinct(list) ==
    LET out[n \in 0..Len(list)] ==
          IF n = 0 THEN <<>>
          ELSE LET before == out[n - 1] IN
               IF list[n] \in ToSet(before) THEN before ELSE Append(before, list[n])
    IN  out[Len(list)]

dedupeCrawls(list) == Distinct(list)

\* The entries of collinfo.json that have a valid crawl id.
CrawlIds(list) ==
    LET ids[n \in 0..Len(list)] ==
          IF n = 0 THEN <<>>
          ELSE IF list[n] = Junk THEN ids[n - 1] ELSE Append(ids[n - 1], list[n])
    IN  ids[Len(list)]

\* Mutant: the weeks are not compared.
SortsByYear(c, d) == c[1] > d[1]
SortsBefore(c, d) == c[1] > d[1] \/ (c[1] = d[1] /\ c[2] > d[2])

\* The list in this order.
sortCrawls(list) ==
    CHOOSE sorted \in [1..Len(list) -> ToSet(list)] :
        /\ ToSet(sorted) = ToSet(list)
        /\ \A i, j \in 1..Len(list) : i < j => ~SortsBefore(sorted[j], sorted[i])

\* As many crawls as were asked for: 0 asks for one.
Newest(list) ==
    LET sorted == sortCrawls(list)
        limit == IF world.count = 0 THEN 1 ELSE world.count
    IN  IF limit < Len(sorted) THEN SubSeq(sorted, 1, limit) ELSE sorted

Select(list) ==
    /\ crawls' = list
    /\ pc' = "crawl"
    /\ UNCHANGED <<chosen, cached, ci, perCrawl, errs>>

RunFails == pc' = "failed" /\ UNCHANGED <<chosen, cached, crawls, ci, perCrawl, errs>>

\* An explicit crawl is verified by asking for its manifest.
ExplicitCrawl ==
    /\ pc = "start" /\ world.wanted \in CrawlId
    /\ Select(<<world.wanted>>)

ExplicitCrawlFails ==
    /\ pc = "start"
    /\ \/ world.wanted = Junk
       \/ world.wanted \in CrawlId /\ May("net")
    /\ RunFails

CollInfo ==
    /\ pc = "start" /\ world.wanted = None
    /\ LET ids == CrawlIds(world.collinfo) IN ids # <<>> /\ Select(Newest(dedupeCrawls(ids)))

\* Also when it has no crawl id in it.
CollInfoFails ==
    /\ pc = "start" /\ world.wanted = None
    /\ May("net") \/ \A i \in 1..Len(world.collinfo) : world.collinfo[i] = Junk
    /\ pc' = "html"
    /\ UNCHANGED <<chosen, cached, crawls, ci, perCrawl, errs>>

Html ==
    /\ pc = "html" /\ world.html # <<>>
    /\ Select(Newest(dedupeCrawls(world.html)))

HtmlFails ==
    /\ pc = "html"
    /\ May("net") \/ world.html = <<>>
    /\ RunFails

----------------------------------------------------------------------------
(* The CDX files of a crawl *)

\* Two lines of cluster.idx name the same block.
SameBlock(a, b) == a.file = b.file /\ a.offset = b.offset

appendClusterBlock(blocks, block) ==
    IF \E i \in 1..Len(blocks) : SameBlock(blocks[i], block)
      THEN blocks
      ELSE Append(blocks, block)

\* Mutant: the block before the range is left out.
InCZRangeOnly(s, block) == appendClusterBlock(s.blocks, block)

\* A block whose first key is in the range; the one before the first of these may
\* end in the range.
InCZRange(s, block) ==
    appendClusterBlock(IF s.inCZRange \/ s.previous = None
                         THEN s.blocks
                         ELSE appendClusterBlock(s.blocks, s.previous),
                       block)

\* One line of cluster.idx.
ReadLine(s, line) ==
    IF s.stopped \/ line = Junk
      THEN s
    ELSE IF line = TooLong
      THEN [s EXCEPT !.stopped = TRUE, !.failed = TRUE]
    ELSE IF line.keys[1] = "cz"
      THEN [s EXCEPT !.blocks = InCZRange(s, line), !.inCZRange = TRUE, !.previous = line]
    ELSE IF line.keys[1] = "above" /\ s.inCZRange
      THEN [s EXCEPT !.stopped = TRUE]
    ELSE [s EXCEPT !.previous = line]

Unparsed == [blocks |-> <<>>, previous |-> None, inCZRange |-> FALSE,
             stopped |-> FALSE, failed |-> FALSE]

parseCommonCrawlCluster(lines) ==
    LET parsed[n \in 0..Len(lines)] ==
          IF n = 0 THEN Unparsed ELSE ReadLine(parsed[n - 1], lines[n])
    IN  parsed[Len(lines)]

\* The files of the blocks, each once.
cdxPathsFromClusterBlocks(blocks) == Distinct([i \in 1..Len(blocks) |-> blocks[i].file])

NextCrawl(failed) ==
    /\ pc' = "crawl"
    /\ ci' = ci + 1
    /\ attempt' = 1 /\ map' = NoMap
    /\ paths' = <<>> /\ fi' = 1 /\ seenCZ' = FALSE /\ read' = {}
    /\ errs' = IF failed THEN errs \cup {ci} ELSE errs
    /\ UNCHANGED <<chosen, crawls>>

NoMoreCrawls ==
    /\ pc = "crawl" /\ ci > Len(crawls)
    /\ pc' = "ended"
    /\ UNCHANGED <<chosen, cached, crawls, ci, perCrawl, errs>>

Manifest ==
    /\ pc = "crawl" /\ ci <= Len(crawls)
    /\ IF world.mapped
         THEN pc' = "cluster" /\ UNCHANGED paths
         ELSE pc' = "sequential" /\ paths' = world.manifest
    /\ UNCHANGED <<chosen, cached, crawls, ci, attempt, map, fi, seenCZ, read, errs>>

ManifestFails ==
    /\ pc = "crawl" /\ ci <= Len(crawls)
    /\ May("net") \/ world.manifest = <<>>
    /\ NextCrawl(TRUE)
    /\ UNCHANGED cached

\* What a download of cluster.idx may leave.
Arrivals ==
    {world.index} \cup
    (IF May("short") THEN {SubSeq(world.index, 1, n) : n \in 0..Len(world.index)}
                          \cup {<<TooLong>>}
                     ELSE {})

OpenCluster ==
    /\ pc = "cluster"
    /\ \/ /\ cached[ci] \notin {None, <<>>}
          /\ map' = [lines |-> cached[ci], cached |-> TRUE]
          /\ UNCHANGED cached
       \/ /\ cached[ci] \in {None, <<>>}
          /\ \E lines \in Arrivals :
               /\ cached' = [cached EXCEPT ![ci] = lines]
               /\ map' = [lines |-> lines, cached |-> FALSE]
    /\ pc' = "parse"
    /\ UNCHANGED <<chosen, crawls, ci, attempt, paths, fi, seenCZ, read, errs>>

OpenClusterFails ==
    /\ pc = "cluster" /\ cached[ci] \in {None, <<>>} /\ May("net")
    /\ NextCrawl(TRUE)
    /\ UNCHANGED cached

Parsed == parseCommonCrawlCluster(map.lines)

\* resolveClusterBlockPaths: a path with a slash in it is used as it is.
Resolves ==
    world.full \/ \A i \in 1..Len(Parsed.blocks) : Parsed.blocks[i].file \in ToSet(world.manifest)

UseCluster ==
    /\ pc = "parse" /\ ~Parsed.failed /\ Parsed.blocks # <<>> /\ Resolves
    /\ paths' = cdxPathsFromClusterBlocks(Parsed.blocks)
    /\ pc' = "files"
    /\ UNCHANGED <<chosen, cached, crawls, ci, attempt, map, fi, seenCZ, read, errs>>

UseClusterFails ==
    /\ pc = "parse" /\ ~Parsed.failed /\ ~(Parsed.blocks # <<>> /\ Resolves)
    /\ NextCrawl(TRUE)
    /\ UNCHANGED cached

\* Mutant: an invalid copy stays in the cache.
InvalidClusterKept ==
    /\ pc = "parse" /\ Parsed.failed /\ UNCHANGED cached
    /\ IF map.cached /\ attempt < 2
         THEN pc' = "cluster" /\ attempt' = attempt + 1
              /\ UNCHANGED <<chosen, crawls, ci, map, paths, fi, seenCZ, read, errs>>
         ELSE NextCrawl(TRUE)

\* A cached copy that cannot be parsed is deleted and cluster.idx opened once more.
InvalidCluster ==
    /\ pc = "parse" /\ Parsed.failed
    /\ IF map.cached
         THEN cached' = [cached EXCEPT ![ci] = None] \/ (May("keep") /\ UNCHANGED cached)
         ELSE UNCHANGED cached
    /\ IF map.cached /\ attempt < 2
         THEN /\ pc' = "cluster"
              /\ attempt' = attempt + 1
              /\ UNCHANGED <<chosen, crawls, ci, map, paths, fi, seenCZ, read, errs>>
         ELSE NextCrawl(TRUE)

----------------------------------------------------------------------------
(* The files are read, or skipped as completed, in order. *)

\* What scanCommonCrawlSequentialGzip returns of a file it has read.
hitCZ(f) == HasCZ(world.index, f)
passedCZ(f) == ShowsEnd(world.index, f)

File == paths[fi]
AtFile == pc \in {"files", "sequential"} /\ fi <= Len(paths)

SkipFile ==
    /\ AtFile /\ File \in world.done
    /\ fi' = fi + 1
    /\ UNCHANGED <<chosen, cached, pc, crawls, ci, attempt, map, paths, seenCZ, read, errs>>

\* Mutant: a sequential scan is over after the first file with keys of the range.
StopsAtHit(f) == seenCZ \/ hitCZ(f)
\* Mutant: the file at hand is not counted as one with keys of the range.
StopsOneLate(f) == seenCZ /\ passedCZ(f)
\* A sequential scan is over in the file in which it saw the range end.
Stops(f) == (seenCZ \/ hitCZ(f)) /\ passedCZ(f)

ReadFile ==
    /\ AtFile /\ File \notin world.done
    /\ read' = read \cup {File}
    /\ seenCZ' = (seenCZ \/ hitCZ(File))
    /\ fi' = IF pc = "sequential" /\ Stops(File) THEN Len(paths) + 1 ELSE fi + 1
    /\ UNCHANGED <<chosen, cached, pc, crawls, ci, attempt, map, paths, errs>>

ReadFileFails ==
    /\ AtFile /\ File \notin world.done /\ May("net")
    /\ NextCrawl(TRUE)
    /\ UNCHANGED cached

NoMoreFiles ==
    /\ pc \in {"files", "sequential"} /\ fi > Len(paths)
    /\ NextCrawl(FALSE)
    /\ UNCHANGED cached

----------------------------------------------------------------------------

Init ==
    /\ world \in Worlds
    /\ trouble \in Troubles
    /\ \E copy \in {None, <<Junk>>, <<TooLong>>}
                    \cup {SubSeq(world.index, 1, n) : n \in 1..Len(world.index)}
                    \cup {Append(SubSeq(world.index, 1, n), TooLong) : n \in 1..Len(world.index)} :
         cached = [c \in 1..MaxCrawls |-> copy]
    /\ pc = "start"
    /\ crawls = <<>>
    /\ ci = 1
    /\ attempt = 1 /\ map = NoMap
    /\ paths = <<>> /\ fi = 1 /\ seenCZ = FALSE /\ read = {}
    /\ errs = {}

Next ==
    \/ ExplicitCrawl \/ ExplicitCrawlFails
    \/ CollInfo \/ CollInfoFails \/ Html \/ HtmlFails
    \/ NoMoreCrawls \/ Manifest \/ ManifestFails
    \/ OpenCluster \/ OpenClusterFails
    \/ UseCluster \/ UseClusterFails \/ InvalidCluster
    \/ SkipFile \/ ReadFile \/ ReadFileFails \/ NoMoreFiles

Spec == Init /\ [][Next]_vars

----------------------------------------------------------------------------
(* Properties *)

CZFiles == {f \in {world.index[i].file : i \in 1..Len(world.index)} : hitCZ(f)}

\* The map that was read shows the end of the range, or is the whole one.
ShowsRange ==
    \/ map.lines = world.index
    \/ \E i \in 1..Len(map.lines) :
          map.lines[i] \notin {Junk, TooLong} /\ map.lines[i].keys[1] = "above"

\* src/README.md:34: cluster.idx tells which files contain .cz data, and only those
\* are downloaded.  Wherever the range begins and ends within blocks and files, no
\* file with a key of the range is left out, and at most one without is read; but
\* a map that is cut off inside the range leaves files out unnoticed.
ChoosesCZFiles ==
    pc = "files" /\ ShowsRange =>
        /\ CZFiles \subseteq ToSet(paths)
        /\ Cardinality(ToSet(paths) \ CZFiles) <= 1

\* A run without trouble gets over any cached map that cannot be parsed.  What it
\* does not get over is a map, cached or not, that parses and has no block of the
\* range or the bare name of an unknown file: that one is never deleted.
StuckOn(lines) ==
    LET parsed == parseCommonCrawlCluster(lines) IN
    /\ ~parsed.failed
    /\ \/ parsed.blocks = <<>>
       \/ ~world.full /\ \E i \in 1..Len(parsed.blocks) :
                             parsed.blocks[i].file \notin ToSet(world.manifest)
FailsOnlyIfStuck ==
    pc = "ended" /\ trouble = {} /\ errs # {} =>
        \/ world.manifest = <<>>
        \/ world.mapped /\ \A c \in errs : cached[c] # None /\ StuckOn(cached[c])

\* --cc-index-count: the crawls of a run are the newest ones of the list, each once,
\* newest first, whatever order and duplicates the list has.
NewestOf(list, n) ==
    LET ids == ToSet(list) \ {Junk}
    IN  /\ ToSet(crawls) \subseteq ids
        /\ Len(crawls) = (IF n < Cardinality(ids) THEN n ELSE Cardinality(ids))
        /\ \A i, j \in 1..Len(crawls) : i < j => SortsBefore(crawls[i], crawls[j])
        /\ \A c \in ids \ ToSet(crawls) : SortsBefore(crawls[Len(crawls)], c)
ChoosesNewest ==
    crawls # <<>> /\ world.wanted = None =>
        LET n == IF world.count = 0 THEN 1 ELSE world.count
        IN  NewestOf(world.collinfo, n) \/ NewestOf(world.html, n)

\* A sequential scan that ends without an error has read every file with a key of
\* the range, or found it completed.
ReadsCZFiles ==
    [][NoMoreFiles /\ pc = "sequential" =>
           CZFiles \cap ToSet(paths) \subseteq read \cup world.done]_vars

\* "sequential scan passed cz, prefix; stopping": it reads a file that lies above
\* the range only when the range ended in a completed file, or exactly at the end
\* of one; then it reads all the rest of the crawl.
AboveRange(f) ==
    \A a \in 1..Len(world.index) : world.index[a].file = f =>
        \A i \in 1..Len(world.index[a].keys) : world.index[a].keys[i] = "above"
StopsPastRange ==
    pc = "sequential" /\ AtFile /\ File \notin world.done /\ AboveRange(File) =>
        \A j \in 1..(fi - 1) :
            hitCZ(paths[j]) /\ (\A k \in (j + 1)..(fi - 1) : ~hitCZ(paths[k]))
                => paths[j] \in world.done \/ ~passedCZ(paths[j])
=============================================================================
