---------------------------- MODULE ListProofs ----------------------------
(***************************************************************************)
(* Proofs about the two modules that go through lists.                     *)
(*                                                                         *)
(* CrawlSelect, for every list of crawls, every layout of keys over blocks *)
(* and files, every cached map and every trouble:                          *)
(*  - a sequential scan reads every file with a key of the range, and      *)
(*    reads no further than it has to;                                     *)
(*  - the crawls of a run are the newest ones;                             *)
(*  - cluster.idx leaves out no file with a key of the range;              *)
(*  - a run without trouble gets over a cached map it cannot parse.        *)
(*                                                                         *)
(* Names, for every host name, table and input file:                       *)
(*  - a crawl, a certificate and an input file give the same domain;       *)
(*  - an exported table is read back;                                      *)
(*  - enrich asks for no domain twice.                                     *)
(*                                                                         *)
(* The first uses what a file holds only through HasCZ and ShowsEnd.  The  *)
(* others follow the loops over crawls, lines and labels by induction over *)
(* their length: SetInduction is what that rests on.                       *)
(***************************************************************************)
EXTENDS CrawlSelect, Names, FiniteSetTheorems, TLAPS

\* A file that is behind the scan needed no reading, or was read.
Behind(f) == f \in world.done \cup read \/ ~hitCZ(f)
\* A file that does not end the scan.
GoesOn(f) == f \in world.done \/ ~(hitCZ(f) /\ passedCZ(f))

\* No file is at hand.
Between == {"start", "html", "crawl"}

ScanInv ==
    /\ world \in Worlds
    /\ fi \in Nat \ {0}
    /\ pc \in Between => fi = 1
    /\ pc = "sequential" =>
         /\ paths = world.manifest
         /\ \A j \in 1..Len(paths) : j < fi => Behind(paths[j])
         /\ fi <= Len(paths) => \A j \in 1..(fi - 1) : GoesOn(paths[j])

LEMMA WorldsHaveManifests ==
    ASSUME NEW w \in Worlds
    PROVE  w.manifest \in Seq(STRING)
BY SelectAssumption DEF World

LEMMA ScanStep ==
    ASSUME ScanInv, [Next]_vars
    PROVE  ScanInv'
<1>1. ASSUME UNCHANGED <<world, fi, pc, paths, read>>
      PROVE  ScanInv'
  BY <1>1 DEF ScanInv, Behind, GoesOn, hitCZ, passedCZ
<1>2. ASSUME UNCHANGED world, pc' # "sequential",
             fi' = 1 \/ (fi' = fi /\ (pc' \in Between => pc \in Between))
      PROVE  ScanInv'
  BY <1>2 DEF ScanInv
<1>3. ASSUME NEW failed, NextCrawl(failed) PROVE ScanInv'
  BY <1>2, <1>3 DEF NextCrawl, chosen
<1>4. CASE ExplicitCrawl \/ ExplicitCrawlFails \/ CollInfo \/ CollInfoFails \/ Html \/ HtmlFails
           \/ NoMoreCrawls \/ OpenCluster \/ UseCluster
  <2>1. /\ UNCHANGED <<world, fi>> /\ pc' # "sequential"
        /\ pc' \in Between => pc \in Between
    BY <1>4 DEF Between, ExplicitCrawl, ExplicitCrawlFails, CollInfo, CollInfoFails, Html, HtmlFails,
       NoMoreCrawls, OpenCluster, UseCluster, Select, RunFails, chosen, perCrawl
  <2> QED BY <1>2, <2>1
<1>5. CASE ManifestFails \/ OpenClusterFails \/ UseClusterFails \/ ReadFileFails \/ NoMoreFiles
  BY <1>3, <1>5 DEF ManifestFails, OpenClusterFails, UseClusterFails, ReadFileFails, NoMoreFiles
<1>6. CASE InvalidCluster
  <2>1. \/ NextCrawl(TRUE)
        \/ UNCHANGED <<world, fi>> /\ pc' = "cluster"
    BY <1>6 DEF InvalidCluster, chosen
  <2> QED BY <1>2, <1>3, <2>1 DEF Between
<1>7. CASE UNCHANGED vars
  BY <1>1, <1>7 DEF vars, chosen, perCrawl
<1>8. CASE Manifest
  <2>1. /\ UNCHANGED <<world, fi>> /\ fi = 1
        /\ pc' \in {"cluster", "sequential"}
        /\ pc' = "sequential" => paths' = world.manifest
    BY <1>8 DEF Manifest, ScanInv, Between, chosen
  <2>2. \A j \in 1..Len(paths') : ~(j < 1)
    OBVIOUS
  <2>3. 1..(1 - 1) = {}
    OBVIOUS
  <2> QED BY <2>1, <2>2, <2>3 DEF ScanInv, Between
<1>9. CASE SkipFile \/ ReadFile
  <2>1. pc' = pc /\ pc \in {"files", "sequential"} /\ fi <= Len(paths)
        /\ UNCHANGED <<world, paths>>
    BY <1>9 DEF SkipFile, ReadFile, AtFile, chosen
  <2>2. read \subseteq read'
    BY <1>9 DEF SkipFile, ReadFile
  <2>4. CASE pc = "files"
    <3>1. fi' = fi + 1
      BY <1>9, <2>4 DEF SkipFile, ReadFile
    <3> QED BY <2>1, <2>4, <3>1 DEF ScanInv, Between
  <2>5. CASE pc = "sequential"
    <3>1. /\ paths = world.manifest /\ Len(paths) \in Nat /\ fi \in Nat \ {0}
          /\ world \in Worlds
      BY <2>5, WorldsHaveManifests DEF ScanInv
    <3>2. \A j \in 1..Len(paths) : j < fi => Behind(paths[j])'
      BY <2>1, <2>2, <2>5 DEF ScanInv, Behind, hitCZ
    <3>3. \A j \in 1..Len(paths) : j = fi => Behind(paths[j])'
      <4>1. paths[fi] \in world.done \cup read'
        BY <1>9 DEF SkipFile, ReadFile, File
      <4> QED BY <2>1, <4>1 DEF Behind
    <3>4. CASE fi' = fi + 1 /\ GoesOn(paths[fi])
      <4>1. fi' \in Nat \ {0}
        BY <3>1, <3>4
      <4>2. \A j \in 1..Len(paths) : j < fi' => Behind(paths[j])'
        BY <3>1, <3>2, <3>3, <3>4
      <4>3. \A j \in 1..(fi' - 1) : GoesOn(paths[j])'
        BY <2>1, <2>5, <3>1, <3>4 DEF ScanInv, GoesOn, hitCZ, passedCZ
      <4> QED BY <2>1, <2>5, <3>1, <4>1, <4>2, <4>3 DEF ScanInv, Between
    <3>5. CASE fi' = Len(paths) + 1 /\ passedCZ(paths[fi])
      <4>1. \A j \in 1..Len(paths) : j > fi => ~hitCZ(paths[j])'
        BY <2>1, <3>1, <3>5, SelectAssumption DEF hitCZ, passedCZ
      <4>2. \A j \in 1..Len(paths) : Behind(paths[j])'
        BY <2>1, <3>1, <3>2, <3>3, <4>1 DEF Behind
      <4> QED BY <2>1, <2>5, <3>1, <3>5, <4>2 DEF ScanInv, Between
    <3> QED BY <1>9, <2>5, <3>4, <3>5 DEF SkipFile, ReadFile, Stops, File, GoesOn
  <2> QED BY <2>1, <2>4, <2>5
<1> QED
  BY <1>4, <1>5, <1>6, <1>7, <1>8, <1>9 DEF Next

LEMMA ScanInit == Init => ScanInv
BY DEF Init, ScanInv, Between

\* A sequential scan reads above the range only when the range ended in a completed
\* file or at the very end of one.
THEOREM ScanStopsPastRange == Spec => []StopsPastRange
<1>1. ScanInv => StopsPastRange
  BY DEF ScanInv, StopsPastRange, AtFile, GoesOn
<1> QED
  BY <1>1, ScanInit, ScanStep, PTL DEF Spec

\* A sequential scan that ends without an error has read every file with a key of
\* the range, or found it completed.
THEOREM ScanReadsCZFiles == Spec => ReadsCZFiles
<1>1. ScanInv /\ [Next]_vars
        => [NoMoreFiles /\ pc = "sequential" =>
              CZFiles \cap ToSet(paths) \subseteq read \cup world.done]_vars
  <2> SUFFICES ASSUME ScanInv, NoMoreFiles, pc = "sequential",
                      NEW f \in CZFiles \cap ToSet(paths)
               PROVE  f \in read \cup world.done
    OBVIOUS
  <2>1. /\ paths \in Seq(STRING) /\ fi \in Nat /\ fi > Len(paths)
        /\ \A j \in 1..Len(paths) : j < fi => Behind(paths[j])
    BY WorldsHaveManifests DEF ScanInv, NoMoreFiles
  <2>2. PICK j \in 1..Len(paths) : paths[j] = f
    BY <2>1 DEF ToSet
  <2>3. hitCZ(f)
    BY DEF CZFiles
  <2> QED BY <2>1, <2>2, <2>3 DEF Behind
<1> QED
  BY <1>1, ScanInit, ScanStep, PTL DEF Spec, ReadsCZFiles
----------------------------------------------------------------------------
(* Induction over data: a set of numbers that has 0 and the next of each is  *)
(* all of them, and so a recursive function over the lines of a list exists. *)

LEMMA SetInduction ==
    ASSUME NEW S, 0 \in S, \A n \in Nat : n \in S => n + 1 \in S
    PROVE  Nat \subseteq S
<1> SUFFICES ASSUME NEW k \in Nat, k \notin S PROVE FALSE
  OBVIOUS
<1> DEFINE T == {n \in Nat : n \notin S}
<1>1. IsWellFoundedOn(OpToRel(<, Nat), Nat)
  BY NatLessThanWellFounded
<1>2. \E x \in T : \A y \in T : ~(<<y, x>> \in OpToRel(<, Nat))
  <2> HIDE DEF T
  <2>1. T \subseteq Nat /\ T # {}
    BY DEF T
  <2> QED BY <1>1, <2>1, WFMin
<1>3. PICK x \in T : \A y \in T : ~(y < x)
  BY <1>2 DEF OpToRel
<1>4. x # 0 /\ x - 1 \in Nat
  OBVIOUS
<1>5. x - 1 \in S
  BY <1>3, <1>4
<1> QED BY <1>4, <1>5

LEMMA InductionUpTo ==
    ASSUME NEW N \in Nat, NEW S, 0 \in S, \A n \in Nat : n < N /\ n \in S => n + 1 \in S
    PROVE  N \in S
<1> DEFINE T == {n \in Nat : n <= N => n \in S}
<1>1. 0 \in T /\ \A n \in Nat : n \in T => n + 1 \in T
  OBVIOUS
<1> HIDE DEF T
<1>2. N \in T
  BY <1>1, SetInduction
<1> QED BY <1>2 DEF T

LEMMA DistinctIsRecursive ==
    ASSUME NEW list, Len(list) \in Nat
    PROVE  \E out :
             /\ Distinct(list) = out[Len(list)]
             /\ out[0] = <<>>
             /\ \A n \in 1..Len(list) :
                  out[n] = IF list[n] \in ToSet(out[n - 1]) THEN out[n - 1]
                           ELSE Append(out[n - 1], list[n])
<1> DEFINE N == Len(list)
           After(before, n) == IF list[n] \in ToSet(before) THEN before ELSE Append(before, list[n])
           IsOut(out, k) == out[0] = <<>> /\ \A n \in 1..k : out[n] = After(out[n - 1], n)
           S == {k \in Nat : \E out : IsOut(out, k)}
           rec[n \in 0..N] == IF n = 0 THEN <<>> ELSE After(rec[n - 1], n)
<1>1. Distinct(list) = rec[N]
  BY Zenon DEF Distinct
<1> HIDE DEF After
<1>2. 0 \in S
  <2>1. IsOut([n \in {0} |-> <<>>], 0)
    OBVIOUS
  <2> QED BY <2>1
<1>3. ASSUME NEW k \in Nat, k \in S PROVE k + 1 \in S
  <2>1. PICK out : IsOut(out, k)
    BY <1>3
  <2> DEFINE more == [n \in 0..(k + 1) |-> IF n = k + 1 THEN After(out[k], k + 1) ELSE out[n]]
  <2>2. IsOut(more, k + 1)
    <3>1. /\ \A n \in 0..k : more[n] = out[n]
          /\ more[k + 1] = After(out[k], k + 1)
      OBVIOUS
    <3> HIDE DEF more
    <3>2. more[0] = <<>>
      BY <2>1, <3>1
    <3>3. \A n \in 1..k : n \in 0..k /\ n - 1 \in 0..k
      OBVIOUS
    <3>4. \A n \in 1..k : more[n] = After(more[n - 1], n)
      BY <2>1, <3>1, <3>3
    <3>5. k \in 0..k /\ (k + 1) - 1 = k /\ \A n \in 1..(k + 1) : n \in 1..k \/ n = k + 1
      OBVIOUS
    <3> QED BY <3>1, <3>2, <3>4, <3>5
  <2> HIDE DEF more, IsOut
  <2>3. \E o : IsOut(o, k + 1)
    BY <2>2
  <2> QED BY <2>3
<1>4. PICK out : IsOut(out, N)
  <2>1. N \in S
    <3> HIDE DEF S
    <3> QED BY <1>2, <1>3, SetInduction
  <2> QED BY <2>1
<1>5. rec = [n \in 0..N |-> IF n = 0 THEN <<>> ELSE After(rec[n - 1], n)]
  <2> DEFINE g == [n \in 0..N |-> out[n]]
  <2>1. g = [n \in 0..N |-> IF n = 0 THEN <<>> ELSE After(g[n - 1], n)]
    BY <1>4
  <2>2. \E f : f = [n \in 0..N |-> IF n = 0 THEN <<>> ELSE After(f[n - 1], n)]
    BY <2>1
  <2> QED BY <2>2, Zenon
<1>6. rec[0] = <<>> /\ \A n \in 1..N : rec[n] = After(rec[n - 1], n)
  <2> HIDE DEF rec
  <2> QED BY <1>5
<1> QED BY <1>1, <1>6 DEF After

\* A list with one more element.
LEMMA OneMore ==
    ASSUME NEW T, NEW d \in Seq(T), NEW x \in T
    PROVE  /\ Append(d, x) \in Seq(T)
           /\ Len(Append(d, x)) = Len(d) + 1
           /\ ToSet(Append(d, x)) = ToSet(d) \cup {x}
           /\ \A i \in 1..Len(d) : Append(d, x)[i] = d[i]
           /\ Append(d, x)[Len(d) + 1] = x
<1>1. /\ Append(d, x) \in Seq(T)
      /\ Len(Append(d, x)) = Len(d) + 1 /\ Len(d) \in Nat
      /\ \A i \in 1..Len(d) : Append(d, x)[i] = d[i]
      /\ Append(d, x)[Len(d) + 1] = x
  OBVIOUS
<1>2. ToSet(Append(d, x)) = {Append(d, x)[i] : i \in 1..(Len(d) + 1)} /\ ToSet(d) = {d[i] : i \in 1..Len(d)}
  BY <1>1 DEF ToSet
<1>3. \A i : i \in 1..(Len(d) + 1) <=> i \in 1..Len(d) \/ i = Len(d) + 1
  BY <1>1
<1>4. ToSet(Append(d, x)) = ToSet(d) \cup {x}
  <2> DEFINE e == Append(d, x)
  <2>1. \A i \in 1..Len(d) : e[i] = d[i]
    BY <1>1
  <2>2. e[Len(d) + 1] = x
    BY <1>1
  <2> HIDE DEF e
  <2>3. {e[i] : i \in 1..(Len(d) + 1)} = {d[i] : i \in 1..Len(d)} \cup {x}
    BY <1>3, <2>1, <2>2
  <2> QED BY <1>2, <2>3 DEF e
<1> QED BY <1>1, <1>4

\* No element twice.
NoTwice(list) == \A i, j \in 1..Len(list) : list[i] = list[j] => i = j

LEMMA DistinctIs ==
    ASSUME NEW T, NEW list \in Seq(T)
    PROVE  /\ Distinct(list) \in Seq(T)
           /\ ToSet(Distinct(list)) = ToSet(list)
           /\ NoTwice(Distinct(list))
           /\ Len(Distinct(list)) <= Len(list)
<1>0. Len(list) \in Nat /\ \A n \in 1..Len(list) : list[n] \in T
  OBVIOUS
<1>1. PICK out : /\ Distinct(list) = out[Len(list)]
                 /\ out[0] = <<>>
                 /\ \A n \in 1..Len(list) :
                      out[n] = IF list[n] \in ToSet(out[n - 1]) THEN out[n - 1]
                               ELSE Append(out[n - 1], list[n])
  BY <1>0, DistinctIsRecursive
<1> DEFINE Part(n) == {list[i] : i \in 1..n}
           IsDistinct(d, n) == d \in Seq(T) /\ ToSet(d) = Part(n) /\ NoTwice(d) /\ Len(d) <= n
           S == {n \in 0..Len(list) : IsDistinct(out[n], n)}
<1>2. 0 \in S
  <2>1. <<>> \in Seq(T) /\ ToSet(<<>>) = {} /\ NoTwice(<<>>) /\ Len(<<>>) = 0
    BY DEF ToSet, NoTwice
  <2>2. Part(0) = {}
    OBVIOUS
  <2>3. IsDistinct(<<>>, 0)
    BY <2>1, <2>2
  <2> HIDE DEF IsDistinct
  <2> QED BY <1>0, <1>1, <2>3
<1>3. ASSUME NEW n \in Nat, n < Len(list), n \in S PROVE n + 1 \in S
  <2> DEFINE d == out[n]
             x == list[n + 1]
  <2>1. /\ n + 1 \in 0..Len(list) /\ n + 1 \in 1..Len(list) /\ x \in T
        /\ IsDistinct(d, n)
        /\ out[n + 1] = IF x \in ToSet(d) THEN d ELSE Append(d, x)
    BY <1>0, <1>1, <1>3
  <2>2. Part(n + 1) = Part(n) \cup {x}
    <3>1. \A i : i \in 1..(n + 1) <=> i \in 1..n \/ i = n + 1
      OBVIOUS
    <3> QED BY <3>1
  <2> HIDE DEF d, x, Part
  <2>3. CASE x \in ToSet(d)
    <3>1. IsDistinct(d, n + 1)
      BY <2>1, <2>2, <2>3
    <3> QED BY <2>1, <2>3, <3>1
  <2>4. CASE x \notin ToSet(d)
    <3>1. \A i \in 1..Len(d) : d[i] # x
      BY <2>1, <2>4 DEF ToSet
    <3>2. /\ Append(d, x) \in Seq(T) /\ Len(Append(d, x)) = Len(d) + 1 /\ Len(d) \in Nat
          /\ ToSet(Append(d, x)) = ToSet(d) \cup {x}
          /\ \A i \in 1..Len(d) : Append(d, x)[i] = d[i]
          /\ Append(d, x)[Len(d) + 1] = x
      BY <2>1, OneMore
    <3>3. NoTwice(Append(d, x))
      <4>1. \A i : i \in 1..(Len(d) + 1) <=> i \in 1..Len(d) \/ i = Len(d) + 1
        BY <3>2
      <4> QED BY <2>1, <3>1, <3>2, <4>1 DEF NoTwice
    <3>4. IsDistinct(Append(d, x), n + 1)
      BY <2>1, <2>2, <3>2, <3>3
    <3> QED BY <2>1, <2>4, <3>4
  <2> QED BY <2>3, <2>4
<1>4. Len(list) \in S
  <2> HIDE DEF S
  <2> QED BY <1>0, <1>2, <1>3, InductionUpTo
<1>5. Part(Len(list)) = ToSet(list)
  BY DEF ToSet
<1> QED BY <1>1, <1>4, <1>5

LEMMA CrawlIdsIsRecursive ==
    ASSUME NEW list, Len(list) \in Nat
    PROVE  \E ids :
             /\ CrawlIds(list) = ids[Len(list)]
             /\ ids[0] = <<>>
             /\ \A n \in 1..Len(list) :
                  ids[n] = IF list[n] = Junk THEN ids[n - 1] ELSE Append(ids[n - 1], list[n])
<1> DEFINE N == Len(list)
           After(before, n) == IF list[n] = Junk THEN before ELSE Append(before, list[n])
           IsOut(out, k) == out[0] = <<>> /\ \A n \in 1..k : out[n] = After(out[n - 1], n)
           S == {k \in Nat : \E out : IsOut(out, k)}
           rec[n \in 0..N] == IF n = 0 THEN <<>> ELSE After(rec[n - 1], n)
<1>1. CrawlIds(list) = rec[N]
  BY Zenon DEF CrawlIds
<1> HIDE DEF After
<1>2. 0 \in S
  <2>1. IsOut([n \in {0} |-> <<>>], 0)
    OBVIOUS
  <2> QED BY <2>1
<1>3. ASSUME NEW k \in Nat, k \in S PROVE k + 1 \in S
  <2>1. PICK out : IsOut(out, k)
    BY <1>3
  <2> DEFINE more == [n \in 0..(k + 1) |-> IF n = k + 1 THEN After(out[k], k + 1) ELSE out[n]]
  <2>2. IsOut(more, k + 1)
    <3>1. /\ \A n \in 0..k : more[n] = out[n]
          /\ more[k + 1] = After(out[k], k + 1)
      OBVIOUS
    <3> HIDE DEF more
    <3>2. more[0] = <<>>
      BY <2>1, <3>1
    <3>3. \A n \in 1..k : n \in 0..k /\ n - 1 \in 0..k
      OBVIOUS
    <3>4. \A n \in 1..k : more[n] = After(more[n - 1], n)
      BY <2>1, <3>1, <3>3
    <3>5. k \in 0..k /\ (k + 1) - 1 = k /\ \A n \in 1..(k + 1) : n \in 1..k \/ n = k + 1
      OBVIOUS
    <3> QED BY <3>1, <3>2, <3>4, <3>5
  <2> HIDE DEF more, IsOut
  <2>3. \E o : IsOut(o, k + 1)
    BY <2>2
  <2> QED BY <2>3
<1>4. PICK out : IsOut(out, N)
  <2>1. N \in S
    <3> HIDE DEF S
    <3> QED BY <1>2, <1>3, SetInduction
  <2> QED BY <2>1
<1>5. rec = [n \in 0..N |-> IF n = 0 THEN <<>> ELSE After(rec[n - 1], n)]
  <2> DEFINE g == [n \in 0..N |-> out[n]]
  <2>1. g = [n \in 0..N |-> IF n = 0 THEN <<>> ELSE After(g[n - 1], n)]
    BY <1>4
  <2>2. \E f : f = [n \in 0..N |-> IF n = 0 THEN <<>> ELSE After(f[n - 1], n)]
    BY <2>1
  <2> QED BY <2>2, Zenon
<1>6. rec[0] = <<>> /\ \A n \in 1..N : rec[n] = After(rec[n - 1], n)
  <2> HIDE DEF rec
  <2> QED BY <1>5
<1> QED BY <1>1, <1>6 DEF After

LEMMA CrawlIdsAre ==
    ASSUME NEW list \in Seq(CrawlId \cup {Junk})
    PROVE  /\ CrawlIds(list) \in Seq(CrawlId)
           /\ ToSet(CrawlIds(list)) = ToSet(list) \ {Junk}
           /\ Len(CrawlIds(list)) <= Len(list)
<1>0. Len(list) \in Nat /\ \A n \in 1..Len(list) : list[n] \in CrawlId \cup {Junk}
  OBVIOUS
<1>1. PICK ids : /\ CrawlIds(list) = ids[Len(list)]
                 /\ ids[0] = <<>>
                 /\ \A n \in 1..Len(list) :
                      ids[n] = IF list[n] = Junk THEN ids[n - 1] ELSE Append(ids[n - 1], list[n])
  BY <1>0, CrawlIdsIsRecursive
<1> DEFINE Part(n) == {list[i] : i \in 1..n} \ {Junk}
           IsValid(d, n) == d \in Seq(CrawlId) /\ ToSet(d) = Part(n) /\ Len(d) <= n
           S == {n \in 0..Len(list) : IsValid(ids[n], n)}
<1>2. 0 \in S
  <2>1. <<>> \in Seq(CrawlId) /\ ToSet(<<>>) = {} /\ Len(<<>>) = 0
    BY DEF ToSet
  <2>2. Part(0) = {}
    OBVIOUS
  <2>3. IsValid(<<>>, 0)
    BY <2>1, <2>2
  <2> HIDE DEF IsValid
  <2> QED BY <1>0, <1>1, <2>3
<1>3. ASSUME NEW n \in Nat, n < Len(list), n \in S PROVE n + 1 \in S
  <2> DEFINE d == ids[n]
             x == list[n + 1]
  <2>1. /\ n + 1 \in 0..Len(list) /\ n + 1 \in 1..Len(list) /\ x \in CrawlId \cup {Junk}
        /\ IsValid(d, n)
        /\ ids[n + 1] = IF x = Junk THEN d ELSE Append(d, x)
    BY <1>0, <1>1, <1>3
  <2>2. Part(n + 1) = Part(n) \cup ({x} \ {Junk})
    <3>1. \A i : i \in 1..(n + 1) <=> i \in 1..n \/ i = n + 1
      OBVIOUS
    <3> QED BY <3>1
  <2> HIDE DEF d, x, Part
  <2>3. CASE x = Junk
    <3>1. Part(n + 1) = Part(n)
      BY <2>2, <2>3
    <3>2. IsValid(d, n + 1)
      BY <2>1, <3>1
    <3> QED BY <2>1, <2>3, <3>2
  <2>4. CASE x # Junk
    <3>1. /\ Append(d, x) \in Seq(CrawlId) /\ Len(Append(d, x)) = Len(d) + 1 /\ Len(d) \in Nat
          /\ ToSet(Append(d, x)) = ToSet(d) \cup {x}
      BY <2>1, <2>4, OneMore
    <3>2. IsValid(Append(d, x), n + 1)
      BY <2>1, <2>2, <2>4, <3>1
    <3> QED BY <2>1, <2>4, <3>2
  <2> QED BY <2>3, <2>4
<1>4. Len(list) \in S
  <2> HIDE DEF S
  <2> QED BY <1>0, <1>2, <1>3, InductionUpTo
<1>5. Part(Len(list)) = ToSet(list) \ {Junk}
  BY DEF ToSet
<1> QED BY <1>1, <1>4, <1>5

----------------------------------------------------------------------------
(* The crawls *)

\* A list without duplicates has as many elements as the set of them.
LEMMA DistinctCount ==
    ASSUME NEW T, NEW list \in Seq(T), NoTwice(list)
    PROVE  IsFiniteSet(ToSet(list)) /\ Cardinality(ToSet(list)) = Len(list)
<1>1. /\ Len(list) \in Nat
      /\ list \in [1..Len(list) -> ToSet(list)]
      /\ \A x \in ToSet(list) : \E i \in 1..Len(list) : list[i] = x
  BY DEF ToSet
<1>2. list \in Bijection(1..Len(list), ToSet(list))
  BY <1>1 DEF NoTwice, Bijection, Injection, Surjection, IsInjective
<1>3. IsFiniteSet(1..Len(list)) /\ Cardinality(1..Len(list)) = Len(list)
  <2> DEFINE N == Len(list)
  <2>1. N \in Nat
    BY <1>1
  <2> HIDE DEF N
  <2>2. IsFiniteSet(1..N) /\ Cardinality(1..N) = N
    BY <2>1, FS_Interval
  <2> QED BY <2>2 DEF N
<1>4. ExistsBijection(1..Len(list), ToSet(list))
  BY <1>2 DEF ExistsBijection
<1> QED BY <1>3, <1>4, FS_Bijection

\* Of two crawls one is the newer.
LEMMA NewerIsAnOrder ==
    ASSUME NEW c \in CrawlId, NEW d \in CrawlId
    PROVE  /\ ~SortsBefore(c, c)
           /\ SortsBefore(c, d) => ~SortsBefore(d, c)
           /\ c # d => SortsBefore(c, d) \/ SortsBefore(d, c)
           /\ \A e \in CrawlId : SortsBefore(c, d) /\ SortsBefore(d, e) => SortsBefore(c, e)
BY DEF CrawlId, SortsBefore

\* A list without duplicates can be sorted: the place of a crawl is the number of newer
\* ones.
LEMMA SortExists ==
    ASSUME NEW list \in Seq(CrawlId), NoTwice(list)
    PROVE  \E sorted \in [1..Len(list) -> ToSet(list)] :
             /\ ToSet(sorted) = ToSet(list)
             /\ \A i, j \in 1..Len(list) : i < j => ~SortsBefore(sorted[j], sorted[i])
<1> DEFINE N == Len(list)
           Newer(i) == {k \in 1..N : SortsBefore(list[k], list[i])}
           place == [i \in 1..N |-> Cardinality(Newer(i)) + 1]
<1>0. N \in Nat /\ \A i \in 1..N : list[i] \in CrawlId
  OBVIOUS
<1>1. IsFiniteSet(1..N) /\ Cardinality(1..N) = N
  <2> HIDE DEF N
  <2> QED BY <1>0, FS_Interval
<1>2. ASSUME NEW i \in 1..N PROVE IsFiniteSet(Newer(i)) /\ Cardinality(Newer(i)) \in 0..(N - 1)
  <2>1. Newer(i) \subseteq (1..N) \ {i}
    BY <1>0, NewerIsAnOrder
  <2>2. IsFiniteSet((1..N) \ {i}) /\ Cardinality((1..N) \ {i}) = N - 1
    BY <1>1, FS_RemoveElement
  <2>3. IsFiniteSet(Newer(i)) /\ Cardinality(Newer(i)) <= N - 1
    BY <2>1, <2>2, FS_Subset
  <2>4. Cardinality(Newer(i)) \in Nat
    BY <2>3, FS_CardinalityType
  <2> QED BY <1>0, <2>3, <2>4
<1>3. ASSUME NEW i \in 1..N, NEW j \in 1..N, SortsBefore(list[i], list[j])
      PROVE  Cardinality(Newer(i)) < Cardinality(Newer(j))
  <2>1. Newer(i) \subseteq Newer(j) /\ i \in Newer(j) /\ i \notin Newer(i)
    BY <1>0, <1>3, NewerIsAnOrder
  <2> HIDE DEF Newer
  <2> QED BY <1>2, <2>1, FS_Subset
<1>4. place \in [1..N -> 1..N]
  <2>1. \A i \in 1..N : Cardinality(Newer(i)) + 1 \in 1..N
    <3> HIDE DEF Newer
    <3> QED BY <1>0, <1>2
  <2> HIDE DEF Newer
  <2> QED BY <2>1
<1>5. \A i, j \in 1..N : SortsBefore(list[i], list[j]) => place[i] < place[j]
  <2> HIDE DEF Newer
  <2> QED BY <1>2, <1>3
<1> HIDE DEF place
<1>6. place \in Injection(1..N, 1..N)
  <2>1. ASSUME NEW i \in 1..N, NEW j \in 1..N, place[i] = place[j] PROVE i = j
    <3>1. ~SortsBefore(list[i], list[j]) /\ ~SortsBefore(list[j], list[i])
      BY <1>4, <1>5, <2>1
    <3>2. list[i] = list[j]
      BY <1>0, <3>1, NewerIsAnOrder
    <3> QED BY <3>2 DEF NoTwice
  <2> QED BY <1>4, <2>1 DEF Injection, IsInjective
<1>7. place \in Surjection(1..N, 1..N)
  BY <1>1, <1>6, FS_Injection
<1> DEFINE at == [p \in 1..N |-> CHOOSE i \in 1..N : place[i] = p]
           sorted == [p \in 1..N |-> list[at[p]]]
<1>8. \A p \in 1..N : at[p] \in 1..N /\ place[at[p]] = p
  BY <1>7 DEF Surjection
<1>9. \A i \in 1..N : at[place[i]] = i
  BY <1>4, <1>6, <1>8 DEF Injection, IsInjective
<1> HIDE DEF at
<1>10. sorted \in [1..N -> ToSet(list)]
  BY <1>8 DEF ToSet
<1>11. ToSet(sorted) = ToSet(list)
  <2>1. \A x \in ToSet(list) : \E p \in 1..N : sorted[p] = x
    <3> SUFFICES ASSUME NEW i \in 1..N PROVE \E p \in 1..N : sorted[p] = list[i]
      BY DEF ToSet
    <3>1. place[i] \in 1..N /\ sorted[place[i]] = list[i]
      BY <1>4, <1>9
    <3> QED BY <3>1
  <2>2. DOMAIN sorted = 1..N
    OBVIOUS
  <2> HIDE DEF sorted
  <2> QED BY <1>10, <2>1, <2>2 DEF ToSet
<1>12. \A i, j \in 1..N : i < j => ~SortsBefore(sorted[j], sorted[i])
  <2> SUFFICES ASSUME NEW i \in 1..N, NEW j \in 1..N, i < j, SortsBefore(list[at[j]], list[at[i]])
               PROVE  FALSE
    OBVIOUS
  <2>1. place[at[j]] < place[at[i]]
    BY <1>5, <1>8
  <2> QED BY <1>8, <2>1
<1> QED BY <1>10, <1>11, <1>12

\* sortCrawls: the same crawls, each before all that are older.
LEMMA SortIs ==
    ASSUME NEW list \in Seq(CrawlId), NoTwice(list)
    PROVE  /\ sortCrawls(list) \in Seq(CrawlId)
           /\ Len(sortCrawls(list)) = Len(list)
           /\ ToSet(sortCrawls(list)) = ToSet(list)
           /\ \A i, j \in 1..Len(list) :
                i < j => SortsBefore(sortCrawls(list)[i], sortCrawls(list)[j])
<1> DEFINE N == Len(list)
           s == sortCrawls(list)
<1>1. /\ s \in [1..N -> ToSet(list)]
      /\ ToSet(s) = ToSet(list)
      /\ \A i, j \in 1..N : i < j => ~SortsBefore(s[j], s[i])
  BY SortExists DEF sortCrawls
<1>2. N \in Nat /\ \A x \in ToSet(list) : x \in CrawlId
  BY DEF ToSet
<1> HIDE DEF s
<1>3. s \in Seq(CrawlId) /\ Len(s) = N
  BY <1>1, <1>2
<1>4. s \in Injection(1..N, ToSet(list))
  <2>1. s \in Surjection(1..N, ToSet(list))
    BY <1>1 DEF ToSet, Surjection
  <2>2. IsFiniteSet(1..N) /\ Cardinality(1..N) = N
    <3> HIDE DEF N
    <3> QED BY <1>2, FS_Interval
  <2>3. Cardinality(ToSet(list)) = N
    BY DistinctCount
  <2> QED BY <2>1, <2>2, <2>3, FS_SurjSameCardinalityImpliesInj
<1>5. ASSUME NEW i \in 1..N, NEW j \in 1..N, i < j PROVE SortsBefore(s[i], s[j])
  <2>1. i # j
    BY <1>2, <1>5
  <2>2. s[i] # s[j]
    BY <1>4, <2>1 DEF Injection, IsInjective
  <2>3. s[i] \in CrawlId /\ s[j] \in CrawlId
    BY <1>1, <1>2
  <2> QED BY <1>1, <1>5, <2>2, <2>3, NewerIsAnOrder
<1> QED BY <1>1, <1>3, <1>5 DEF s

\* As many as were asked for of a list without duplicates are the newest ones.
LEMMA NewestIs ==
    ASSUME world.count \in Nat, NEW list \in Seq(CrawlId), NoTwice(list),
           NEW n, n = IF world.count = 0 THEN 1 ELSE world.count,
           NEW c, c = Newest(list)
    PROVE  /\ Len(c) = IF n < Cardinality(ToSet(list)) THEN n ELSE Cardinality(ToSet(list))
           /\ Len(c) \in Nat /\ Len(c) <= Len(list)
           /\ ToSet(c) \subseteq ToSet(list)
           /\ \A i, j \in 1..Len(c) : i < j => SortsBefore(c[i], c[j])
           /\ \A d \in ToSet(list) \ ToSet(c) : SortsBefore(c[Len(c)], d)
<1> DEFINE N == Len(list)
           s == sortCrawls(list)
           m == IF n < N THEN n ELSE N
<1>1. /\ s \in Seq(CrawlId) /\ Len(s) = N /\ ToSet(s) = ToSet(list)
      /\ \A i, j \in 1..N : i < j => SortsBefore(s[i], s[j])
  BY SortIs
<1>2. N \in Nat /\ n \in Nat \ {0} /\ Cardinality(ToSet(list)) = N
  BY DistinctCount
<1>3. c = IF n < Len(s) THEN SubSeq(s, 1, n) ELSE s
  BY DEF Newest
<1> HIDE DEF s, N
<1>4. m \in Nat /\ m <= N /\ (N # 0 => m # 0)
  BY <1>2
<1>5. Len(c) = m /\ \A i \in 1..m : c[i] = s[i]
  <2>1. CASE n < Len(s)
    BY <1>1, <1>2, <1>3, <2>1
  <2>2. CASE ~(n < Len(s))
    BY <1>1, <1>2, <1>3, <2>2
  <2> QED BY <2>1, <2>2
<1> HIDE DEF m
<1>6. DOMAIN c = 1..m /\ DOMAIN s = 1..N
  <2>1. c \in Seq(CrawlId)
    BY <1>1, <1>2, <1>3
  <2> QED BY <1>1, <1>5, <2>1
<1>7. \A i \in 1..m : i \in 1..N
  BY <1>2, <1>4
<1>8. ToSet(c) = {s[i] : i \in 1..m} /\ ToSet(s) = {s[i] : i \in 1..N}
  BY <1>5, <1>6 DEF ToSet
<1>9. \A i, j \in 1..m : i < j => SortsBefore(c[i], c[j])
  BY <1>1, <1>5, <1>7
<1>10. ASSUME NEW d \in ToSet(list) \ ToSet(c) PROVE SortsBefore(c[m], d)
  <2>1. PICK i \in 1..N : s[i] = d
    BY <1>1, <1>8
  <2>2. i \notin 1..m
    BY <1>8, <2>1
  <2>3. m \in 1..m /\ m \in 1..N /\ m < i
    BY <1>2, <1>4, <2>2
  <2> QED BY <1>1, <1>5, <2>1, <2>3
<1>11. ToSet(c) \subseteq ToSet(list)
  BY <1>1, <1>7, <1>8
<1>12. Len(c) = IF n < Cardinality(ToSet(list)) THEN n ELSE Cardinality(ToSet(list))
  BY <1>2, <1>5 DEF m
<1>13. Len(c) \in Nat /\ Len(c) <= N
  BY <1>4, <1>5
<1> QED BY <1>5, <1>9, <1>10, <1>11, <1>12, <1>13 DEF N

Listed == {CrawlIds(world.collinfo), world.html}

NewestInv ==
    /\ world \in Worlds
    /\ pc \in {"start", "html"} => crawls = <<>>
    /\ Len(crawls) \in 0..MaxCrawls
    /\ crawls # <<>> /\ world.wanted = None =>
          \E list \in Listed : crawls = Newest(dedupeCrawls(list))

LEMMA WorldTypes ==
    ASSUME NEW w \in Worlds
    PROVE  /\ w.index \in Seq(Block) /\ w.manifest \in Seq(STRING)
           /\ w.collinfo \in Seq(CrawlId \cup {Junk}) /\ w.html \in Seq(CrawlId)
           /\ w.wanted \in CrawlId \cup {None, Junk} /\ w.count \in Nat
<1>1. w \in World
  BY SelectAssumption
<1> QED BY <1>1 DEF World

LEMMA MaxCrawlsType ==
    ASSUME world \in Worlds
    PROVE  MaxCrawls \in Nat \ {0} /\ 0 \in 0..MaxCrawls /\ 1 \in 0..MaxCrawls
<1>1. world.collinfo \in Seq(CrawlId \cup {Junk}) /\ world.html \in Seq(CrawlId)
  BY WorldTypes
<1>2. Len(world.collinfo) \in Nat /\ Len(world.html) \in Nat
  BY <1>1
<1>3. \A a, b \in Nat : a + b + 1 \in Nat \ {0}
  OBVIOUS
<1>4. MaxCrawls \in Nat \ {0}
  BY <1>2, <1>3, Zenon DEF MaxCrawls
<1> HIDE DEF MaxCrawls
<1> QED BY <1>4

\* What is listed is valid, and there is not more of it than was published.
LEMMA ListedIs ==
    ASSUME world \in Worlds, NEW list \in Listed
    PROVE  /\ dedupeCrawls(list) \in Seq(CrawlId) /\ NoTwice(dedupeCrawls(list))
           /\ Len(dedupeCrawls(list)) \in Nat /\ Len(dedupeCrawls(list)) <= MaxCrawls
           /\ \/ ToSet(dedupeCrawls(list)) = ToSet(world.collinfo) \ {Junk}
              \/ ToSet(dedupeCrawls(list)) = ToSet(world.html) \ {Junk}
<1>1. world.collinfo \in Seq(CrawlId \cup {Junk}) /\ world.html \in Seq(CrawlId)
  BY WorldTypes
<1>2. /\ CrawlIds(world.collinfo) \in Seq(CrawlId)
      /\ ToSet(CrawlIds(world.collinfo)) = ToSet(world.collinfo) \ {Junk}
      /\ Len(CrawlIds(world.collinfo)) <= Len(world.collinfo)
  BY <1>1, CrawlIdsAre
<1>3. list \in Seq(CrawlId)
  BY <1>1, <1>2 DEF Listed
<1>4. /\ dedupeCrawls(list) \in Seq(CrawlId) /\ NoTwice(dedupeCrawls(list))
      /\ ToSet(dedupeCrawls(list)) = ToSet(list)
      /\ Len(dedupeCrawls(list)) <= Len(list)
  BY <1>3, DistinctIs DEF dedupeCrawls
<1>5. ToSet(world.html) = ToSet(world.html) \ {Junk}
  BY <1>1, SentinelAssumption DEF ToSet
<1>6. /\ Len(world.collinfo) \in Nat /\ Len(world.html) \in Nat
      /\ Len(dedupeCrawls(list)) \in Nat /\ Len(list) \in Nat
  BY <1>1, <1>3, <1>4
<1>7. Len(list) <= Len(world.collinfo) \/ Len(list) <= Len(world.html)
  BY <1>2, <1>6 DEF Listed
<1>8. Len(dedupeCrawls(list)) <= MaxCrawls
  <2>1. \A a, b, c, d \in Nat : c <= d /\ (d <= a \/ d <= b) => c <= a + b + 1
    OBVIOUS
  <2> QED BY <1>4, <1>6, <1>7, <2>1, Zenon DEF MaxCrawls
<1> QED BY <1>2, <1>4, <1>5, <1>6, <1>8 DEF Listed

LEMMA NewestStep ==
    ASSUME NewestInv, [Next]_vars
    PROVE  NewestInv'
<1>1. ASSUME UNCHANGED <<world, crawls>>, pc' \in {"start", "html"} => pc \in {"start", "html"}
      PROVE  NewestInv'
  BY <1>1 DEF NewestInv, Listed, Newest, MaxCrawls
<1>2. ASSUME NEW list \in Listed, Select(Newest(dedupeCrawls(list)))
      PROVE  NewestInv'
  <2>1. world' = world /\ crawls' = Newest(dedupeCrawls(list)) /\ pc' = "crawl"
    BY <1>2 DEF Select, chosen
  <2>2. Len(crawls') \in 0..MaxCrawls
    <3>1. world \in Worlds /\ world.count \in Nat
      BY WorldTypes DEF NewestInv
    <3>2. /\ dedupeCrawls(list) \in Seq(CrawlId) /\ NoTwice(dedupeCrawls(list))
          /\ Len(dedupeCrawls(list)) \in Nat /\ Len(dedupeCrawls(list)) <= MaxCrawls
      BY <3>1, ListedIs
    <3>3. Len(crawls') \in Nat /\ Len(crawls') <= Len(dedupeCrawls(list))
      BY <2>1, <3>1, <3>2, NewestIs
    <3>4. MaxCrawls \in Nat
      BY <3>1, MaxCrawlsType
    <3>5. \A a, b, c \in Nat : a <= b /\ b <= c => a \in 0..c
      OBVIOUS
    <3> QED BY <3>2, <3>3, <3>4, <3>5, Zenon
  <2>3. \E l \in Listed' : crawls' = Newest(dedupeCrawls(l))'
    BY <2>1 DEF Listed, Newest
  <2> QED BY <2>1, <2>2, <2>3 DEF NewestInv, MaxCrawls
<1>3. CASE ExplicitCrawl
  <2>1. /\ world' = world /\ crawls' = <<world.wanted>> /\ pc' = "crawl"
        /\ world.wanted \in CrawlId
    BY <1>3 DEF ExplicitCrawl, Select, chosen
  <2>2. Len(crawls') = 1 /\ MaxCrawls' = MaxCrawls /\ 1 \in 0..MaxCrawls
    <3>1. MaxCrawls' = MaxCrawls
      BY <2>1 DEF MaxCrawls
    <3> QED BY <2>1, <3>1, MaxCrawlsType DEF NewestInv
  <2>3. world.wanted # None
    BY <2>1, SentinelAssumption
  <2> QED BY <2>1, <2>2, <2>3 DEF NewestInv
<1>4. CASE CollInfo
  BY <1>2, <1>4 DEF CollInfo, Listed
<1>5. CASE Html
  BY <1>2, <1>5 DEF Html, Listed
<1>6. CASE CollInfoFails \/ ExplicitCrawlFails \/ HtmlFails \/ NoMoreCrawls
  <2>1. /\ UNCHANGED <<world, crawls>>
        /\ pc' \in {"start", "html"} => pc \in {"start", "html"}
    BY <1>6 DEF CollInfoFails, ExplicitCrawlFails, HtmlFails, NoMoreCrawls, RunFails, chosen
  <2> QED BY <1>1, <2>1
<1>7. ASSUME NEW failed, NextCrawl(failed) PROVE NewestInv'
  BY <1>1, <1>7 DEF NextCrawl, chosen
<1>8. CASE ManifestFails \/ OpenClusterFails \/ UseClusterFails \/ ReadFileFails \/ NoMoreFiles
  BY <1>7, <1>8 DEF ManifestFails, OpenClusterFails, UseClusterFails, ReadFileFails, NoMoreFiles
<1>9. CASE InvalidCluster
  <2>1. \/ NextCrawl(TRUE)
        \/ UNCHANGED <<world, crawls>> /\ pc' = "cluster"
    BY <1>9 DEF InvalidCluster, chosen
  <2> QED BY <1>1, <1>7, <2>1
<1>10. CASE Manifest \/ OpenCluster \/ UseCluster \/ SkipFile \/ ReadFile
  <2>1. /\ UNCHANGED <<world, crawls>>
        /\ pc' \in {"cluster", "sequential", "parse", "files"}
    BY <1>10 DEF Manifest, OpenCluster, UseCluster, SkipFile, ReadFile, AtFile, chosen
  <2> QED BY <1>1, <2>1
<1>11. CASE UNCHANGED vars
  BY <1>1, <1>11 DEF vars, chosen
<1> QED
  BY <1>3, <1>4, <1>5, <1>6, <1>8, <1>9, <1>10, <1>11 DEF Next

LEMMA NewestInit == Init => NewestInv
<1> SUFFICES ASSUME Init PROVE NewestInv
  OBVIOUS
<1>1. world \in Worlds /\ crawls = <<>>
  BY DEF Init
<1>2. 0 \in 0..MaxCrawls
  BY <1>1, MaxCrawlsType
<1> QED BY <1>1, <1>2 DEF NewestInv

\* The crawls of a run are the newest ones of the list, as many as were asked for, each
\* once and newest first, whatever the list (latestCommonCrawlCrawls, sortCrawls).
THEOREM NewestAreChosen == Spec => []ChoosesNewest
<1>1. NewestInv => ChoosesNewest
  <2> SUFFICES ASSUME NewestInv, crawls # <<>>, world.wanted = None
               PROVE  LET n == IF world.count = 0 THEN 1 ELSE world.count
                      IN  NewestOf(world.collinfo, n) \/ NewestOf(world.html, n)
    BY DEF ChoosesNewest
  <2> DEFINE n == IF world.count = 0 THEN 1 ELSE world.count
  <2>1. PICK list \in Listed : crawls = Newest(dedupeCrawls(list))
    BY DEF NewestInv
  <2> DEFINE l == dedupeCrawls(list)
  <2>2. world \in Worlds /\ world.count \in Nat
    BY WorldTypes DEF NewestInv
  <2>3. /\ l \in Seq(CrawlId) /\ NoTwice(l)
        /\ \/ ToSet(l) = ToSet(world.collinfo) \ {Junk}
           \/ ToSet(l) = ToSet(world.html) \ {Junk}
    BY <2>2, ListedIs
  <2> HIDE DEF l, n
  <2>4. /\ Len(crawls) = IF n < Cardinality(ToSet(l)) THEN n ELSE Cardinality(ToSet(l))
        /\ ToSet(crawls) \subseteq ToSet(l)
        /\ \A i, j \in 1..Len(crawls) : i < j => SortsBefore(crawls[i], crawls[j])
        /\ \A d \in ToSet(l) \ ToSet(crawls) : SortsBefore(crawls[Len(crawls)], d)
    <3>1. crawls = Newest(l) /\ n = IF world.count = 0 THEN 1 ELSE world.count
      BY <2>1 DEF l, n
    <3> QED BY <2>2, <2>3, <3>1, NewestIs
  <2>5. NewestOf(world.collinfo, n) \/ NewestOf(world.html, n)
    <3>1. CASE ToSet(l) = ToSet(world.collinfo) \ {Junk}
      BY <2>4, <3>1 DEF NewestOf
    <3>2. CASE ToSet(l) = ToSet(world.html) \ {Junk}
      BY <2>4, <3>2 DEF NewestOf
    <3> QED BY <2>3, <3>1, <3>2
  <2> QED BY <2>5 DEF n
<1> QED
  BY <1>1, NewestInit, NewestStep, PTL DEF Spec

----------------------------------------------------------------------------
(* The parser of cluster.idx *)

LEMMA ParserIsRecursive ==
    ASSUME NEW lines, Len(lines) \in Nat
    PROVE  \E parsed :
             /\ parseCommonCrawlCluster(lines) = parsed[Len(lines)]
             /\ parsed[0] = Unparsed
             /\ \A n \in 1..Len(lines) : parsed[n] = ReadLine(parsed[n - 1], lines[n])
<1> DEFINE N == Len(lines)
           After(before, n) == ReadLine(before, lines[n])
           IsOut(out, k) == out[0] = Unparsed /\ \A n \in 1..k : out[n] = After(out[n - 1], n)
           S == {k \in Nat : \E out : IsOut(out, k)}
           rec[n \in 0..N] == IF n = 0 THEN Unparsed ELSE After(rec[n - 1], n)
<1>1. parseCommonCrawlCluster(lines) = rec[N]
  BY Zenon DEF parseCommonCrawlCluster
<1> HIDE DEF After
<1>2. 0 \in S
  <2>1. IsOut([n \in {0} |-> Unparsed], 0)
    OBVIOUS
  <2> HIDE DEF IsOut
  <2> QED BY <2>1
<1>3. ASSUME NEW k \in Nat, k \in S PROVE k + 1 \in S
  <2>1. PICK out : IsOut(out, k)
    BY <1>3
  <2> DEFINE more == [n \in 0..(k + 1) |-> IF n = k + 1 THEN After(out[k], k + 1) ELSE out[n]]
  <2>2. IsOut(more, k + 1)
    <3>1. /\ \A n \in 0..k : more[n] = out[n]
          /\ more[k + 1] = After(out[k], k + 1)
      OBVIOUS
    <3> HIDE DEF more
    <3>2. more[0] = Unparsed
      BY <2>1, <3>1
    <3>3. \A n \in 1..k : n \in 0..k /\ n - 1 \in 0..k
      OBVIOUS
    <3>4. \A n \in 1..k : more[n] = After(more[n - 1], n)
      BY <2>1, <3>1, <3>3
    <3>5. k \in 0..k /\ (k + 1) - 1 = k /\ \A n \in 1..(k + 1) : n \in 1..k \/ n = k + 1
      OBVIOUS
    <3> QED BY <3>1, <3>2, <3>4, <3>5
  <2> HIDE DEF more, IsOut
  <2>3. \E o : IsOut(o, k + 1)
    BY <2>2
  <2> QED BY <2>3
<1>4. PICK out : IsOut(out, N)
  <2>1. N \in S
    <3> HIDE DEF S
    <3> QED BY <1>2, <1>3, SetInduction
  <2> QED BY <2>1
<1>5. rec = [n \in 0..N |-> IF n = 0 THEN Unparsed ELSE After(rec[n - 1], n)]
  <2> DEFINE g == [n \in 0..N |-> out[n]]
  <2>1. g = [n \in 0..N |-> IF n = 0 THEN Unparsed ELSE After(g[n - 1], n)]
    BY <1>4
  <2>2. \E f : f = [n \in 0..N |-> IF n = 0 THEN Unparsed ELSE After(f[n - 1], n)]
    BY <2>1
  <2> QED BY <2>2, Zenon
<1>6. rec[0] = Unparsed /\ \A n \in 1..N : rec[n] = After(rec[n - 1], n)
  <2> HIDE DEF rec
  <2> QED BY <1>5
<1> QED BY <1>1, <1>6 DEF After

ParserState == [blocks : Seq(Block), previous : Block \cup {None}, inCZRange : BOOLEAN,
                stopped : BOOLEAN, failed : BOOLEAN]

FilesOf(blocks) == {b.file : b \in ToSet(blocks)}

\* The first key of the line is of this class.
StartsIn(line, class) == line \in Block /\ line.keys[1] = class

\* The line is the last one before the range.
LastBefore(lines, k) ==
    /\ StartsIn(lines[k + 1], "cz") /\ lines[k] \in Block
    /\ \A h \in 1..k : ~StartsIn(lines[h], "cz")

\* What the parser has of the first m lines, if it has read them all.
HasRead(lines, m, s) ==
    /\ \A k \in 1..m : lines[k] # TooLong
    /\ s.inCZRange <=> \E k \in 1..m : StartsIn(lines[k], "cz")
    /\ s.previous = IF m = 0 THEN None ELSE lines[m]
    /\ \A k \in 1..m : StartsIn(lines[k], "cz") => lines[k].file \in FilesOf(s.blocks)
    /\ \A k \in 1..m : k < m /\ LastBefore(lines, k) => lines[k].file \in FilesOf(s.blocks)
    /\ \A b \in ToSet(s.blocks) : \E k \in 1..m :
          b = lines[k] /\ (StartsIn(b, "cz") \/ (k < m /\ LastBefore(lines, k)))

\* The parser was stopped by the line m above the range.
StoppedAt(lines, m, s) == StartsIn(lines[m], "above") /\ HasRead(lines, m - 1, s)

IsParsed(lines, n, s) ==
    \/ s.failed /\ s.stopped /\ \E k \in 1..n : lines[k] = TooLong
    \/ ~s.failed /\ ~s.stopped /\ HasRead(lines, n, s)
    \/ ~s.failed /\ s.stopped /\ \E m \in 1..n : StoppedAt(lines, m, s)

\* A block is appended unless the same one is there.
LEMMA BlockAppended ==
    ASSUME NEW blocks \in Seq(Block), NEW b \in Block
    PROVE  /\ appendClusterBlock(blocks, b) \in Seq(Block)
           /\ ToSet(appendClusterBlock(blocks, b)) \subseteq ToSet(blocks) \cup {b}
           /\ FilesOf(appendClusterBlock(blocks, b)) = FilesOf(blocks) \cup {b.file}
<1>1. CASE \E i \in 1..Len(blocks) : SameBlock(blocks[i], b)
  <2>1. appendClusterBlock(blocks, b) = blocks
    BY <1>1 DEF appendClusterBlock
  <2>2. b.file \in FilesOf(blocks)
    <3>1. PICK i \in 1..Len(blocks) : blocks[i].file = b.file
      BY <1>1 DEF SameBlock
    <3>2. blocks[i] \in ToSet(blocks)
      BY DEF ToSet
    <3> QED BY <3>1, <3>2 DEF FilesOf
  <2> QED BY <2>1, <2>2
<1>2. CASE ~\E i \in 1..Len(blocks) : SameBlock(blocks[i], b)
  <2>1. appendClusterBlock(blocks, b) = Append(blocks, b)
    BY <1>2 DEF appendClusterBlock
  <2>2. Append(blocks, b) \in Seq(Block) /\ ToSet(Append(blocks, b)) = ToSet(blocks) \cup {b}
    BY OneMore
  <2> HIDE DEF Block
  <2> QED BY <2>1, <2>2 DEF FilesOf
<1> QED BY <1>1, <1>2

\* A block in the range is appended, behind the one before it if it is the first.
LEMMA RangeAppended ==
    ASSUME NEW s \in ParserState, NEW b \in Block
    PROVE  LET before == IF s.inCZRange \/ s.previous = None THEN {} ELSE {s.previous}
           IN  /\ InCZRange(s, b) \in Seq(Block)
               /\ ToSet(InCZRange(s, b)) \subseteq ToSet(s.blocks) \cup before \cup {b}
               /\ FilesOf(InCZRange(s, b)) = FilesOf(s.blocks) \cup {c.file : c \in before} \cup {b.file}
<1>1. s.blocks \in Seq(Block) /\ s.previous \in Block \cup {None}
  BY DEF ParserState
<1>2. CASE s.inCZRange \/ s.previous = None
  BY <1>1, <1>2, BlockAppended DEF InCZRange
<1>3. CASE ~(s.inCZRange \/ s.previous = None)
  <2> DEFINE c == appendClusterBlock(s.blocks, s.previous)
  <2>1. /\ c \in Seq(Block)
        /\ ToSet(c) \subseteq ToSet(s.blocks) \cup {s.previous}
        /\ FilesOf(c) = FilesOf(s.blocks) \cup {s.previous.file}
    BY <1>1, <1>3, BlockAppended
  <2>2. InCZRange(s, b) = appendClusterBlock(c, b)
    BY <1>3 DEF InCZRange
  <2> HIDE DEF c
  <2>3. /\ appendClusterBlock(c, b) \in Seq(Block)
        /\ ToSet(appendClusterBlock(c, b)) \subseteq ToSet(c) \cup {b}
        /\ FilesOf(appendClusterBlock(c, b)) = FilesOf(c) \cup {b.file}
    BY <2>1, BlockAppended
  <2> QED BY <1>3, <2>1, <2>2, <2>3
<1> QED BY <1>2, <1>3

LEMMA NextIndex ==
    ASSUME NEW n \in Nat
    PROVE  \A k : k \in 1..(n + 1) <=> k \in 1..n \/ k = n + 1
OBVIOUS

\* A line in the range.
LEMMA RangeRead ==
    ASSUME NEW lines \in Seq(Block \cup {TooLong}), NEW n \in Nat, n < Len(lines),
           NEW s \in ParserState, HasRead(lines, n, s),
           NEW t \in ParserState, StartsIn(lines[n + 1], "cz"),
           t.blocks = InCZRange(s, lines[n + 1]), t.inCZRange, t.previous = lines[n + 1]
    PROVE  HasRead(lines, n + 1, t)
<1> DEFINE line == lines[n + 1]
           before == IF s.inCZRange \/ s.previous = None THEN {} ELSE {s.previous}
<1>1. /\ ToSet(t.blocks) \subseteq ToSet(s.blocks) \cup before \cup {line}
      /\ FilesOf(t.blocks) = FilesOf(s.blocks) \cup {c.file : c \in before} \cup {line.file}
  BY RangeAppended DEF StartsIn
<1>2. /\ s.inCZRange <=> \E k \in 1..n : StartsIn(lines[k], "cz")
      /\ s.previous = IF n = 0 THEN None ELSE lines[n]
      /\ \A k \in 1..n : lines[k] # TooLong
      /\ \A k \in 1..n : StartsIn(lines[k], "cz") => lines[k].file \in FilesOf(s.blocks)
      /\ \A k \in 1..n : k < n /\ LastBefore(lines, k) => lines[k].file \in FilesOf(s.blocks)
      /\ \A b \in ToSet(s.blocks) : \E k \in 1..n :
            b = lines[k] /\ (StartsIn(b, "cz") \/ (k < n /\ LastBefore(lines, k)))
  BY DEF HasRead
<1>3. line \in Block /\ line # TooLong
  BY SentinelAssumption DEF StartsIn
<1>4. \A k \in 1..n : lines[k] \in Block
  BY <1>2
<1>5. None \notin Block
  BY SentinelAssumption
<1>6. before = IF n # 0 /\ LastBefore(lines, n) THEN {lines[n]} ELSE {}
  <2>1. CASE n = 0
    BY <1>2, <2>1
  <2>2. CASE n # 0
    <3>1. n \in 1..n /\ s.previous = lines[n] /\ lines[n] \in Block
      BY <1>2, <1>4, <2>2
    <3>2. s.previous # None
      BY <1>5, <3>1
    <3>3. LastBefore(lines, n) <=> ~s.inCZRange
      BY <1>2, <3>1 DEF LastBefore
    <3> QED BY <2>2, <3>1, <3>2, <3>3
  <2> QED BY <2>1, <2>2
<1> HIDE DEF before, line
<1>7. \A k \in 1..(n + 1) : lines[k] # TooLong
  BY <1>2, <1>3, NextIndex DEF line
<1>8. \A k \in 1..(n + 1) : StartsIn(lines[k], "cz") => lines[k].file \in FilesOf(t.blocks)
  BY <1>1, <1>2, NextIndex DEF line
<1>9. \A k \in 1..(n + 1) : k < n + 1 /\ LastBefore(lines, k) => lines[k].file \in FilesOf(t.blocks)
  <2> SUFFICES ASSUME NEW k \in 1..n, LastBefore(lines, k) PROVE lines[k].file \in FilesOf(t.blocks)
    BY NextIndex
  <2>1. CASE k < n
    BY <1>1, <1>2, <2>1
  <2>2. CASE k = n
    BY <1>1, <1>6, <2>2
  <2> QED BY <2>1, <2>2
<1>10. ASSUME NEW b \in ToSet(t.blocks)
       PROVE  \E k \in 1..(n + 1) :
                 b = lines[k] /\ (StartsIn(b, "cz") \/ (k < n + 1 /\ LastBefore(lines, k)))
  <2>1. CASE b \in ToSet(s.blocks)
    <3>1. PICK k \in 1..n : b = lines[k] /\ (StartsIn(b, "cz") \/ (k < n /\ LastBefore(lines, k)))
      BY <1>2, <2>1
    <3>2. k \in 1..(n + 1) /\ k < n + 1
      OBVIOUS
    <3> QED BY <3>1, <3>2
  <2>2. CASE b \in before
    <3>1. b = lines[n] /\ n # 0 /\ LastBefore(lines, n)
      BY <1>6, <2>2
    <3>2. n \in 1..(n + 1) /\ n < n + 1
      BY <3>1
    <3> QED BY <3>1, <3>2
  <2>3. CASE b = line
    <3>1. n + 1 \in 1..(n + 1)
      OBVIOUS
    <3> QED BY <2>3, <3>1 DEF line
  <2> QED BY <1>1, <1>10, <2>1, <2>2, <2>3
<1>11. t.previous = IF n + 1 = 0 THEN None ELSE lines[n + 1]
  OBVIOUS
<1>12. t.inCZRange <=> \E k \in 1..(n + 1) : StartsIn(lines[k], "cz")
  <2>1. n + 1 \in 1..(n + 1)
    OBVIOUS
  <2> QED BY <2>1
<1> QED BY <1>7, <1>8, <1>9, <1>10, <1>11, <1>12 DEF HasRead

\* A line before or behind the range.
LEMMA OtherRead ==
    ASSUME NEW lines, NEW n \in Nat, NEW s, HasRead(lines, n, s),
           NEW t, ~StartsIn(lines[n + 1], "cz"), lines[n + 1] # TooLong,
           t.blocks = s.blocks, t.inCZRange = s.inCZRange, t.previous = lines[n + 1]
    PROVE  HasRead(lines, n + 1, t)
<1>1. \A k \in 1..(n + 1) : lines[k] # TooLong
  BY NextIndex DEF HasRead
<1>2. \A k \in 1..(n + 1) : StartsIn(lines[k], "cz") => k \in 1..n
  BY NextIndex
<1>3. \A k \in 1..(n + 1) : k < n + 1 /\ LastBefore(lines, k) => k \in 1..n /\ k < n
  <2> SUFFICES ASSUME LastBefore(lines, n) PROVE FALSE
    OBVIOUS
  <2> QED BY DEF LastBefore
<1>4. \A k \in 1..n : k \in 1..(n + 1) /\ k < n + 1
  OBVIOUS
<1>5. n + 1 # 0
  OBVIOUS
<1>6. \A k \in 1..(n + 1) : StartsIn(lines[k], "cz") => lines[k].file \in FilesOf(t.blocks)
  BY <1>2 DEF HasRead
<1>7. \A k \in 1..(n + 1) : k < n + 1 /\ LastBefore(lines, k) => lines[k].file \in FilesOf(t.blocks)
  BY <1>3 DEF HasRead
<1>8. \A b \in ToSet(t.blocks) : \E k \in 1..(n + 1) :
          b = lines[k] /\ (StartsIn(b, "cz") \/ (k < n + 1 /\ LastBefore(lines, k)))
  BY <1>4 DEF HasRead
<1>9. t.inCZRange <=> \E k \in 1..(n + 1) : StartsIn(lines[k], "cz")
  BY <1>2, <1>4 DEF HasRead
<1> QED BY <1>1, <1>5, <1>6, <1>7, <1>8, <1>9 DEF HasRead

LEMMA ParsedOneMore ==
    ASSUME NEW lines \in Seq(Block \cup {TooLong}), NEW n \in Nat, n < Len(lines),
           NEW s \in ParserState, IsParsed(lines, n, s)
    PROVE  /\ ReadLine(s, lines[n + 1]) \in ParserState
           /\ IsParsed(lines, n + 1, ReadLine(s, lines[n + 1]))
<1> DEFINE line == lines[n + 1]
           t == ReadLine(s, line)
<1>1. line \in Block \cup {TooLong} /\ n + 1 \in 1..Len(lines)
  OBVIOUS
<1>2. line # Junk
  BY <1>1, SentinelAssumption
<1>3. \A k \in 1..n : k \in 1..(n + 1)
  OBVIOUS
<1>4. CASE s.stopped
  <2>1. t = s
    BY <1>4 DEF ReadLine
  <2>2. IsParsed(lines, n + 1, s)
    BY <1>3, <1>4 DEF IsParsed
  <2> QED BY <2>1, <2>2
<1>5. CASE ~s.stopped /\ line = TooLong
  <2>1. t = [s EXCEPT !.stopped = TRUE, !.failed = TRUE]
    BY <1>2, <1>5 DEF ReadLine
  <2>2. t \in ParserState /\ t.stopped /\ t.failed
    BY <2>1 DEF ParserState
  <2>3. n + 1 \in 1..(n + 1)
    OBVIOUS
  <2> HIDE DEF t
  <2>4. IsParsed(lines, n + 1, t)
    BY <1>5, <2>2, <2>3 DEF IsParsed
  <2> QED BY <2>2, <2>4 DEF t
<1>6. CASE ~s.stopped /\ line # TooLong /\ line.keys[1] = "cz"
  <2>1. t = [s EXCEPT !.blocks = InCZRange(s, line), !.inCZRange = TRUE, !.previous = line]
    BY <1>2, <1>6 DEF ReadLine
  <2>2. ~s.failed /\ HasRead(lines, n, s)
    BY <1>6 DEF IsParsed
  <2>3. InCZRange(s, line) \in Seq(Block) /\ line \in Block
    BY <1>1, <1>6, RangeAppended
  <2>4. /\ t \in ParserState /\ t.blocks = InCZRange(s, line) /\ t.inCZRange /\ t.previous = line
        /\ ~t.stopped /\ ~t.failed
    BY <1>6, <2>1, <2>2, <2>3 DEF ParserState
  <2> HIDE DEF t
  <2>5. HasRead(lines, n + 1, t)
    BY <1>6, <2>2, <2>3, <2>4, RangeRead DEF StartsIn
  <2>6. IsParsed(lines, n + 1, t)
    BY <2>4, <2>5 DEF IsParsed
  <2> QED BY <2>4, <2>6 DEF t
<1>7. CASE ~s.stopped /\ line # TooLong /\ line.keys[1] = "above" /\ s.inCZRange
  <2>1. t = [s EXCEPT !.stopped = TRUE]
    BY <1>2, <1>7 DEF ReadLine
  <2>2. ~s.failed /\ HasRead(lines, n, s)
    BY <1>7 DEF IsParsed
  <2>3. /\ t \in ParserState /\ t.blocks = s.blocks /\ t.inCZRange = s.inCZRange
        /\ t.previous = s.previous /\ t.stopped /\ ~t.failed
    BY <2>1, <2>2 DEF ParserState
  <2> HIDE DEF t
  <2>4. HasRead(lines, n, t)
    BY <2>2, <2>3 DEF HasRead
  <2>5. StoppedAt(lines, n + 1, t)
    <3>1. n + 1 - 1 = n
      OBVIOUS
    <3> QED BY <1>1, <1>7, <2>4, <3>1 DEF StoppedAt, StartsIn
  <2>6. n + 1 \in 1..(n + 1)
    OBVIOUS
  <2>7. IsParsed(lines, n + 1, t)
    BY <2>3, <2>5, <2>6 DEF IsParsed
  <2> QED BY <2>3, <2>7 DEF t
<1>8. CASE /\ ~s.stopped /\ line # TooLong /\ line.keys[1] # "cz"
           /\ ~(line.keys[1] = "above" /\ s.inCZRange)
  <2>1. t = [s EXCEPT !.previous = line]
    BY <1>2, <1>8 DEF ReadLine
  <2>2. ~s.failed /\ HasRead(lines, n, s)
    BY <1>8 DEF IsParsed
  <2>3. /\ t \in ParserState /\ t.blocks = s.blocks /\ t.inCZRange = s.inCZRange
        /\ t.previous = line /\ ~t.stopped /\ ~t.failed
    BY <1>1, <1>8, <2>1, <2>2 DEF ParserState
  <2> HIDE DEF t
  <2>4. HasRead(lines, n + 1, t)
    BY <1>8, <2>2, <2>3, OtherRead DEF StartsIn
  <2>5. IsParsed(lines, n + 1, t)
    BY <2>3, <2>4 DEF IsParsed
  <2> QED BY <2>3, <2>5 DEF t
<1> QED BY <1>4, <1>5, <1>6, <1>7, <1>8

\* What parseCommonCrawlCluster returns of a cluster.idx without junk.
LEMMA ParsedIs ==
    ASSUME NEW lines \in Seq(Block \cup {TooLong})
    PROVE  /\ parseCommonCrawlCluster(lines) \in ParserState
           /\ IsParsed(lines, Len(lines), parseCommonCrawlCluster(lines))
<1>0. Len(lines) \in Nat
  OBVIOUS
<1>1. PICK parsed : /\ parseCommonCrawlCluster(lines) = parsed[Len(lines)]
                    /\ parsed[0] = Unparsed
                    /\ \A n \in 1..Len(lines) : parsed[n] = ReadLine(parsed[n - 1], lines[n])
  BY <1>0, ParserIsRecursive
<1> DEFINE S == {n \in 0..Len(lines) : parsed[n] \in ParserState /\ IsParsed(lines, n, parsed[n])}
<1>2. 0 \in S
  <2>1. /\ Unparsed \in ParserState /\ ~Unparsed.failed /\ ~Unparsed.stopped
        /\ ~Unparsed.inCZRange /\ Unparsed.previous = None /\ Unparsed.blocks = <<>>
    BY DEF Unparsed, ParserState
  <2>2. 1..0 = {} /\ ToSet(<<>>) = {}
    BY DEF ToSet
  <2>3. HasRead(lines, 0, Unparsed)
    BY <2>1, <2>2 DEF HasRead
  <2>4. IsParsed(lines, 0, Unparsed)
    BY <2>1, <2>3 DEF IsParsed
  <2> QED BY <1>0, <1>1, <2>1, <2>4
<1>3. ASSUME NEW n \in Nat, n < Len(lines), n \in S PROVE n + 1 \in S
  <2>1. parsed[n] \in ParserState /\ IsParsed(lines, n, parsed[n])
    BY <1>3
  <2>2. n + 1 \in 1..Len(lines) /\ n + 1 \in 0..Len(lines)
    BY <1>0, <1>3
  <2>3. parsed[n + 1] = ReadLine(parsed[n], lines[n + 1])
    BY <1>1, <2>2
  <2>4. /\ ReadLine(parsed[n], lines[n + 1]) \in ParserState
        /\ IsParsed(lines, n + 1, ReadLine(parsed[n], lines[n + 1]))
    BY <1>3, <2>1, ParsedOneMore
  <2> QED BY <2>2, <2>3, <2>4
<1>4. Len(lines) \in S
  <2> HIDE DEF S
  <2> QED BY <1>0, <1>2, <1>3, InductionUpTo
<1> QED BY <1>1, <1>4

\* Of one line of junk it returns nothing.
LEMMA JunkParsed == parseCommonCrawlCluster(<<Junk>>) = Unparsed
<1>1. Len(<<Junk>>) = 1 /\ <<Junk>>[1] = Junk /\ 1 \in 1..1 /\ 1 - 1 = 0
  OBVIOUS
<1>2. PICK parsed : /\ parseCommonCrawlCluster(<<Junk>>) = parsed[1]
                    /\ parsed[0] = Unparsed
                    /\ parsed[1] = ReadLine(parsed[0], Junk)
  <2>1. \E parsed : /\ parseCommonCrawlCluster(<<Junk>>) = parsed[Len(<<Junk>>)]
                    /\ parsed[0] = Unparsed
                    /\ \A n \in 1..Len(<<Junk>>) : parsed[n] = ReadLine(parsed[n - 1], <<Junk>>[n])
    BY <1>1, ParserIsRecursive
  <2> QED BY <1>1, <2>1
<1> QED BY <1>2 DEF ReadLine
----------------------------------------------------------------------------
(* The CDX files of a crawl *)

\* What a cached or a downloaded cluster.idx can be: junk, or the beginning of what
\* is published with lines that are too long in the place of others.
IsCopy(lines) ==
    \/ lines = <<Junk>>
    \/ /\ lines \in Seq(Block \cup {TooLong})
       /\ \A k \in 1..Len(lines) :
            lines[k] = TooLong \/ (k <= Len(world.index) /\ lines[k] = world.index[k])

CopiesInv ==
    /\ world \in Worlds
    /\ ci \in Nat \ {0}
    /\ pc \in {"cluster", "parse", "files", "sequential"} => ci <= Len(crawls)
    /\ DOMAIN cached = 1..MaxCrawls
    /\ \A c \in 1..MaxCrawls : cached[c] = None \/ IsCopy(cached[c])
    /\ pc \in {"parse", "files"} => IsCopy(map.lines)
    /\ pc = "files" => /\ paths = cdxPathsFromClusterBlocks(Parsed.blocks)
                       /\ ~Parsed.failed /\ Parsed.blocks # <<>>

\* A run without trouble: what is cached is what was read, and a copy that could not
\* be parsed is gone.
HadNothing(c) == world.manifest = <<>> \/ (world.mapped /\ cached[c] # None /\ StuckOn(cached[c]))
UntroubledInv ==
    /\ errs \subseteq 1..(ci - 1)
    /\ attempt \in Nat \ {0}
    /\ pc \in {"start", "html", "crawl"} => attempt = 1
    /\ trouble = {} =>
         /\ pc \in {"cluster", "parse"} => world.mapped
         /\ pc = "parse" => /\ map.lines = cached[ci]
                            /\ ~map.cached => map.lines = world.index
         /\ pc = "cluster" /\ attempt # 1 => cached[ci] = None
         /\ pc = "parse" /\ attempt # 1 => ~map.cached
         /\ \A c \in errs : HadNothing(c)

LEMMA IndexTypes ==
    ASSUME world \in Worlds
    PROVE  /\ Len(world.index) \in Nat
           /\ \A k \in 1..Len(world.index) :
                /\ world.index[k] \in Block
                /\ Len(world.index[k].keys) \in Nat \ {0}
                /\ \A i \in 1..Len(world.index[k].keys) : world.index[k].keys[i] \in Class
<1>1. world.index \in Seq(Block)
  BY WorldTypes
<1>2. ASSUME NEW k \in 1..Len(world.index)
      PROVE  /\ world.index[k] \in Block
             /\ Len(world.index[k].keys) \in Nat \ {0}
             /\ \A i \in 1..Len(world.index[k].keys) : world.index[k].keys[i] \in Class
  <2>1. world.index[k] \in Block
    BY <1>1
  <2> DEFINE keys == world.index[k].keys
  <2>2. keys \in Seq(Class) /\ keys # <<>>
    BY <2>1 DEF Block
  <2> HIDE DEF keys
  <2>3. Len(keys) \in Nat \ {0} /\ \A i \in 1..Len(keys) : keys[i] \in Class
    BY <2>2
  <2> QED BY <2>1, <2>3 DEF keys
<1> QED BY <1>1, <1>2

\* The block k has a key of the range.
Holds(k) == \E i \in 1..Len(world.index[k].keys) : world.index[k].keys[i] = "cz"

\* No block above the range is before one with a key of it, and none with a key of it
\* before one below it.  A block with a key of the range starts below it or in it.
LEMMA Sorted ==
    ASSUME world \in Worlds, NEW a \in 1..Len(world.index), NEW b \in 1..Len(world.index)
    PROVE  /\ Holds(a) /\ world.index[b].keys[1] = "above" => a < b
           /\ Holds(a) => world.index[a].keys[1] \in {"below", "cz"}
           /\ Holds(a) /\ a < b => world.index[b].keys[1] \in {"cz", "above"}
           /\ a < b /\ world.index[b].keys[1] = "cz" => world.index[a].keys[1] \in {"below", "cz"}
           /\ a < b /\ world.index[b].keys[1] = "below" => world.index[a].keys[1] = "below"
           /\ world.index[a].keys[1] = "cz" => Holds(a)
<1> DEFINE r(k, i) == Rank[world.index[k].keys[i]]
           n(k) == Len(world.index[k].keys)
<1>1. \A k, h \in 1..Len(world.index) : \A i \in 1..n(k), j \in 1..n(h) :
          k < h \/ (k = h /\ i < j) => r(k, i) <= r(h, j)
  BY SelectAssumption DEF InKeyOrder
<1>2. /\ n(a) \in Nat \ {0} /\ n(b) \in Nat \ {0}
      /\ world.index[a].keys[1] \in Class /\ world.index[b].keys[1] \in Class
  <2>1. 1 \in 1..n(a) /\ 1 \in 1..n(b) /\ n(a) \in Nat \ {0} /\ n(b) \in Nat \ {0}
    BY IndexTypes
  <2> QED BY <2>1, IndexTypes
<1>3. Rank["below"] = 0 /\ Rank["cz"] = 1 /\ Rank["above"] = 2
  BY DEF Rank
<1>4. ASSUME Holds(a), world.index[b].keys[1] = "above" PROVE a < b
  <2>1. PICK i \in 1..n(a) : world.index[a].keys[i] = "cz"
    BY <1>4 DEF Holds
  <2>2. 1 \in 1..n(b)
    BY <1>2
  <2>3. b < a \/ (b = a /\ 1 < i) => r(b, 1) <= r(a, i)
    <3> HIDE DEF r, n
    <3> QED BY <1>1, <2>1, <2>2
  <2>4. r(b, 1) = 2 /\ r(a, i) = 1
    BY <1>3, <1>4, <2>1
  <2>5. ~(b = a /\ i = 1)
    BY <1>4, <2>1
  <2> HIDE DEF r
  <2> QED BY <2>1, <2>3, <2>4, <2>5
<1>5. ASSUME Holds(a) PROVE world.index[a].keys[1] \in {"below", "cz"}
  <2>1. world.index[a].keys[1] # "above"
    <3> SUFFICES ASSUME world.index[a].keys[1] = "above" PROVE FALSE
      OBVIOUS
    <3>1. PICK i \in 1..n(a) : world.index[a].keys[i] = "cz"
      BY <1>5 DEF Holds
    <3>2. 1 < i => r(a, 1) <= r(a, i)
      <4>1. 1 \in 1..n(a)
        BY <1>2
      <4> HIDE DEF r, n
      <4> QED BY <1>1, <3>1, <4>1
    <3>3. r(a, 1) = 2 /\ r(a, i) = 1 /\ i # 1
      BY <1>3, <3>1
    <3> HIDE DEF r
    <3> QED BY <3>1, <3>2, <3>3
  <2> QED BY <1>2, <2>1 DEF Class
<1>6. ASSUME Holds(a), a < b PROVE world.index[b].keys[1] \in {"cz", "above"}
  <2>1. PICK i \in 1..n(a) : world.index[a].keys[i] = "cz"
    BY <1>6 DEF Holds
  <2>2. r(a, i) <= r(b, 1)
    <3>1. 1 \in 1..n(b)
      BY <1>2
    <3> HIDE DEF r, n
    <3> QED BY <1>1, <1>6, <2>1, <3>1
  <2>3. r(a, i) = 1
    BY <1>3, <2>1
  <2>4. world.index[b].keys[1] # "below"
    BY <1>3, <2>2, <2>3
  <2> QED BY <1>2, <2>4 DEF Class
<1>7. ASSUME a < b, world.index[b].keys[1] = "cz" PROVE world.index[a].keys[1] \in {"below", "cz"}
  <2>1. r(a, 1) <= r(b, 1)
    <3>1. 1 \in 1..n(a) /\ 1 \in 1..n(b)
      BY <1>2
    <3> QED BY <1>1, <1>7, <3>1
  <2>2. r(b, 1) = 1
    BY <1>3, <1>7
  <2>3. world.index[a].keys[1] # "above"
    BY <1>3, <2>1, <2>2
  <2> QED BY <1>2, <2>3 DEF Class
<1>8. ASSUME a < b, world.index[b].keys[1] = "below" PROVE world.index[a].keys[1] = "below"
  <2>1. r(a, 1) <= r(b, 1)
    <3>1. 1 \in 1..n(a) /\ 1 \in 1..n(b)
      BY <1>2
    <3> QED BY <1>1, <1>8, <3>1
  <2>2. r(b, 1) = 0
    BY <1>3, <1>8
  <2>3. world.index[a].keys[1] \notin {"cz", "above"}
    BY <1>3, <2>1, <2>2
  <2> QED BY <1>2, <2>3 DEF Class
<1>9. world.index[a].keys[1] = "cz" => Holds(a)
  <2>1. 1 \in 1..n(a)
    BY <1>2
  <2> QED BY <2>1 DEF Holds
<1> QED BY <1>4, <1>5, <1>6, <1>7, <1>8, <1>9

\* The map of which a part was read and parsed, and has blocks.
LEMMA CopyParsed ==
    ASSUME world \in Worlds, NEW lines, IsCopy(lines),
           ~parseCommonCrawlCluster(lines).failed,
           parseCommonCrawlCluster(lines).blocks # <<>>
    PROVE  \E m \in Nat :
             /\ m <= Len(world.index)
             /\ HasRead(lines, m, parseCommonCrawlCluster(lines))
             /\ \A k \in 1..m : lines[k] = world.index[k]
             /\ lines = world.index \/ (\E i \in 1..Len(lines) : StartsIn(lines[i], "above")) =>
                  \A k \in 1..Len(world.index) : Holds(k) => k <= m
<1> DEFINE s == parseCommonCrawlCluster(lines)
           L == Len(lines)
           I == Len(world.index)
<1>1. /\ lines \in Seq(Block \cup {TooLong})
      /\ \A k \in 1..L : lines[k] = TooLong \/ (k <= I /\ lines[k] = world.index[k])
  <2>1. lines # <<Junk>>
    BY JunkParsed DEF Unparsed
  <2> QED BY <2>1 DEF IsCopy
<1>2. IsParsed(lines, L, s) /\ L \in Nat /\ I \in Nat
  BY <1>1, ParsedIs, IndexTypes
<1>3. TooLong \notin Block
  BY SentinelAssumption
<1>4. \A k \in 1..L : lines[k] # TooLong => k \in 1..I /\ lines[k] = world.index[k]
  BY <1>1, <1>2
<1>5. ~s.failed
  OBVIOUS
<1> HIDE DEF s, L, I
<1>6. CASE HasRead(lines, L, s)
  <2>1. \A k \in 1..L : lines[k] # TooLong
    BY <1>6 DEF HasRead
  <2>2. L <= I
    <3>1. L = 0 \/ L \in 1..L
      BY <1>2
    <3> QED BY <1>2, <1>4, <2>1, <3>1
  <2>3. \A k \in 1..L : lines[k] = world.index[k]
    BY <1>4, <2>1
  <2>4. lines = world.index => \A k \in 1..I : k <= L
    BY <1>2 DEF I, L
  <2>5. ASSUME NEW i \in 1..L, StartsIn(lines[i], "above"), NEW k \in 1..I, Holds(k) PROVE k <= L
    <3>1. i \in 1..I /\ world.index[i].keys[1] = "above"
      BY <1>4, <2>1, <2>5 DEF StartsIn
    <3>2. k < i
      BY <2>5, <3>1, Sorted DEF I
    <3> QED BY <1>2, <3>2
  <2> QED BY <1>2, <1>6, <2>2, <2>3, <2>4, <2>5 DEF s, L, I
<1>7. CASE \E m \in 1..L : StoppedAt(lines, m, s)
  <2>1. PICK m \in 1..L : StartsIn(lines[m], "above") /\ HasRead(lines, m - 1, s)
    BY <1>7 DEF StoppedAt
  <2>2. lines[m] # TooLong
    BY <1>3, <2>1 DEF StartsIn
  <2>3. m \in 1..I /\ world.index[m].keys[1] = "above"
    BY <1>4, <2>1, <2>2 DEF StartsIn
  <2>4. m - 1 \in Nat /\ m - 1 <= I /\ \A k \in 1..(m - 1) : k \in 1..L
    BY <1>2, <2>1, <2>3
  <2>5. \A k \in 1..(m - 1) : lines[k] = world.index[k]
    BY <1>4, <2>1, <2>4 DEF HasRead
  <2>6. \A k \in 1..I : Holds(k) => k <= m - 1
    <3>1. \A k \in 1..I : Holds(k) => k < m
      BY <2>3, Sorted DEF I
    <3> QED BY <1>2, <2>1, <3>1
  <2> QED BY <2>1, <2>4, <2>5, <2>6 DEF s, L, I
<1> QED BY <1>2, <1>5, <1>6, <1>7 DEF IsParsed

\* A lone last block before the range ends in it if it holds a key of the range.
LEMMA LastBlockBefore ==
    ASSUME world \in Worlds, NEW lines, NEW m \in Nat, m <= Len(world.index),
           \A k \in 1..m : lines[k] = world.index[k],
           NEW a \in 1..m, Holds(a), ~StartsIn(lines[a], "cz"),
           NEW b \in 1..m, StartsIn(lines[b], "cz")
    PROVE  a < m /\ LastBefore(lines, a)
<1> DEFINE I == Len(world.index)
<1>1. /\ I \in Nat /\ a \in 1..I /\ b \in 1..I
      /\ lines[a] = world.index[a] /\ lines[b] = world.index[b]
      /\ \A k \in 1..I : world.index[k] \in Block
  BY IndexTypes
<1>2. world.index[a].keys[1] = "below"
  <2>1. world.index[a].keys[1] \in {"below", "cz"}
    BY <1>1, Sorted
  <2> QED BY <1>1, <2>1 DEF StartsIn
<1>3. world.index[b].keys[1] = "cz"
  BY <1>1 DEF StartsIn
<1>4. a < b
  <2>1. b < a => world.index[b].keys[1] = "below"
    BY <1>1, <1>2, Sorted
  <2> QED BY <1>1, <1>2, <1>3, <2>1
<1>5. a + 1 \in 1..m /\ a + 1 \in 1..I /\ (a + 1 = b \/ a + 1 < b)
  BY <1>1, <1>4
<1>6. world.index[a + 1].keys[1] = "cz"
  <2>1. world.index[a + 1].keys[1] \in {"cz", "above"}
    BY <1>1, <1>5, Sorted
  <2>2. a + 1 < b => world.index[a + 1].keys[1] \in {"below", "cz"}
    BY <1>1, <1>3, <1>5, Sorted
  <2> QED BY <1>3, <1>5, <2>1, <2>2
<1>7. StartsIn(lines[a + 1], "cz")
  BY <1>1, <1>5, <1>6 DEF StartsIn
<1>8. ASSUME NEW h \in 1..a PROVE ~StartsIn(lines[h], "cz")
  <2>1. h \in 1..I /\ lines[h] = world.index[h] /\ (h = a \/ h < a)
    BY <1>1
  <2>2. h < a => world.index[h].keys[1] = "below"
    BY <1>1, <1>2, <2>1, Sorted
  <2> QED BY <1>2, <2>1, <2>2 DEF StartsIn
<1> QED BY <1>1, <1>5, <1>7, <1>8 DEF LastBefore

\* The files of the blocks of such a map.
LEMMA FilesChosen ==
    ASSUME world \in Worlds, NEW blocks \in Seq(Block), blocks # <<>>,
           NEW lines, NEW m \in Nat, m <= Len(world.index),
           \A k \in 1..m : lines[k] = world.index[k],
           NEW s, s.blocks = blocks, HasRead(lines, m, s)
    PROVE  /\ (\A k \in 1..Len(world.index) : Holds(k) => k <= m) => CZFiles \subseteq FilesOf(blocks)
           /\ Cardinality(FilesOf(blocks) \ CZFiles) <= 1
<1> DEFINE I == Len(world.index)
<1>1. /\ \A k \in 1..m : StartsIn(lines[k], "cz") => lines[k].file \in FilesOf(blocks)
      /\ \A k \in 1..m : k < m /\ LastBefore(lines, k) => lines[k].file \in FilesOf(blocks)
      /\ \A b \in ToSet(blocks) : \E k \in 1..m :
            b = lines[k] /\ (StartsIn(b, "cz") \/ (k < m /\ LastBefore(lines, k)))
  BY DEF HasRead
<1>2. I \in Nat /\ \A k \in 1..m : k \in 1..I /\ lines[k] = world.index[k]
  BY IndexTypes
<1>3. PICK b \in 1..m : StartsIn(lines[b], "cz")
  <2>1. blocks[1] \in ToSet(blocks)
    BY DEF ToSet
  <2>2. PICK k \in 1..m : StartsIn(lines[k], "cz") \/ (k < m /\ LastBefore(lines, k))
    BY <1>1, <2>1
  <2>3. k < m => k + 1 \in 1..m
    OBVIOUS
  <2> QED BY <2>2, <2>3 DEF LastBefore
<1>4. ASSUME \A k \in 1..I : Holds(k) => k <= m, NEW f \in CZFiles PROVE f \in FilesOf(blocks)
  <2>1. PICK a \in 1..I : world.index[a].file = f /\ Holds(a)
    BY <1>4 DEF CZFiles, hitCZ, HasCZ, Holds
  <2>2. a \in 1..m
    BY <1>2, <1>4, <2>1
  <2>3. lines[a].file = f
    BY <2>1, <2>2
  <2>4. CASE StartsIn(lines[a], "cz")
    BY <1>1, <2>2, <2>3, <2>4
  <2>5. CASE ~StartsIn(lines[a], "cz")
    <3>1. a < m /\ LastBefore(lines, a)
      BY <1>3, <2>1, <2>2, <2>5, LastBlockBefore
    <3> QED BY <1>1, <2>2, <2>3, <3>1
  <2> QED BY <2>4, <2>5
<1>5. ASSUME NEW f \in FilesOf(blocks) \ CZFiles
      PROVE  \E k \in 1..m : k < m /\ LastBefore(lines, k) /\ f = lines[k].file
  <2>1. PICK c \in ToSet(blocks) : c.file = f
    BY <1>5 DEF FilesOf
  <2>2. PICK k \in 1..m : c = lines[k] /\ (StartsIn(c, "cz") \/ (k < m /\ LastBefore(lines, k)))
    BY <1>1, <2>1
  <2>3. ~StartsIn(c, "cz")
    <3> SUFFICES ASSUME StartsIn(c, "cz") PROVE FALSE
      OBVIOUS
    <3>1. k \in 1..I /\ world.index[k].keys[1] = "cz" /\ world.index[k].file = f
      BY <1>2, <2>1, <2>2 DEF StartsIn
    <3>2. Holds(k)
      BY <3>1, Sorted
    <3>3. f \in {world.index[i].file : i \in 1..I} /\ hitCZ(f)
      BY <3>1, <3>2 DEF hitCZ, HasCZ, Holds
    <3> QED BY <1>5, <3>3 DEF CZFiles
  <2> QED BY <2>1, <2>2, <2>3
<1>6. ASSUME NEW f \in FilesOf(blocks) \ CZFiles, NEW g \in FilesOf(blocks) \ CZFiles PROVE f = g
  <2>1. PICK k \in 1..m : k < m /\ LastBefore(lines, k) /\ f = lines[k].file
    BY <1>5
  <2>2. PICK h \in 1..m : h < m /\ LastBefore(lines, h) /\ g = lines[h].file
    BY <1>5
  <2>3. ~(k < h) /\ ~(h < k)
    <3>1. /\ StartsIn(lines[k + 1], "cz") /\ StartsIn(lines[h + 1], "cz")
          /\ \A j \in 1..k : ~StartsIn(lines[j], "cz")
          /\ \A j \in 1..h : ~StartsIn(lines[j], "cz")
      BY <2>1, <2>2 DEF LastBefore
    <3>2. (k < h => k + 1 \in 1..h) /\ (h < k => h + 1 \in 1..k)
      OBVIOUS
    <3> QED BY <3>1, <3>2
  <2>4. k = h
    BY <2>3
  <2> QED BY <2>1, <2>2, <2>4
<1>7. Cardinality(FilesOf(blocks) \ CZFiles) <= 1
  <2> DEFINE E == FilesOf(blocks) \ CZFiles
  <2>1. \A f, g \in E : f = g
    BY <1>6
  <2> HIDE DEF E
  <2>2. CASE E = {}
    <3>1. Cardinality(E) = 0
      BY <2>2, FS_EmptySet, Zenon
    <3> QED BY <3>1 DEF E
  <2>3. CASE E # {}
    <3>1. PICK f \in E : E = {f}
      BY <2>1, <2>3
    <3>2. Cardinality(E) = 1
      BY <3>1, FS_Singleton
    <3> QED BY <3>2 DEF E
  <2> QED BY <2>2, <2>3
<1> QED BY <1>4, <1>7

LEMMA PathsAre ==
    ASSUME NEW blocks \in Seq(Block)
    PROVE  ToSet(cdxPathsFromClusterBlocks(blocks)) = FilesOf(blocks)
<1> DEFINE files == [i \in 1..Len(blocks) |-> blocks[i].file]
<1>1. files \in Seq(STRING) /\ Len(files) = Len(blocks)
  <2>1. \A i \in 1..Len(blocks) : blocks[i].file \in STRING
    <3>1. \A b \in Block : b.file \in STRING
      BY DEF Block
    <3> HIDE DEF Block
    <3> QED BY <3>1
  <2> QED BY <2>1
<1>2. ToSet(Distinct(files)) = ToSet(files)
  <2> HIDE DEF files
  <2> QED BY <1>1, DistinctIs
<1>3. ToSet(files) = FilesOf(blocks)
  <2>1. ToSet(files) = {files[i] : i \in 1..Len(blocks)} /\ ToSet(blocks) = {blocks[i] : i \in 1..Len(blocks)}
    <3> HIDE DEF files
    <3> QED BY <1>1 DEF ToSet
  <2> QED BY <2>1 DEF FilesOf
<1> QED BY <1>2, <1>3 DEF cdxPathsFromClusterBlocks

LEMMA CopiesChoose == CopiesInv => ChoosesCZFiles
<1> SUFFICES ASSUME CopiesInv, pc = "files", ShowsRange
             PROVE  /\ CZFiles \subseteq ToSet(paths)
                    /\ Cardinality(ToSet(paths) \ CZFiles) <= 1
  BY DEF ChoosesCZFiles
<1>1. /\ world \in Worlds /\ IsCopy(map.lines)
      /\ paths = cdxPathsFromClusterBlocks(Parsed.blocks)
      /\ ~Parsed.failed /\ Parsed.blocks # <<>>
  BY DEF CopiesInv
<1>2. Parsed.blocks \in Seq(Block)
  <2>1. map.lines \in Seq(Block \cup {TooLong})
    <3>1. map.lines # <<Junk>>
      BY <1>1, JunkParsed DEF Parsed, Unparsed
    <3> QED BY <1>1, <3>1 DEF IsCopy
  <2>2. Parsed \in ParserState
    BY <2>1, ParsedIs DEF Parsed
  <2> QED BY <2>2 DEF ParserState
<1>3. PICK m \in Nat :
        /\ m <= Len(world.index)
        /\ HasRead(map.lines, m, Parsed)
        /\ \A k \in 1..m : map.lines[k] = world.index[k]
        /\ map.lines = world.index \/ (\E i \in 1..Len(map.lines) : StartsIn(map.lines[i], "above")) =>
             \A k \in 1..Len(world.index) : Holds(k) => k <= m
  BY <1>1, CopyParsed DEF Parsed
<1>4. map.lines = world.index \/ (\E i \in 1..Len(map.lines) : StartsIn(map.lines[i], "above"))
  <2>1. CASE map.lines = world.index
    BY <2>1
  <2>2. CASE map.lines # world.index
    <3>1. PICK i \in 1..Len(map.lines) :
            map.lines[i] \notin {Junk, TooLong} /\ map.lines[i].keys[1] = "above"
      BY <2>2 DEF ShowsRange
    <3>2. map.lines[i] \in Block
      <4>1. CASE map.lines = <<Junk>>
        BY <3>1, <4>1
      <4>2. CASE map.lines \in Seq(Block \cup {TooLong})
        BY <3>1, <4>2
      <4> QED BY <1>1, <4>1, <4>2 DEF IsCopy
    <3> QED BY <3>1, <3>2 DEF StartsIn
  <2> QED BY <2>1, <2>2
<1> HIDE DEF Parsed
<1>5. /\ CZFiles \subseteq FilesOf(Parsed.blocks)
      /\ Cardinality(FilesOf(Parsed.blocks) \ CZFiles) <= 1
  BY <1>1, <1>2, <1>3, <1>4, FilesChosen
<1>6. ToSet(paths) = FilesOf(Parsed.blocks)
  BY <1>1, <1>2, PathsAre
<1> QED BY <1>5, <1>6

\* What Common Crawl publishes, and what can arrive of it, are copies.
LEMMA PublishedIsCopy ==
    ASSUME world \in Worlds
    PROVE  /\ \A n \in 0..Len(world.index) : IsCopy(SubSeq(world.index, 1, n))
           /\ \A n \in 0..Len(world.index) : IsCopy(Append(SubSeq(world.index, 1, n), TooLong))
           /\ IsCopy(world.index) /\ IsCopy(<<Junk>>) /\ IsCopy(<<TooLong>>)
<1> DEFINE I == Len(world.index)
<1>1. world.index \in Seq(Block) /\ I \in Nat
  BY WorldTypes
<1>2. \A k \in 1..I : world.index[k] \in Block \cup {TooLong}
  BY <1>1
<1>3. ASSUME NEW n \in 0..I
      PROVE  IsCopy(SubSeq(world.index, 1, n)) /\ IsCopy(Append(SubSeq(world.index, 1, n), TooLong))
  <2> DEFINE c == SubSeq(world.index, 1, n)
             d == Append(c, TooLong)
  <2>1. c = [k \in 1..n |-> world.index[k]]
    BY <1>1
  <2>2. c \in Seq(Block \cup {TooLong}) /\ Len(c) = n /\ \A k \in 1..n : c[k] = world.index[k] /\ k <= I
    BY <1>1, <1>2, <2>1
  <2> HIDE DEF c
  <2>3. IsCopy(c)
    BY <2>2 DEF IsCopy
  <2>4. /\ d \in Seq(Block \cup {TooLong}) /\ Len(d) = n + 1
        /\ \A k \in 1..n : d[k] = world.index[k] /\ k <= I
        /\ d[n + 1] = TooLong
    BY <2>2
  <2> HIDE DEF d
  <2>5. \A k \in 1..(n + 1) : d[k] = TooLong \/ (k <= I /\ d[k] = world.index[k])
    BY <2>4, NextIndex
  <2>6. IsCopy(d)
    BY <2>4, <2>5 DEF IsCopy
  <2> QED BY <2>3, <2>6 DEF c, d
<1>4. IsCopy(world.index)
  <2>1. world.index \in Seq(Block \cup {TooLong})
    BY <1>1
  <2>2. \A k \in 1..I : k <= I
    BY <1>1
  <2> QED BY <2>1, <2>2 DEF IsCopy
<1>5. IsCopy(<<TooLong>>)
  <2>1. Len(<<TooLong>>) = 1 /\ <<TooLong>>[1] = TooLong /\ <<TooLong>> \in Seq(Block \cup {TooLong})
    OBVIOUS
  <2>2. \A k \in 1..1 : k = 1
    OBVIOUS
  <2> QED BY <2>1, <2>2 DEF IsCopy
<1> QED BY <1>3, <1>4, <1>5 DEF IsCopy

\* A step that leaves copies in the cache and at hand keeps the invariant.
LEMMA CopiesKept ==
    ASSUME CopiesInv, UNCHANGED world,
           ci' \in Nat \ {0},
           pc' \in {"cluster", "parse", "files", "sequential"} => ci' <= Len(crawls'),
           DOMAIN cached' = DOMAIN cached,
           \A c \in 1..MaxCrawls : cached'[c] \in {None, cached[c]} \/ IsCopy(cached'[c]),
           pc' \in {"parse", "files"} => IsCopy(map'.lines),
           pc' = "files" =>
               /\ UNCHANGED map
               /\ \/ UNCHANGED <<pc, paths>>
                  \/ /\ paths' = cdxPathsFromClusterBlocks(Parsed.blocks)
                     /\ ~Parsed.failed /\ Parsed.blocks # <<>>
    PROVE  CopiesInv'
<1>1. UNCHANGED MaxCrawls
  BY DEF MaxCrawls
<1>2. \A lines : IsCopy(lines) => IsCopy(lines)'
  BY DEF IsCopy
<1>3. \A c \in 1..MaxCrawls : cached'[c] = None \/ IsCopy(cached[c])' \/ IsCopy(cached'[c])
  BY DEF CopiesInv
<1>4. ASSUME NEW c \in 1..MaxCrawls PROVE cached'[c] = None \/ IsCopy(cached[c])'
  <2>1. CASE cached'[c] = None
    BY <2>1
  <2>2. CASE cached'[c] = cached[c]
    <3>1. cached[c] = None \/ IsCopy(cached[c])
      BY DEF CopiesInv
    <3>2. IsCopy(cached[c]) => IsCopy(cached'[c])
      BY <2>2
    <3>3. IsCopy(cached'[c]) => IsCopy(cached[c])'
      BY <1>2
    <3> QED BY <2>2, <3>1, <3>2, <3>3
  <2>3. CASE IsCopy(cached'[c])
    BY <1>2, <2>3
  <2> QED BY <2>1, <2>2, <2>3
<1>5. pc' \in {"parse", "files"} => IsCopy(map.lines)'
  BY <1>2
<1>6. pc' = "files" => /\ (paths = cdxPathsFromClusterBlocks(Parsed.blocks))'
                       /\ ~Parsed.failed' /\ Parsed.blocks' # <<>>
  <2> SUFFICES ASSUME pc' = "files"
               PROVE  /\ (paths = cdxPathsFromClusterBlocks(Parsed.blocks))'
                      /\ ~Parsed.failed' /\ Parsed.blocks' # <<>>
    OBVIOUS
  <2>1. Parsed' = Parsed
    BY DEF Parsed
  <2>2. /\ paths' = cdxPathsFromClusterBlocks(Parsed.blocks)
        /\ ~Parsed.failed /\ Parsed.blocks # <<>>
    BY DEF CopiesInv
  <2> HIDE DEF Parsed
  <2> QED BY <2>1, <2>2
<1>7. world' \in Worlds /\ DOMAIN cached' = 1..MaxCrawls'
  BY <1>1 DEF CopiesInv
<1> QED BY <1>1, <1>4, <1>5, <1>6, <1>7 DEF CopiesInv

\* A crawl at hand, and each one before it, has its place in the cache.
LEMMA AtHand ==
    ASSUME NewestInv, CopiesInv, pc \in {"cluster", "parse", "files", "sequential"}
    PROVE  ci \in DOMAIN cached /\ 1..(ci - 1) \subseteq DOMAIN cached
<1>1. Len(crawls) \in 0..MaxCrawls /\ MaxCrawls \in Nat
  BY MaxCrawlsType DEF NewestInv, CopiesInv
<1>2. ci \in Nat \ {0} /\ ci <= Len(crawls) /\ DOMAIN cached = 1..MaxCrawls
  BY DEF CopiesInv
<1> HIDE DEF MaxCrawls
<1> QED BY <1>1, <1>2

LEMMA CopiesStep ==
    ASSUME NewestInv, CopiesInv, [Next]_vars
    PROVE  CopiesInv'
<1> DEFINE Working == {"cluster", "parse", "files", "sequential"}
<1>1. ASSUME UNCHANGED <<world, cached, ci>>,
             pc' \notin Working \/ (UNCHANGED <<crawls, map, pc, paths>>)
      PROVE  CopiesInv'
  <2>1. ci' \in Nat \ {0} /\ DOMAIN cached' = DOMAIN cached /\ UNCHANGED world
    BY <1>1 DEF CopiesInv
  <2>2. \A c \in 1..MaxCrawls : cached'[c] \in {None, cached[c]}
    BY <1>1
  <2>3. pc' \in Working => ci' <= Len(crawls')
    BY <1>1 DEF CopiesInv
  <2>4. pc' \in {"parse", "files"} => IsCopy(map'.lines) /\ UNCHANGED <<map, pc, paths>>
    <3>1. pc' \in {"parse", "files"} => UNCHANGED <<map, pc, paths>>
      BY <1>1
    <3>2. pc \in {"parse", "files"} => IsCopy(map.lines)
      BY DEF CopiesInv
    <3> QED BY <3>1, <3>2
  <2> QED BY <2>1, <2>2, <2>3, <2>4, CopiesKept
<1>2. ASSUME NEW failed, NextCrawl(failed), DOMAIN cached' = DOMAIN cached,
             \A c \in 1..MaxCrawls : cached'[c] \in {None, cached[c]}
      PROVE  CopiesInv'
  <2>1. pc' = "crawl" /\ ci' = ci + 1 /\ UNCHANGED world
    BY <1>2 DEF NextCrawl, chosen
  <2>2. ci' \in Nat \ {0}
    BY <2>1 DEF CopiesInv
  <2> QED BY <1>2, <2>1, <2>2, CopiesKept
<1>3. CASE ExplicitCrawl \/ ExplicitCrawlFails \/ CollInfo \/ CollInfoFails \/ Html \/ HtmlFails
           \/ NoMoreCrawls
  <2>1. UNCHANGED <<world, cached, ci>> /\ pc' \notin Working
    BY <1>3 DEF ExplicitCrawl, ExplicitCrawlFails, CollInfo, CollInfoFails, Html, HtmlFails,
       NoMoreCrawls, Select, RunFails, chosen
  <2> QED BY <1>1, <2>1
<1>4. CASE Manifest
  <2>1. UNCHANGED <<world, cached, ci, crawls>> /\ ci <= Len(crawls) /\ pc' \in {"cluster", "sequential"}
    BY <1>4 DEF Manifest, chosen
  <2>2. ci \in Nat \ {0}
    BY DEF CopiesInv
  <2> QED BY <2>1, <2>2, CopiesKept
<1>5. CASE ManifestFails \/ OpenClusterFails \/ UseClusterFails \/ ReadFileFails \/ NoMoreFiles
  <2>1. UNCHANGED cached /\ \E failed : NextCrawl(failed)
    BY <1>5 DEF ManifestFails, OpenClusterFails, UseClusterFails, ReadFileFails, NoMoreFiles
  <2> QED BY <1>2, <2>1
<1>6. CASE SkipFile \/ ReadFile
  <2>1. UNCHANGED <<world, cached, ci, crawls, map, pc, paths>>
    BY <1>6 DEF SkipFile, ReadFile, chosen
  <2> QED BY <1>1, <2>1
<1>7. CASE UNCHANGED vars
  BY <1>1, <1>7 DEF vars, chosen, perCrawl
<1>8. CASE OpenCluster
  <2>1. /\ UNCHANGED <<world, crawls, ci>> /\ pc = "cluster" /\ pc' = "parse"
        /\ \/ cached[ci] \notin {None, <<>>} /\ map'.lines = cached[ci] /\ UNCHANGED cached
           \/ \E lines \in Arrivals : cached' = [cached EXCEPT ![ci] = lines] /\ map'.lines = lines
    BY <1>8 DEF OpenCluster, chosen
  <2>2. ci \in Nat \ {0} /\ ci <= Len(crawls) /\ ci \in 1..MaxCrawls /\ world \in Worlds
    BY <2>1, AtHand DEF CopiesInv
  <2>3. \A lines \in Arrivals : IsCopy(lines)
    <3>1. \A lines \in Arrivals : \/ lines = world.index \/ lines = <<TooLong>>
                                  \/ \E n \in 0..Len(world.index) : lines = SubSeq(world.index, 1, n)
      BY DEF Arrivals
    <3> QED BY <2>2, <3>1, PublishedIsCopy
  <2>4. CASE cached[ci] \notin {None, <<>>} /\ map'.lines = cached[ci] /\ UNCHANGED cached
    <3>1. IsCopy(map'.lines)
      <4>1. cached[ci] = None \/ IsCopy(cached[ci])
        BY <2>2 DEF CopiesInv
      <4> QED BY <2>4, <4>1
    <3> QED BY <2>1, <2>2, <2>4, <3>1, CopiesKept
  <2>5. ASSUME NEW lines \in Arrivals, cached' = [cached EXCEPT ![ci] = lines], map'.lines = lines
        PROVE  CopiesInv'
    <3>1. IsCopy(map'.lines)
      BY <2>3, <2>5
    <3>2. DOMAIN cached' = DOMAIN cached /\ \A c \in DOMAIN cached : cached'[c] \in {cached[c], lines}
      BY <2>5
    <3>3. \A c \in 1..MaxCrawls : cached'[c] \in {None, cached[c]} \/ IsCopy(cached'[c])
      <4>1. DOMAIN cached = 1..MaxCrawls
        BY DEF CopiesInv
      <4> QED BY <2>3, <2>5, <3>2, <4>1
    <3> QED BY <2>1, <2>2, <3>1, <3>2, <3>3, CopiesKept
  <2> QED BY <2>1, <2>4, <2>5
<1>9. CASE UseCluster
  <2>1. /\ UNCHANGED <<world, cached, crawls, ci, map>> /\ pc = "parse" /\ pc' = "files"
        /\ paths' = cdxPathsFromClusterBlocks(Parsed.blocks)
        /\ ~Parsed.failed /\ Parsed.blocks # <<>>
    BY <1>9 DEF UseCluster, chosen
  <2>2. ci \in Nat \ {0} /\ ci <= Len(crawls) /\ IsCopy(map.lines)
    BY <2>1 DEF CopiesInv
  <2>3. IsCopy(map'.lines)
    BY <2>1, <2>2
  <2>4. \A c \in 1..MaxCrawls : cached'[c] \in {None, cached[c]}
    BY <2>1
  <2> HIDE DEF Parsed
  <2> QED BY <2>1, <2>2, <2>3, <2>4, CopiesKept
<1>10. CASE InvalidCluster
  <2>1. /\ UNCHANGED world /\ pc = "parse"
        /\ cached' = [cached EXCEPT ![ci] = None] \/ UNCHANGED cached
        /\ \/ NextCrawl(TRUE)
           \/ pc' = "cluster" /\ UNCHANGED <<crawls, ci>>
    BY <1>10 DEF InvalidCluster, NextCrawl, chosen
  <2>2. DOMAIN cached' = DOMAIN cached /\ \A c \in 1..MaxCrawls : cached'[c] \in {None, cached[c]}
    <3>1. DOMAIN cached = 1..MaxCrawls
      BY DEF CopiesInv
    <3> QED BY <2>1, <3>1
  <2>3. CASE NextCrawl(TRUE)
    BY <1>2, <2>2, <2>3
  <2>4. CASE pc' = "cluster" /\ UNCHANGED <<crawls, ci>>
    <3>1. ci \in Nat \ {0} /\ ci <= Len(crawls)
      BY <2>1 DEF CopiesInv
    <3> QED BY <2>1, <2>2, <2>4, <3>1, CopiesKept
  <2> QED BY <2>1, <2>3, <2>4
<1> QED
  BY <1>3, <1>4, <1>5, <1>6, <1>7, <1>8, <1>9, <1>10 DEF Next

LEMMA CopiesInit == Init => CopiesInv
<1> SUFFICES ASSUME Init PROVE CopiesInv
  OBVIOUS
<1>1. world \in Worlds /\ pc = "start" /\ ci = 1
  BY DEF Init
<1>2. PICK copy \in {None, <<Junk>>, <<TooLong>>}
                    \cup {SubSeq(world.index, 1, n) : n \in 1..Len(world.index)}
                    \cup {Append(SubSeq(world.index, 1, n), TooLong) : n \in 1..Len(world.index)} :
        cached = [c \in 1..MaxCrawls |-> copy]
  BY DEF Init
<1>3. copy = None \/ IsCopy(copy)
  <2>1. \/ copy \in {None, <<Junk>>, <<TooLong>>}
        \/ \E n \in 0..Len(world.index) : copy = SubSeq(world.index, 1, n)
        \/ \E n \in 0..Len(world.index) : copy = Append(SubSeq(world.index, 1, n), TooLong)
    <3>1. \A n \in 1..Len(world.index) : n \in 0..Len(world.index)
      BY <1>1, IndexTypes
    <3> QED BY <3>1
  <2> QED BY <1>1, <2>1, PublishedIsCopy
<1> QED BY <1>1, <1>2, <1>3 DEF CopiesInv

\* Whatever copy of cluster.idx is cached and whatever arrives of it, and wherever the
\* range begins and ends in blocks and files: if the copy that was read shows the end
\* of the range, no file with a key of the range is left out, and at most one without
\* is chosen (parseCommonCrawlCluster, cdxPathsFromClusterBlocks).
THEOREM CZFilesAreChosen == Spec => []ChoosesCZFiles
<1>1. NewestInv /\ CopiesInv /\ [Next]_vars => NewestInv' /\ CopiesInv'
  BY NewestStep, CopiesStep
<1>2. Init => NewestInv /\ CopiesInv
  BY NewestInit, CopiesInit
<1> QED
  BY <1>1, <1>2, CopiesChoose, PTL DEF Spec

----------------------------------------------------------------------------
(* A run without trouble *)

LEMMA PublishedParses == world \in Worlds => ~parseCommonCrawlCluster(world.index).failed
<1> SUFFICES ASSUME world \in Worlds PROVE ~parseCommonCrawlCluster(world.index).failed
  OBVIOUS
<1>1. world.index \in Seq(Block) /\ Len(world.index) \in Nat
  BY WorldTypes
<1>2. world.index \in Seq(Block \cup {TooLong})
  BY <1>1
<1>3. \A k \in 1..Len(world.index) : world.index[k] # TooLong
  BY <1>1, SentinelAssumption
<1> QED BY <1>2, <1>3, ParsedIs DEF IsParsed

LEMMA UntroubledKept ==
    ASSUME UntroubledInv, UNCHANGED <<world, trouble>>,
           attempt' \in Nat \ {0},
           pc' \in {"start", "html", "crawl"} => attempt' = 1,
           errs' \subseteq 1..(ci' - 1),
           \A c \in errs : cached'[c] = cached[c],
           trouble = {} =>
             /\ pc' \in {"cluster", "parse"} => world.mapped
             /\ pc' = "parse" => /\ map'.lines = cached'[ci']
                                 /\ ~map'.cached => map'.lines = world.index
             /\ pc' = "cluster" /\ attempt' # 1 => cached'[ci'] = None
             /\ pc' = "parse" /\ attempt' # 1 => ~map'.cached
             /\ \A c \in errs' \ errs : HadNothing(c)'
    PROVE  UntroubledInv'
<1>1. \A lines : StuckOn(lines) <=> StuckOn(lines)'
  BY DEF StuckOn
<1>2. ASSUME NEW c \in errs, HadNothing(c) PROVE HadNothing(c)'
  <2>1. cached'[c] = cached[c]
    OBVIOUS
  <2>2. StuckOn(cached[c]) => StuckOn(cached'[c])
    BY <2>1
  <2>3. StuckOn(cached'[c]) => StuckOn(cached[c])'
    BY <1>1
  <2> QED BY <1>2, <2>1, <2>2, <2>3 DEF HadNothing
<1>3. trouble' = {} => \A c \in errs' : HadNothing(c)'
  <2>1. trouble = {} => \A c \in errs : HadNothing(c)
    BY DEF UntroubledInv
  <2> QED BY <1>2, <2>1
<1> HIDE DEF HadNothing
<1> QED BY <1>3 DEF UntroubledInv

LEMMA UntroubledStep ==
    ASSUME NewestInv, CopiesInv, UntroubledInv, [Next]_vars
    PROVE  UntroubledInv'
<1>1. /\ ci \in Nat \ {0} /\ world \in Worlds /\ attempt \in Nat \ {0}
      /\ errs \subseteq 1..(ci - 1) /\ ci \notin errs
      /\ pc \in {"start", "html", "crawl"} => attempt = 1
  BY DEF CopiesInv, UntroubledInv
<1>0. PICK at : at = ci
  OBVIOUS
<1>2. ASSUME UNCHANGED <<world, trouble, cached, ci, errs, attempt>>,
             pc' \notin {"cluster", "parse"},
             pc' \in {"start", "html", "crawl"} => attempt = 1
      PROVE  UntroubledInv'
  <2> HIDE DEF HadNothing
  <2> QED BY <1>1, <1>2, UntroubledKept
<1>3. ASSUME NEW failed, NextCrawl(failed), trouble' = trouble,
             \A c \in errs : cached'[c] = cached[c],
             trouble = {} /\ failed => HadNothing(at)'
      PROVE  UntroubledInv'
  <2>1. /\ pc' = "crawl" /\ ci' = ci + 1 /\ attempt' = 1 /\ UNCHANGED world
        /\ errs' = IF failed THEN errs \cup {ci} ELSE errs
    BY <1>3 DEF NextCrawl, chosen
  <2>2. errs' \subseteq 1..(ci' - 1)
    BY <1>1, <2>1
  <2>3. trouble = {} => \A c \in errs' \ errs : HadNothing(c)'
    <3> SUFFICES ASSUME trouble = {}, NEW c \in errs' \ errs PROVE HadNothing(c)'
      OBVIOUS
    <3>1. failed /\ c = at
      BY <1>0, <2>1
    <3>2. HadNothing(at)'
      BY <1>3, <3>1
    <3> QED BY <3>1, <3>2 DEF HadNothing
  <2> HIDE DEF HadNothing
  <2> QED BY <1>3, <2>1, <2>2, <2>3, UntroubledKept
<1>4. CASE ExplicitCrawl \/ ExplicitCrawlFails \/ CollInfo \/ CollInfoFails \/ Html \/ HtmlFails
           \/ NoMoreCrawls
  <2>1. /\ UNCHANGED <<world, trouble, cached, ci, errs, attempt>>
        /\ pc' \notin {"cluster", "parse"} /\ pc \in {"start", "html", "crawl"}
    BY <1>4 DEF ExplicitCrawl, ExplicitCrawlFails, CollInfo, CollInfoFails, Html, HtmlFails,
       NoMoreCrawls, Select, RunFails, chosen, perCrawl
  <2> QED BY <1>1, <1>2, <2>1
<1>5. CASE Manifest
  <2>1. /\ UNCHANGED <<world, trouble, cached, ci, errs, attempt>> /\ attempt = 1
        /\ (pc' = "cluster" /\ world.mapped) \/ pc' = "sequential"
    BY <1>1, <1>5 DEF Manifest, chosen
  <2> HIDE DEF HadNothing
  <2> QED BY <1>1, <2>1, UntroubledKept
<1>6. CASE SkipFile \/ ReadFile \/ UNCHANGED vars
  <2>1. CASE SkipFile \/ ReadFile
    <3>1. UNCHANGED <<world, trouble, cached, ci, errs, attempt, pc>> /\ pc \in {"files", "sequential"}
      BY <2>1 DEF SkipFile, ReadFile, AtFile, chosen
    <3> QED BY <1>1, <1>2, <3>1
  <2>2. CASE UNCHANGED vars
    <3>1. UNCHANGED <<world, trouble, cached, ci, errs, attempt, pc, map>>
      BY <2>2 DEF vars, chosen, perCrawl
    <3> QED BY <3>1 DEF UntroubledInv, HadNothing, StuckOn
  <2> QED BY <1>6, <2>1, <2>2
<1>7. CASE UseCluster
  <2>1. UNCHANGED <<world, trouble, cached, ci, errs, attempt>> /\ pc' = "files"
    BY <1>7 DEF UseCluster, chosen
  <2> QED BY <1>2, <2>1
<1>8. CASE NoMoreFiles
  <2>1. NextCrawl(FALSE) /\ UNCHANGED <<cached, trouble>>
    BY <1>8 DEF NoMoreFiles, NextCrawl, chosen
  <2> QED BY <1>3, <2>1
<1>9. CASE ManifestFails \/ OpenClusterFails \/ ReadFileFails
  <2>1. /\ NextCrawl(TRUE) /\ UNCHANGED <<cached, trouble, world>>
        /\ trouble # {} \/ world.manifest = <<>>
    BY <1>9 DEF ManifestFails, OpenClusterFails, ReadFileFails, May, NextCrawl, chosen
  <2>2. trouble = {} => HadNothing(at)'
    BY <2>1 DEF HadNothing
  <2> QED BY <1>3, <2>1, <2>2
<1>10. CASE UseClusterFails
  <2>1. /\ NextCrawl(TRUE) /\ UNCHANGED <<cached, trouble, world>> /\ pc = "parse"
        /\ ~Parsed.failed /\ ~(Parsed.blocks # <<>> /\ Resolves)
    BY <1>10 DEF UseClusterFails, NextCrawl, chosen
  <2>2. StuckOn(map.lines)
    BY <2>1 DEF StuckOn, Parsed, Resolves
  <2>3. map.lines # None
    <3>1. IsCopy(map.lines)
      BY <2>1 DEF CopiesInv
    <3>2. map.lines \in Seq(Block \cup {Junk, TooLong})
      <4>1. Seq(Block \cup {TooLong}) \subseteq Seq(Block \cup {Junk, TooLong})
        <5> SUFFICES ASSUME NEW l \in Seq(Block \cup {TooLong}) PROVE l \in Seq(Block \cup {Junk, TooLong})
          OBVIOUS
        <5> HIDE DEF Block
        <5>1. Len(l) \in Nat /\ \A k \in 1..Len(l) : l[k] \in Block \cup {Junk, TooLong}
          OBVIOUS
        <5> QED BY <5>1
      <4>2. <<Junk>> \in Seq(Block \cup {Junk, TooLong})
        OBVIOUS
      <4> QED BY <3>1, <4>1, <4>2 DEF IsCopy
    <3> QED BY <3>2, SentinelAssumption
  <2>4. trouble = {} => HadNothing(at)'
    <3> SUFFICES ASSUME trouble = {} PROVE HadNothing(at)'
      OBVIOUS
    <3>1. world.mapped /\ map.lines = cached[ci]
      BY <2>1 DEF UntroubledInv
    <3>2. StuckOn(cached[at])'
      <4>1. StuckOn(cached[at])
        BY <1>0, <2>2, <3>1
      <4> QED BY <2>1, <4>1 DEF StuckOn
    <3>3. cached'[at] # None /\ world'.mapped
      BY <1>0, <2>1, <2>3, <3>1
    <3> QED BY <2>1, <3>2, <3>3 DEF HadNothing
  <2> QED BY <1>3, <2>1, <2>4
<1>11. CASE OpenCluster
  <2>1. /\ UNCHANGED <<world, trouble, ci, attempt, errs>> /\ pc = "cluster" /\ pc' = "parse"
        /\ \/ cached[ci] \notin {None, <<>>} /\ map' = [lines |-> cached[ci], cached |-> TRUE]
              /\ UNCHANGED cached
           \/ \E lines \in Arrivals : /\ cached' = [cached EXCEPT ![ci] = lines]
                                      /\ map' = [lines |-> lines, cached |-> FALSE]
    BY <1>11 DEF OpenCluster, chosen
  <2>2. trouble = {} => world.mapped /\ (attempt # 1 => cached[ci] = None)
    BY <2>1 DEF UntroubledInv
  <2>3. trouble = {} => Arrivals = {world.index}
    BY DEF Arrivals, May
  <2>4. ci \in DOMAIN cached /\ errs \subseteq DOMAIN cached
    BY <1>1, <2>1, AtHand
  <2>5. CASE cached[ci] \notin {None, <<>>} /\ map' = [lines |-> cached[ci], cached |-> TRUE]
             /\ UNCHANGED cached
    <3> HIDE DEF HadNothing
    <3> QED BY <1>1, <2>1, <2>2, <2>5, UntroubledKept
  <2>6. ASSUME NEW lines \in Arrivals, cached' = [cached EXCEPT ![ci] = lines],
               map' = [lines |-> lines, cached |-> FALSE]
        PROVE  UntroubledInv'
    <3>1. cached'[ci] = lines /\ \A c \in errs : cached'[c] = cached[c]
      BY <1>1, <2>4, <2>6
    <3>2. map'.lines = lines /\ ~map'.cached /\ (trouble = {} => lines = world.index)
      BY <2>3, <2>6
    <3> HIDE DEF HadNothing
    <3> QED BY <1>1, <2>1, <2>2, <3>1, <3>2, UntroubledKept
  <2> QED BY <2>1, <2>5, <2>6
<1>12. CASE InvalidCluster
  <2>1. /\ UNCHANGED <<world, trouble>> /\ pc = "parse" /\ Parsed.failed
        /\ cached' = [cached EXCEPT ![ci] = None] \/ UNCHANGED cached
        /\ map.cached /\ trouble = {} => cached' = [cached EXCEPT ![ci] = None]
        /\ \/ NextCrawl(TRUE) /\ (map.cached => ~(attempt < 2))
           \/ map.cached /\ attempt < 2 /\ pc' = "cluster" /\ attempt' = attempt + 1 /\ UNCHANGED <<ci, errs>>
    BY <1>12 DEF InvalidCluster, NextCrawl, May, chosen
  <2>2. \A c \in errs : cached'[c] = cached[c]
    <3>1. errs \subseteq DOMAIN cached
      BY <1>1, <2>1, AtHand
    <3>2. \A c \in errs : c # ci
      BY <1>1
    <3> QED BY <2>1, <3>1, <3>2
  <2>3. trouble = {} => map.cached /\ world.mapped
    <3> SUFFICES ASSUME trouble = {} PROVE map.cached /\ world.mapped
      OBVIOUS
    <3>1. world.mapped /\ (~map.cached => map.lines = world.index)
      BY <2>1 DEF UntroubledInv
    <3>2. map.lines # world.index
      BY <1>1, <2>1, PublishedParses DEF Parsed
    <3> QED BY <3>1, <3>2
  <2>4. trouble = {} => attempt < 2
    <3>1. trouble = {} /\ attempt # 1 => ~map.cached
      BY <2>1 DEF UntroubledInv
    <3> QED BY <1>1, <2>3, <3>1
  <2>5. CASE NextCrawl(TRUE) /\ (map.cached => ~(attempt < 2))
    <3>1. trouble # {}
      BY <2>3, <2>4, <2>5
    <3> QED BY <1>3, <2>1, <2>2, <2>5, <3>1
  <2>6. CASE map.cached /\ attempt < 2 /\ pc' = "cluster" /\ attempt' = attempt + 1 /\ UNCHANGED <<ci, errs>>
    <3>1. trouble = {} => cached'[ci] = None
      <4>1. ci \in DOMAIN cached
        BY <2>1, AtHand
      <4> QED BY <2>1, <2>6, <4>1
    <3>2. attempt' \in Nat \ {0} /\ errs' \subseteq 1..(ci' - 1)
      BY <1>1, <2>6
    <3> HIDE DEF HadNothing
    <3> QED BY <1>1, <2>1, <2>2, <2>3, <2>6, <3>1, <3>2, UntroubledKept
  <2> QED BY <2>1, <2>5, <2>6
<1> QED
  BY <1>4, <1>5, <1>6, <1>7, <1>8, <1>9, <1>10, <1>11, <1>12 DEF Next

LEMMA UntroubledInit == Init => UntroubledInv
BY DEF Init, UntroubledInv

\* A run without trouble gets over every cached cluster.idx that cannot be parsed: a
\* crawl fails only for an empty manifest, or for a copy that can be parsed and has no
\* block of the range or one of an unknown file (selectCommonCrawlCDXPaths).
THEOREM UntroubledFailsOnlyIfStuck == Spec => []FailsOnlyIfStuck
<1>1. UntroubledInv => FailsOnlyIfStuck
  BY DEF UntroubledInv, HadNothing, FailsOnlyIfStuck
<1>2. NewestInv /\ CopiesInv /\ UntroubledInv /\ [Next]_vars
        => NewestInv' /\ CopiesInv' /\ UntroubledInv'
  BY NewestStep, CopiesStep, UntroubledStep
<1>3. Init => NewestInv /\ CopiesInv /\ UntroubledInv
  BY NewestInit, CopiesInit, UntroubledInit
<1> QED
  BY <1>1, <1>2, <1>3, PTL DEF Spec

----------------------------------------------------------------------------
(* Sequences: their elements, one with two of them, without the last and the first,
   with one more before, and backwards *)

LEMMA Elements ==
    ASSUME NEW T, NEW s \in Seq(T)
    PROVE  Len(s) \in Nat /\ \A i \in 1..Len(s) : s[i] \in T
OBVIOUS

LEMMA NoElements ==
    ASSUME NEW T
    PROVE  <<>> \in Seq(T) /\ Len(<<>>) = 0
OBVIOUS

LEMMA TwoElements ==
    ASSUME NEW T, NEW a \in T, NEW b \in T
    PROVE  /\ <<a, b>> \in Seq(T) /\ Len(<<a, b>>) = 2
           /\ <<a, b>>[1] = a /\ <<a, b>>[2] = b
OBVIOUS

LEMMA TwoLabels ==
    ASSUME NEW a \in Labels
    PROVE  /\ <<a, "cz">> \in Seq(Labels) /\ Len(<<a, "cz">>) = 2
           /\ <<a, "cz">>[1] = a /\ <<a, "cz">>[2] = "cz"
BY NamesAssumption, TwoElements

LEMMA Shorter ==
    ASSUME NEW T, NEW s \in Seq(T), Len(s) > 1
    PROVE  /\ Front(s) \in Seq(T) /\ Tail(s) \in Seq(T) /\ Len(Tail(s)) = Len(s) - 1
           /\ \A i \in 1..(Len(s) - 1) : Tail(s)[i] = s[i + 1]
<1>1. SubSeq(s, 1, Len(s) - 1) \in Seq(T)
  OBVIOUS
<1> QED BY <1>1 DEF Front

LEMMA OneBefore ==
    ASSUME NEW T, NEW x \in T, NEW s \in Seq(T)
    PROVE  /\ <<x>> \o s \in Seq(T) /\ Len(<<x>> \o s) = Len(s) + 1
           /\ (<<x>> \o s)[1] = x /\ \A i \in 1..Len(s) : (<<x>> \o s)[i + 1] = s[i]
OBVIOUS

LEMMA Backwards ==
    ASSUME NEW T, NEW s \in Seq(T)
    PROVE  /\ Reverse(s) \in Seq(T) /\ Len(Reverse(s)) = Len(s)
           /\ \A i \in 1..Len(s) : Reverse(s)[i] = s[Len(s) - i + 1]
<1>1. Reverse(s) = [i \in 1..Len(s) |-> s[Len(s) - i + 1]]
  BY DEF Reverse
<1>2. \A i \in 1..Len(s) : s[Len(s) - i + 1] \in T
  OBVIOUS
<1> QED BY <1>1, <1>2

----------------------------------------------------------------------------
(* The labels of a host name *)

LEMMA CleanIsRecursive ==
    ASSUME NEW h, Len(h) \in Nat
    PROVE  \E clean :
             /\ Clean(h) = clean[Len(h)]
             /\ clean[0] = <<>>
             /\ \A n \in 1..Len(h) :
                  clean[n] = IF h[n] = NoLabel THEN clean[n - 1] ELSE Append(clean[n - 1], h[n])
<1> DEFINE N == Len(h)
           After(before, n) == IF h[n] = NoLabel THEN before ELSE Append(before, h[n])
           IsOut(out, k) == out[0] = <<>> /\ \A n \in 1..k : out[n] = After(out[n - 1], n)
           S == {k \in Nat : \E out : IsOut(out, k)}
           rec[n \in 0..N] == IF n = 0 THEN <<>> ELSE After(rec[n - 1], n)
<1>1. Clean(h) = rec[N]
  BY Zenon DEF Clean
<1> HIDE DEF After
<1>2. 0 \in S
  <2>1. IsOut([n \in {0} |-> <<>>], 0)
    OBVIOUS
  <2> HIDE DEF IsOut
  <2> QED BY <2>1
<1>3. ASSUME NEW k \in Nat, k \in S PROVE k + 1 \in S
  <2>1. PICK out : IsOut(out, k)
    BY <1>3
  <2> DEFINE more == [n \in 0..(k + 1) |-> IF n = k + 1 THEN After(out[k], k + 1) ELSE out[n]]
  <2>2. IsOut(more, k + 1)
    <3>1. /\ \A n \in 0..k : more[n] = out[n]
          /\ more[k + 1] = After(out[k], k + 1)
      OBVIOUS
    <3> HIDE DEF more
    <3>2. more[0] = <<>>
      BY <2>1, <3>1
    <3>3. \A n \in 1..k : n \in 0..k /\ n - 1 \in 0..k
      OBVIOUS
    <3>4. \A n \in 1..k : more[n] = After(more[n - 1], n)
      BY <2>1, <3>1, <3>3
    <3>5. k \in 0..k /\ (k + 1) - 1 = k /\ \A n \in 1..(k + 1) : n \in 1..k \/ n = k + 1
      OBVIOUS
    <3> QED BY <3>1, <3>2, <3>4, <3>5
  <2> HIDE DEF more, IsOut
  <2>3. \E o : IsOut(o, k + 1)
    BY <2>2
  <2> QED BY <2>3
<1>4. PICK out : IsOut(out, N)
  <2>1. N \in S
    <3> HIDE DEF S
    <3> QED BY <1>2, <1>3, SetInduction
  <2> QED BY <2>1
<1>5. rec = [n \in 0..N |-> IF n = 0 THEN <<>> ELSE After(rec[n - 1], n)]
  <2> DEFINE g == [n \in 0..N |-> out[n]]
  <2>1. g = [n \in 0..N |-> IF n = 0 THEN <<>> ELSE After(g[n - 1], n)]
    BY <1>4
  <2>2. \E f : f = [n \in 0..N |-> IF n = 0 THEN <<>> ELSE After(f[n - 1], n)]
    BY <2>1
  <2> QED BY <2>2, Zenon
<1>6. rec[0] = <<>> /\ \A n \in 1..N : rec[n] = After(rec[n - 1], n)
  <2> HIDE DEF rec
  <2> QED BY <1>5
<1> QED BY <1>1, <1>6 DEF After

\* No label of what Clean returns is empty, and it leaves a name without empty labels alone.
LEMMA CleanIs ==
    ASSUME NEW h \in Seq(Labels)
    PROVE  /\ Clean(h) \in Seq(Labels \ {NoLabel})
           /\ (\A i \in 1..Len(h) : h[i] # NoLabel) => Clean(h) = h
<1>0. Len(h) \in Nat /\ \A i \in 1..Len(h) : h[i] \in Labels
  BY Elements
<1>1. PICK clean : /\ Clean(h) = clean[Len(h)]
                   /\ clean[0] = <<>>
                   /\ \A n \in 1..Len(h) :
                        clean[n] = IF h[n] = NoLabel THEN clean[n - 1] ELSE Append(clean[n - 1], h[n])
  BY <1>0, CleanIsRecursive
<1> DEFINE Full == \A i \in 1..Len(h) : h[i] # NoLabel
           IsClean(c, n) == /\ c \in Seq(Labels \ {NoLabel})
                            /\ Full => Len(c) = n /\ \A i \in 1..n : c[i] = h[i]
           S == {n \in 0..Len(h) : IsClean(clean[n], n)}
<1>2. 0 \in S
  <2>1. clean[0] \in Seq(Labels \ {NoLabel}) /\ Len(clean[0]) = 0
    BY <1>1, NoElements
  <2>2. 0 \in 0..Len(h) /\ \A i \in 1..0 : FALSE
    BY <1>0
  <2>3. IsClean(clean[0], 0)
    BY <2>1, <2>2
  <2> HIDE DEF IsClean
  <2> QED BY <2>2, <2>3
<1>3. ASSUME NEW n \in Nat, n < Len(h), n \in S PROVE n + 1 \in S
  <2> DEFINE c == clean[n]
             x == h[n + 1]
  <2>1. n + 1 \in 1..Len(h) /\ n + 1 \in 0..Len(h) /\ (n + 1) - 1 = n
    BY <1>0, <1>3
  <2>2. clean[n + 1] = (IF x = NoLabel THEN c ELSE Append(c, x)) /\ x \in Labels
    BY <1>0, <1>1, <2>1
  <2>3. c \in Seq(Labels \ {NoLabel}) /\ (Full => x # NoLabel /\ Len(c) = n /\ \A i \in 1..n : c[i] = h[i])
    BY <1>3, <2>1
  <2>4. IsClean(clean[n + 1], n + 1)
    <3>1. CASE x = NoLabel
      BY <2>2, <2>3, <3>1
    <3>2. CASE x # NoLabel
      <4>1. x \in Labels \ {NoLabel}
        BY <2>2, <3>2
      <4> HIDE DEF c, x, Full
      <4>2. /\ Append(c, x) \in Seq(Labels \ {NoLabel})
            /\ Len(Append(c, x)) = Len(c) + 1
            /\ \A i \in 1..Len(c) : Append(c, x)[i] = c[i]
            /\ Append(c, x)[Len(c) + 1] = x
        BY <2>3, <4>1, OneMore
      <4>3. Full => Len(Append(c, x)) = n + 1 /\ \A i \in 1..(n + 1) : Append(c, x)[i] = h[i]
        <5> SUFFICES ASSUME Full PROVE Len(Append(c, x)) = n + 1 /\ \A i \in 1..(n + 1) : Append(c, x)[i] = h[i]
          OBVIOUS
        <5>1. Len(c) = n /\ \A i \in 1..n : Append(c, x)[i] = h[i]
          BY <2>3, <4>2
        <5>2. Append(c, x)[n + 1] = h[n + 1]
          BY <4>2, <5>1 DEF x
        <5> QED BY <4>2, <5>1, <5>2, NextIndex
      <4> QED BY <2>2, <3>2, <4>2, <4>3
    <3> QED BY <3>1, <3>2
  <2> HIDE DEF IsClean
  <2> QED BY <2>1, <2>4
<1>4. IsClean(clean[Len(h)], Len(h))
  <2>1. Len(h) \in S
    <3> HIDE DEF S
    <3> QED BY <1>0, <1>2, <1>3, InductionUpTo
  <2> QED BY <2>1
<1>5. Full => Clean(h) = h
  BY <1>0, <1>1, <1>4
<1> QED BY <1>1, <1>4, <1>5

\* What FromHost returns.
Domains == {<<a, "cz">> : a \in Labels \ (Underscored \cup {NoLabel})}
WWW == <<"www", "cz">>

LEMMA SecondLevelIs ==
    ASSUME NEW clean \in Seq(Labels \ {NoLabel})
    PROVE  SecondLevel(clean) \in Domains \cup {NoDomain}
<1> DEFINE n == Len(clean)
<1>1. CASE n < 2 \/ clean[n] # "cz" \/ clean[n - 1] \in Underscored
  BY <1>1 DEF SecondLevel
<1>2. CASE ~(n < 2 \/ clean[n] # "cz" \/ clean[n - 1] \in Underscored)
  <2>1. SecondLevel(clean) = <<clean[n - 1], "cz">>
    BY <1>2 DEF SecondLevel
  <2>2. n \in Nat /\ n - 1 \in 1..n
    BY <1>2
  <2>3. clean[n - 1] \in Labels \ (Underscored \cup {NoLabel})
    BY <1>2, <2>2
  <2> QED BY <2>1, <2>3 DEF Domains
<1> QED BY <1>1, <1>2

\* Trimming leaves a sequence of labels.
LEMMA Trimmed ==
    ASSUME NEW h \in Seq(Labels)
    PROVE  TrimDot(h) \in Seq(Labels) /\ TrimWWW(h) \in Seq(Labels)
<1>1. Len(h) > 1 => Front(h) \in Seq(Labels) /\ Tail(h) \in Seq(Labels)
  <2> SUFFICES ASSUME Len(h) > 1 PROVE Front(h) \in Seq(Labels) /\ Tail(h) \in Seq(Labels)
    OBVIOUS
  <2>1. h # <<>> /\ Tail(h) \in Seq(Labels)
    OBVIOUS
  <2>2. SubSeq(h, 1, Len(h) - 1) \in Seq(Labels)
    OBVIOUS
  <2> QED BY <2>1, <2>2 DEF Front
<1> QED BY <1>1 DEF TrimDot, TrimWWW

LEMMA FromHostIs ==
    ASSUME NEW h \in Seq(Labels)
    PROVE  FromHost(h) \in Domains \cup {NoDomain}
<1> DEFINE t == TrimWWW(TrimDot(h))
<1>1. t \in Seq(Labels)
  BY Trimmed
<1> HIDE DEF t
<1>2. Clean(t) \in Seq(Labels \ {NoLabel})
  BY <1>1, CleanIs
<1>3. SecondLevel(Clean(t)) \in Domains \cup {NoDomain}
  BY <1>2, SecondLevelIs
<1> QED BY <1>3 DEF FromHost, t

\* FromHost of a name without empty labels: the prefix www goes, and the last two labels count.
LEMMA FromHostOfFull ==
    ASSUME NEW h \in Seq(Labels), Len(h) > 1, \A i \in 1..Len(h) : h[i] # NoLabel,
           h[Len(h)] = "cz", h[Len(h) - 1] \notin Underscored
    PROVE  FromHost(h) = IF Registrable(h) = WWW /\ Len(h) = 2 THEN NoDomain ELSE Registrable(h)
<1> DEFINE n == Len(h)
<1>0. n \in Nat /\ n > 1 /\ n \in 1..n /\ n - 1 \in 1..n /\ 1 \in 1..n
  OBVIOUS
<1>1. TrimDot(h) = h
  BY <1>0 DEF TrimDot, Last
<1>2. CASE h[1] # "www"
  <2>1. TrimWWW(h) = h
    BY <1>2 DEF TrimWWW
  <2>2. Clean(h) = h
    BY CleanIs
  <2>3. FromHost(h) = Registrable(h)
    BY <1>0, <1>1, <2>1, <2>2 DEF FromHost, SecondLevel, Registrable
  <2>4. n = 2 => Registrable(h) # WWW
    BY <1>0, <1>2 DEF Registrable, WWW
  <2> QED BY <2>3, <2>4
<1>3. CASE h[1] = "www"
  <2> DEFINE t == Tail(h)
  <2>1. TrimWWW(h) = t
    BY <1>0, <1>3 DEF TrimWWW
  <2>2. t \in Seq(Labels) /\ Len(t) = n - 1 /\ \A i \in 1..(n - 1) : t[i] = h[i + 1]
    BY <1>0
  <2> HIDE DEF t
  <2>3. Clean(t) = t
    <3>1. \A i \in 1..Len(t) : t[i] # NoLabel
      <4>1. \A i \in 1..(n - 1) : i + 1 \in 1..n
        BY <1>0
      <4> QED BY <2>2, <4>1
    <3> QED BY <2>2, <3>1, CleanIs
  <2>4. FromHost(h) = SecondLevel(t)
    BY <1>1, <2>1, <2>3 DEF FromHost
  <2>5. CASE n = 2
    <3>1. SecondLevel(t) = NoDomain
      BY <2>2, <2>5 DEF SecondLevel
    <3>2. Registrable(h) = WWW
      BY <1>3, <2>5 DEF Registrable, WWW
    <3> QED BY <2>4, <2>5, <3>1, <3>2
  <2>6. CASE n # 2
    <3>1. n - 1 \in 1..(n - 1) /\ n - 2 \in 1..(n - 1) /\ (n - 1) + 1 = n /\ (n - 2) + 1 = n - 1
          /\ ~(n - 1 < 2) /\ (n - 1) - 1 = n - 2
      <4> HIDE DEF n
      <4>1. n \in Nat /\ n > 2
        BY <1>0, <2>6
      <4> QED BY <4>1
    <3>2. t[n - 1] = "cz" /\ t[n - 2] = h[n - 1]
      BY <2>2, <3>1
    <3>3. SecondLevel(t) = <<h[n - 1], "cz">>
      BY <2>2, <3>1, <3>2 DEF SecondLevel
    <3> QED BY <2>4, <2>6, <3>3 DEF Registrable
  <2> QED BY <2>5, <2>6
<1> QED BY <1>2, <1>3

\* FromHost of a domain is the domain again, but for www.cz.
LEMMA FromHostOfDomain ==
    ASSUME NEW d \in Domains
    PROVE  FromHost(d) = IF d = WWW THEN NoDomain ELSE d
<1>1. PICK a \in Labels \ (Underscored \cup {NoLabel}) : d = <<a, "cz">>
  BY DEF Domains
<1>2. d \in Seq(Labels) /\ Len(d) = 2 /\ d[1] = a /\ d[2] = "cz"
  BY <1>1, TwoLabels
<1>3. Registrable(d) = d
  BY <1>1, <1>2 DEF Registrable
<1>4. \A i \in 1..Len(d) : d[i] # NoLabel
  <2>1. \A i \in 1..2 : i = 1 \/ i = 2
    OBVIOUS
  <2>2. "cz" # NoLabel /\ a # NoLabel
    BY Zenon DEF NoLabel
  <2> QED BY <1>2, <2>1, <2>2
<1>5. Len(d) > 1 /\ d[Len(d)] = "cz" /\ d[Len(d) - 1] \notin Underscored
  BY <1>1, <1>2
<1> QED BY <1>2, <1>3, <1>4, <1>5, FromHostOfFull

----------------------------------------------------------------------------
(* The sources *)

LEMMA KeyIs ==
    ASSUME NEW h \in Seq(Labels)
    PROVE  /\ Key(h) \in Seq(Labels) /\ Len(Key(h)) = Len(h)
           /\ \A i \in 1..Len(h) : Key(h)[i] = h[Len(h) - i + 1]
BY Backwards DEF Key

\* Whatever its name, a source adds a domain or nothing.
LEMMA SourcesAre ==
    ASSUME NEW h \in Seq(Labels), NEW withPort \in BOOLEAN
    PROVE  /\ domainFromCDXKey(Key(h), withPort) \in Domains \cup {NoDomain}
           /\ CertificateDomain(h) \in Domains \cup {NoDomain}
<1> DEFINE key == Key(h)
<1>1. key \in Seq(Labels)
  BY KeyIs
<1> HIDE DEF key
<1>2. domainFromCDXKey(key, withPort) \in Domains \cup {NoDomain}
  <2>1. CASE Len(key) < 2
    BY <2>1 DEF domainFromCDXKey
  <2>2. CASE ~(Len(key) < 2)
    <3>1. key[2] \in Labels
      BY <1>1, <2>2
    <3>2. <<key[2], "cz">> \in Seq(Labels)
      BY <3>1, TwoLabels
    <3>3. FromHost(<<key[2], "cz">>) \in Domains \cup {NoDomain}
      BY <3>2, FromHostIs
    <3> QED BY <3>3 DEF domainFromCDXKey
  <2> QED BY <2>1, <2>2
<1>3. CertificateDomain(h) \in Domains \cup {NoDomain}
  <2> DEFINE t == IF Len(h) > 1 /\ h[1] = "*" THEN Tail(h) ELSE h
  <2>1. t \in Seq(Labels)
    BY Shorter
  <2> HIDE DEF t
  <2>2. FromHost(t) \in Domains \cup {NoDomain}
    BY <2>1, FromHostIs
  <2> QED BY <2>2 DEF CertificateDomain, t
<1> QED BY <1>2, <1>3 DEF key

\* The sources agree on every host, whatever labels it has.
LEMMA Agreement ==
    ASSUME host \in Seq(Labels)
    PROVE  SourcesAgree
<1> SUFFICES ASSUME WellFormed(host), Registrable(host) # WWW
             PROVE  /\ FromHost(host) = Registrable(host)
                    /\ CertificateDomain(host) = Registrable(host)
                    /\ CertificateDomain(<<"*">> \o host) = Registrable(host)
                    /\ domainFromCDXKey(Key(host), port) =
                         IF \/ \E i \in 1..Len(host) : host[i] \in Underscored
                            \/ port /\ Len(host) = 2
                           THEN NoDomain
                           ELSE Registrable(host)
  BY DEF SourcesAgree, WWW
<1> DEFINE n == Len(host)
<1>1. /\ n \in Nat /\ n > 1 /\ n - 1 \in 1..n /\ 1 \in 1..n /\ n \in 1..n
      /\ host[n] = "cz" /\ host[n - 1] \notin Underscored
      /\ \A i \in 1..n : host[i] \in Labels \ {NoLabel, "*"}
  <2>1. n \in Nat /\ n > 1 /\ \A i \in 1..n : host[i] \in Labels
    BY DEF WellFormed
  <2> QED BY <2>1 DEF WellFormed
<1>2. FromHost(host) = Registrable(host)
  BY <1>1, FromHostOfFull
<1>3. CertificateDomain(host) = Registrable(host)
  <2>1. host[1] # "*"
    BY <1>1
  <2> QED BY <1>2, <2>1 DEF CertificateDomain
<1>4. CertificateDomain(<<"*">> \o host) = Registrable(host)
  <2> DEFINE w == <<"*">> \o host
  <2>1. w \in Seq(Labels) /\ Len(w) = n + 1 /\ w[1] = "*" /\ \A i \in 1..n : w[i + 1] = host[i]
    BY NamesAssumption, OneBefore
  <2> HIDE DEF w
  <2>2. Tail(w) = host
    <3>1. /\ Tail(w) \in Seq(Labels) /\ Len(Tail(w)) = n
          /\ \A i \in 1..n : Tail(w)[i] = w[i + 1]
      BY <1>1, <2>1
    <3> QED BY <2>1, <3>1
  <2>3. Len(w) > 1
    BY <1>1, <2>1
  <2> QED BY <1>2, <2>1, <2>2, <2>3 DEF CertificateDomain, w
<1>5. domainFromCDXKey(Key(host), port) =
        IF (\E i \in 1..n : host[i] \in Underscored) \/ (port /\ n = 2)
          THEN NoDomain
          ELSE Registrable(host)
  <2> DEFINE key == Key(host)
  <2>1. Len(key) = n /\ \A i \in 1..n : key[i] = host[n - i + 1]
    BY KeyIs
  <2> HIDE DEF key
  <2>2. key[1] = "cz" /\ key[2] = host[n - 1]
    <3>1. 2 \in 1..n /\ n - 1 + 1 = n /\ n - 2 + 1 = n - 1
      BY <1>1
    <3> QED BY <1>1, <2>1, <3>1
  <2>3. (\E i \in 2..n : key[i] = NoLabel \/ key[i] \in Underscored)
          <=> \E i \in 1..n : host[i] \in Underscored
    <3>1. \A i \in 2..n : n - i + 1 \in 1..n /\ key[i] = host[n - i + 1] /\ key[i] # NoLabel
      <4>1. \A i \in 2..n : n - i + 1 \in 1..n /\ i \in 1..n
        BY <1>1
      <4> QED BY <1>1, <2>1, <4>1
    <3>2. ASSUME NEW i \in 1..n, host[i] \in Underscored PROVE \E k \in 2..n : key[k] \in Underscored
      <4>1. i # n
        BY <1>1, <3>2, NamesAssumption
      <4>2. n - i + 1 \in 2..n /\ n - i + 1 \in 1..n /\ n - (n - i + 1) + 1 = i
        BY <1>1, <4>1
      <4>3. key[n - i + 1] = host[i]
        BY <2>1, <4>2
      <4> QED BY <3>2, <4>2, <4>3
    <3> QED BY <3>1, <3>2
  <2>4. FromHost(<<key[2], "cz">>) = Registrable(host)
    <3> DEFINE d == <<key[2], "cz">>
    <3>1. d = Registrable(host)
      BY <2>2 DEF Registrable
    <3>2. d \in Domains
      BY <1>1, <2>2 DEF Domains
    <3> HIDE DEF d
    <3>3. FromHost(d) = d
      BY <3>1, <3>2, FromHostOfDomain
    <3> QED BY <3>1, <3>3 DEF d
  <2>5. ~(Len(key) < 2)
    BY <1>1, <2>1
  <2>6. domainFromCDXKey(key, port) =
          IF (\E i \in 2..n : key[i] = NoLabel \/ key[i] \in Underscored) \/ (port /\ n = 2)
            THEN NoDomain
            ELSE FromHost(<<key[2], "cz">>)
    BY <2>1, <2>2, <2>5 DEF domainFromCDXKey
  <2> QED BY <2>3, <2>4, <2>6 DEF key
<1> QED BY <1>2, <1>3, <1>4, <1>5

----------------------------------------------------------------------------
(* export, and enrich --input *)

\* A finite set is listed whole.
LEMMA Listing ==
    ASSUME NEW T, IsFiniteSet(T)
    PROVE  /\ Len(SetToSeq(T)) \in Nat /\ ToSet(SetToSeq(T)) = T
           /\ DOMAIN SetToSeq(T) = 1..Len(SetToSeq(T))
<1> DEFINE n == Cardinality(T)
           list == SetToSeq(T)
<1>1. n \in Nat
  BY FS_CardinalityType, Zenon
<1>2. \E f \in [1..n -> T] : IsInjective(f)
  <2>1. ExistsBijection(1..n, T)
    BY FS_CardinalityType
  <2>2. PICK f : f \in Bijection(1..n, T)
    BY <2>1 DEF ExistsBijection
  <2> HIDE DEF n
  <2> QED BY <2>2 DEF Bijection, Injection, IsInjective
<1>3. list \in [1..n -> T] /\ IsInjective(list)
  <2>1. list = CHOOSE f \in [1..n -> T] : IsInjective(f)
    BY DEF SetToSeq
  <2> HIDE DEF list, n
  <2> QED BY <1>2, <2>1, Zenon
<1> HIDE DEF list
<1>4. list \in Seq(T) /\ Len(list) = n
  <2> HIDE DEF n
  <2> QED BY <1>1, <1>3
<1>5. NoTwice(list) /\ ToSet(list) \subseteq T
  <2> HIDE DEF n
  <2> QED BY <1>3, <1>4 DEF NoTwice, IsInjective, ToSet
<1>6. Cardinality(ToSet(list)) = n
  BY <1>4, <1>5, DistinctCount
<1>7. ToSet(list) = T
  BY <1>5, <1>6, FS_Subset
<1>8. DOMAIN list = 1..Len(list)
  BY <1>4
<1> QED BY <1>1, <1>4, <1>7, <1>8 DEF list

LEMMA InputsAreRecursive ==
    ASSUME NEW lines, Len(lines) \in Nat
    PROVE  \E d :
             /\ InputsOf(lines) = d[Len(lines)]
             /\ d[0] = <<>>
             /\ \A n \in 1..Len(lines) :
                  d[n] = IF IsNew(d[n - 1], lines[n]) THEN Append(d[n - 1], Input(lines[n]))
                         ELSE d[n - 1]
<1> DEFINE N == Len(lines)
           After(before, n) == IF IsNew(before, lines[n]) THEN Append(before, Input(lines[n])) ELSE before
           IsOut(out, k) == out[0] = <<>> /\ \A n \in 1..k : out[n] = After(out[n - 1], n)
           S == {k \in Nat : \E out : IsOut(out, k)}
           rec[n \in 0..N] == IF n = 0 THEN <<>> ELSE After(rec[n - 1], n)
<1>1. InputsOf(lines) = rec[N]
  BY Zenon DEF InputsOf
<1> HIDE DEF After
<1>2. 0 \in S
  <2>1. IsOut([n \in {0} |-> <<>>], 0)
    OBVIOUS
  <2> HIDE DEF IsOut
  <2> QED BY <2>1
<1>3. ASSUME NEW k \in Nat, k \in S PROVE k + 1 \in S
  <2>1. PICK out : IsOut(out, k)
    BY <1>3
  <2> DEFINE more == [n \in 0..(k + 1) |-> IF n = k + 1 THEN After(out[k], k + 1) ELSE out[n]]
  <2>2. IsOut(more, k + 1)
    <3>1. /\ \A n \in 0..k : more[n] = out[n]
          /\ more[k + 1] = After(out[k], k + 1)
      OBVIOUS
    <3> HIDE DEF more
    <3>2. more[0] = <<>>
      BY <2>1, <3>1
    <3>3. \A n \in 1..k : n \in 0..k /\ n - 1 \in 0..k
      OBVIOUS
    <3>4. \A n \in 1..k : more[n] = After(more[n - 1], n)
      BY <2>1, <3>1, <3>3
    <3>5. k \in 0..k /\ (k + 1) - 1 = k /\ \A n \in 1..(k + 1) : n \in 1..k \/ n = k + 1
      OBVIOUS
    <3> QED BY <3>1, <3>2, <3>4, <3>5
  <2> HIDE DEF more, IsOut
  <2>3. \E o : IsOut(o, k + 1)
    BY <2>2
  <2> QED BY <2>3
<1>4. PICK out : IsOut(out, N)
  <2>1. N \in S
    <3> HIDE DEF S
    <3> QED BY <1>2, <1>3, SetInduction
  <2> QED BY <2>1
<1>5. rec = [n \in 0..N |-> IF n = 0 THEN <<>> ELSE After(rec[n - 1], n)]
  <2> DEFINE g == [n \in 0..N |-> out[n]]
  <2>1. g = [n \in 0..N |-> IF n = 0 THEN <<>> ELSE After(g[n - 1], n)]
    BY <1>4
  <2>2. \E f : f = [n \in 0..N |-> IF n = 0 THEN <<>> ELSE After(f[n - 1], n)]
    BY <2>1
  <2> QED BY <2>2, Zenon
<1>6. rec[0] = <<>> /\ \A n \in 1..N : rec[n] = After(rec[n - 1], n)
  <2> HIDE DEF rec
  <2> QED BY <1>5
<1> QED BY <1>1, <1>6 DEF After

\* The domain of a line is FromHost of its host name.
Domain(lines, i) == FromHost(lines[i].host)

\* The line i is the first with its domain, and d is made of it.
FirstFor(lines, i, d) ==
    /\ Input(lines[i]) = d /\ Domain(lines, i) # NoDomain
    /\ \A m \in 1..(i - 1) : Domain(lines, m) # d.domain

\* What was read of the first n lines: one input for each domain among them.
HasInputs(lines, n, got) ==
    /\ got \in Seq({Input(lines[i]) : i \in 1..Len(lines)})
    /\ \A k \in 1..Len(got) : \A m \in 1..(k - 1) : got[m].domain # got[k].domain
    /\ \A k \in 1..Len(got) : \E i \in 1..n : FirstFor(lines, i, got[k])
    /\ \A i \in 1..n : Domain(lines, i) # NoDomain =>
          \E k \in 1..Len(got) : got[k].domain = Domain(lines, i)

LEMMA InputsOneMore ==
    ASSUME NEW lines, Len(lines) \in Nat, NEW n \in Nat, n < Len(lines),
           NEW got, HasInputs(lines, n, got)
    PROVE  HasInputs(lines, n + 1, IF IsNew(got, lines[n + 1])
                                     THEN Append(got, Input(lines[n + 1]))
                                     ELSE got)
<1> DEFINE T == {Input(lines[i]) : i \in 1..Len(lines)}
           x == Input(lines[n + 1])
           D == Domain(lines, n + 1)
           L == Len(got)
<1>1. /\ got \in Seq(T) /\ L \in Nat
      /\ \A k \in 1..L : \A m \in 1..(k - 1) : got[m].domain # got[k].domain
      /\ \A k \in 1..L : \E i \in 1..n : FirstFor(lines, i, got[k])
      /\ \A i \in 1..n : Domain(lines, i) # NoDomain => \E k \in 1..L : got[k].domain = Domain(lines, i)
  <2>1. got \in Seq(T)
    BY DEF HasInputs
  <2> HIDE DEF T
  <2>2. L \in Nat
    BY <2>1
  <2> QED BY <2>1, <2>2 DEF HasInputs
<1>2. IsNew(got, lines[n + 1]) <=> D # NoDomain /\ \A k \in 1..L : got[k].domain # D
  BY DEF IsNew, Domain
<1>3. x \in T /\ x.domain = D
  <2>1. n + 1 \in 1..Len(lines)
    OBVIOUS
  <2> QED BY <2>1 DEF Input, Domain
<1>4. \A i : i \in 1..n => i \in 1..(n + 1)
  OBVIOUS
<1>5. CASE IsNew(got, lines[n + 1])
  <2> DEFINE more == Append(got, x)
  <2> HIDE DEF T, x
  <2>1. /\ more \in Seq(T) /\ Len(more) = L + 1
        /\ \A k \in 1..L : more[k] = got[k]
        /\ more[L + 1] = x
    BY <1>1, <1>3, OneMore
  <2> HIDE DEF more, L, D
  <2>2. \A k \in 1..(L + 1) : k \in 1..L \/ k = L + 1
    BY <1>1
  <2>3. \A k \in 1..L : \A m \in 1..(k - 1) : m \in 1..L
    BY <1>1
  <2>4. ASSUME NEW k \in 1..(L + 1), NEW m \in 1..(k - 1) PROVE more[m].domain # more[k].domain
    <3>1. CASE k \in 1..L
      BY <1>1, <2>1, <2>3, <3>1
    <3>2. CASE k = L + 1
      <4>1. m \in 1..L
        BY <1>1, <3>2
      <4> QED BY <1>2, <1>3, <1>5, <2>1, <3>2, <4>1
    <3> QED BY <2>2, <3>1, <3>2
  <2>5. ASSUME NEW k \in 1..(L + 1) PROVE \E i \in 1..(n + 1) : FirstFor(lines, i, more[k])
    <3>1. CASE k \in 1..L
      BY <1>1, <1>4, <2>1, <3>1
    <3>2. CASE k = L + 1
      <4>1. D # NoDomain /\ \A h \in 1..L : got[h].domain # D
        BY <1>2, <1>5
      <4>2. \A i \in 1..n : Domain(lines, i) # D
        BY <1>1, <4>1
      <4>3. n + 1 \in 1..(n + 1) /\ (n + 1) - 1 = n
        OBVIOUS
      <4>4. FirstFor(lines, n + 1, x)
        BY <1>3, <4>1, <4>2, <4>3 DEF FirstFor, D, x
      <4> QED BY <2>1, <3>2, <4>3, <4>4
    <3> QED BY <2>2, <3>1, <3>2
  <2>6. ASSUME NEW i \in 1..(n + 1), Domain(lines, i) # NoDomain
        PROVE  \E k \in 1..(L + 1) : more[k].domain = Domain(lines, i)
    <3>1. CASE i \in 1..n
      <4>1. PICK k \in 1..L : got[k].domain = Domain(lines, i)
        BY <1>1, <2>6, <3>1
      <4>2. k \in 1..(L + 1)
        BY <1>1
      <4> QED BY <2>1, <4>1, <4>2
    <3>2. CASE i = n + 1
      <4>1. L + 1 \in 1..(L + 1)
        BY <1>1
      <4> QED BY <1>3, <2>1, <3>2, <4>1 DEF D
    <3> QED BY <3>1, <3>2
  <2>7. HasInputs(lines, n + 1, more)
    BY <2>1, <2>4, <2>5, <2>6 DEF HasInputs, T
  <2> QED BY <1>5, <2>7 DEF more, x
<1>6. CASE ~IsNew(got, lines[n + 1])
  <2>1. D # NoDomain => \E k \in 1..L : got[k].domain = D
    BY <1>2, <1>6
  <2>2. \A k \in 1..L : \E i \in 1..(n + 1) : FirstFor(lines, i, got[k])
    BY <1>1, <1>4
  <2>3. \A i \in 1..(n + 1) : Domain(lines, i) # NoDomain => \E k \in 1..L : got[k].domain = Domain(lines, i)
    <3>1. \A i \in 1..(n + 1) : i \in 1..n \/ i = n + 1
      OBVIOUS
    <3> QED BY <1>1, <2>1, <3>1
  <2>4. HasInputs(lines, n + 1, got)
    BY <1>1, <2>2, <2>3 DEF HasInputs
  <2> QED BY <1>6, <2>4
<1> QED BY <1>5, <1>6

LEMMA InputsAre ==
    ASSUME NEW lines, Len(lines) \in Nat
    PROVE  HasInputs(lines, Len(lines), InputsOf(lines))
<1>1. PICK d : /\ InputsOf(lines) = d[Len(lines)]
               /\ d[0] = <<>>
               /\ \A n \in 1..Len(lines) :
                    d[n] = IF IsNew(d[n - 1], lines[n]) THEN Append(d[n - 1], Input(lines[n]))
                           ELSE d[n - 1]
  BY InputsAreRecursive
<1> DEFINE S == {n \in 0..Len(lines) : HasInputs(lines, n, d[n])}
<1>2. 0 \in S
  <2>1. HasInputs(lines, 0, <<>>)
    BY DEF HasInputs
  <2> QED BY <1>1, <2>1
<1>3. ASSUME NEW n \in Nat, n < Len(lines), n \in S PROVE n + 1 \in S
  <2>1. n + 1 \in 1..Len(lines) /\ n + 1 \in 0..Len(lines) /\ (n + 1) - 1 = n
    BY <1>3
  <2>2. HasInputs(lines, n, d[n])
    BY <1>3
  <2>3. HasInputs(lines, n + 1, IF IsNew(d[n], lines[n + 1])
                                  THEN Append(d[n], Input(lines[n + 1])) ELSE d[n])
    BY <1>3, <2>2, InputsOneMore
  <2>4. d[n + 1] = IF IsNew(d[n], lines[n + 1]) THEN Append(d[n], Input(lines[n + 1])) ELSE d[n]
    BY <1>1, <2>1
  <2>5. HasInputs(lines, n + 1, d[n + 1])
    BY <2>3, <2>4
  <2> QED BY <2>1, <2>5
<1>4. Len(lines) \in S
  <2> HIDE DEF S
  <2> QED BY <1>2, <1>3, InductionUpTo
<1> QED BY <1>1, <1>4

\* What export writes of the table.
Exported == {[host |-> d, source |-> NoSource] : d \in table}

NamesInv ==
    /\ host \in Seq(Labels) /\ port \in BOOLEAN
    /\ host # <<>> => step = "discover"
    /\ table \subseteq Domains /\ IsFiniteSet(Exported)
    /\ Len(text) \in Nat
    /\ step \in {"exported", "read back"} => text = SetToSeq(Exported)
    /\ inputs = IF step \in {"read back", "read"} THEN InputsOf(text) ELSE <<>>

LEMMA NamesStep ==
    ASSUME NamesInv, [NamesNext]_namesVars
    PROVE  NamesInv'
<1>1. CASE See
  <2>1. host' \in Seq(Labels) /\ port' \in BOOLEAN
    BY <1>1, NamesAssumption DEF See
  <2>2. UNCHANGED <<table, text, inputs, step>> /\ step = "discover"
    BY <1>1 DEF See
  <2> QED BY <2>1, <2>2 DEF NamesInv, Exported
<1>2. ASSUME NEW d \in Domains \cup {NoDomain}, AddFound(d), step = "discover" PROVE NamesInv'
  <2>1. host' = <<>> /\ port' = FALSE /\ UNCHANGED <<text, inputs, step>>
    BY <1>2 DEF AddFound, NoHost
  <2>2. host' \in Seq(Labels) /\ port' \in BOOLEAN
    <3>1. <<>> \in Seq(Labels)
      BY NoElements
    <3> QED BY <2>1, <3>1
  <2>3. table' \subseteq Domains /\ IsFiniteSet(Exported')
    <3>1. CASE d = NoDomain
      BY <1>2, <3>1 DEF AddFound, NamesInv, Exported
    <3>2. CASE d # NoDomain
      <4>1. table' = table \cup {d} /\ d \in Domains
        BY <1>2, <3>2 DEF AddFound
      <4>2. Exported' = Exported \cup {[host |-> d, source |-> NoSource]}
        BY <4>1 DEF Exported
      <4>3. IsFiniteSet(Exported)
        BY DEF NamesInv
      <4>4. IsFiniteSet(Exported')
        BY <4>2, <4>3, FS_AddElement, Zenon
      <4> QED BY <4>1, <4>4 DEF NamesInv
    <3> QED BY <3>1, <3>2
  <2> QED BY <1>2, <2>1, <2>2, <2>3 DEF NamesInv
<1>3. CASE FindInCrawl \/ FindInCertificate
  <2>1. step = "discover" /\ host \in Seq(Labels) /\ port \in BOOLEAN
    BY <1>3 DEF FindInCrawl, FindInCertificate, NamesInv
  <2>2. /\ domainFromCDXKey(Key(host), port) \in Domains \cup {NoDomain}
        /\ CertificateDomain(host) \in Domains \cup {NoDomain}
    BY <2>1, SourcesAre
  <2> QED BY <1>2, <1>3, <2>1, <2>2 DEF FindInCrawl, FindInCertificate
<1>4. CASE exportDomains
  <2>1. /\ text' = SetToSeq(Exported) /\ step' = "exported" /\ step = "discover"
        /\ UNCHANGED <<host, port, table, inputs>> /\ host = <<>>
    BY <1>4 DEF exportDomains, Exported
  <2>2. Exported' = Exported /\ IsFiniteSet(Exported)
    BY <2>1 DEF Exported, NamesInv
  <2>3. Len(text') \in Nat
    BY <2>1, <2>2, Listing
  <2> QED BY <2>1, <2>2, <2>3 DEF NamesInv
<1>5. CASE WriteText
  <2>1. /\ step' = "written" /\ step = "discover"
        /\ UNCHANGED <<host, port, table, inputs>> /\ host = <<>>
    BY <1>5 DEF WriteText
  <2>2. Len(text') \in Nat
    <3>1. PICK n \in 0..MaxLines : \E lines \in [1..n -> Spellings \X {NoSource, "list"}] :
            text' = [k \in 1..n |-> [host |-> lines[k][1], source |-> lines[k][2]]]
      BY <1>5 DEF WriteText
    <3>2. n \in Nat
      BY <3>1, NamesAssumption
    <3>3. PICK lines \in [1..n -> Spellings \X {NoSource, "list"}] :
            text' = [k \in 1..n |-> [host |-> lines[k][1], source |-> lines[k][2]]]
      BY <3>1
    <3>4. Len(text') = n
      BY <3>2, <3>3
    <3> QED BY <3>2, <3>4
  <2>3. Exported' = Exported
    BY <2>1 DEF Exported
  <2> QED BY <2>1, <2>2, <2>3 DEF NamesInv
<1>6. CASE readDomainInputs
  <2>1. /\ step \in {"exported", "written"} /\ inputs' = InputsOf(text)
        /\ step' = IF step = "exported" THEN "read back" ELSE "read"
        /\ UNCHANGED <<host, port, table, text>>
    BY <1>6 DEF readDomainInputs
  <2>2. Exported' = Exported
    BY <2>1 DEF Exported
  <2>3. host = <<>>
    BY <2>1 DEF NamesInv
  <2> QED BY <2>1, <2>2, <2>3 DEF NamesInv
<1>7. CASE UNCHANGED namesVars
  BY <1>7 DEF namesVars, NamesInv, Exported
<1> QED
  BY <1>1, <1>3, <1>4, <1>5, <1>6, <1>7 DEF NamesNext

LEMMA NamesStart == NamesInit => NamesInv
<1> SUFFICES ASSUME NamesInit PROVE NamesInv
  OBVIOUS
<1>1. /\ host = <<>> /\ port = FALSE /\ table = {} /\ text = <<>> /\ inputs = <<>>
      /\ step = "discover"
  BY DEF NamesInit
<1>2. IsFiniteSet(Exported)
  <2>1. Exported = {}
    BY <1>1 DEF Exported
  <2> QED BY <2>1, FS_EmptySet, Zenon
<1>3. host \in Seq(Labels) /\ Len(text) \in Nat
  BY <1>1
<1> QED BY <1>1, <1>2, <1>3 DEF NamesInv

\* A crawl, a certificate and an input file give the same domain for every host outside
\* www.cz, but for underscores and ports in a crawl key (FromHost, domainFromCDXKey).
THEOREM SourcesAlwaysAgree == NamesSpec => []SourcesAgree
<1>1. NamesInv => SourcesAgree
  BY Agreement DEF NamesInv
<1> QED
  BY <1>1, NamesStart, NamesStep, PTL DEF NamesSpec

\* A table that was exported is read back whole but for www.cz, whatever names it is of
\* (exportDomains, readDomainInputs).
THEOREM TableIsReadBack == NamesSpec => []ReadBack
<1>1. NamesInv => ReadBack
  <2> SUFFICES ASSUME NamesInv, step = "read back"
               PROVE  {inputs[k].domain : k \in 1..Len(inputs)} = table \ {WWW}
    BY DEF ReadBack, WWW
  <2>1. /\ table \subseteq Domains /\ IsFiniteSet(Exported) /\ Len(text) \in Nat
        /\ text = SetToSeq(Exported) /\ inputs = InputsOf(text)
    BY DEF NamesInv
  <2>2. ToSet(text) = Exported /\ DOMAIN text = 1..Len(text)
    BY <2>1, Listing
  <2>3. ASSUME NEW i \in 1..Len(text)
        PROVE  /\ text[i].host \in table
               /\ Domain(text, i) = IF text[i].host = WWW THEN NoDomain ELSE text[i].host
    <3>1. text[i] \in Exported
      BY <2>2 DEF ToSet
    <3>2. text[i].host \in table
      <4>1. PICK d \in table : text[i] = [host |-> d, source |-> NoSource]
        BY <3>1 DEF Exported
      <4>2. [host |-> d, source |-> NoSource].host = d
        OBVIOUS
      <4> QED BY <4>1, <4>2, Zenon
    <3> QED BY <2>1, <3>2, FromHostOfDomain DEF Domain
  <2>4. ASSUME NEW d \in table PROVE \E i \in 1..Len(text) : text[i].host = d
    <3>1. [host |-> d, source |-> NoSource] \in ToSet(text)
      BY <2>2 DEF Exported
    <3>2. PICK i \in 1..Len(text) : text[i] = [host |-> d, source |-> NoSource]
      BY <2>2, <3>1 DEF ToSet
    <3>3. text[i].host = d
      <4>1. [host |-> d, source |-> NoSource].host = d
        OBVIOUS
      <4> QED BY <3>2, <4>1, Zenon
    <3> QED BY <3>3
  <2>5. \A d \in Domains : d # NoDomain
    <3> SUFFICES ASSUME NEW d \in Domains PROVE d # NoDomain
      OBVIOUS
    <3>1. PICK a \in Labels : d = <<a, "cz">>
      BY DEF Domains
    <3>2. d \in Seq(Labels)
      BY <3>1, TwoLabels
    <3> QED BY <3>2, NamesAssumption
  <2>6. /\ \A k \in 1..Len(inputs) : \E i \in 1..Len(text) : FirstFor(text, i, inputs[k])
        /\ \A i \in 1..Len(text) : Domain(text, i) # NoDomain =>
              \E k \in 1..Len(inputs) : inputs[k].domain = Domain(text, i)
    BY <2>1, InputsAre DEF HasInputs
  <2>7. ASSUME NEW k \in 1..Len(inputs) PROVE inputs[k].domain \in table \ {WWW}
    <3>1. PICK i \in 1..Len(text) : FirstFor(text, i, inputs[k])
      BY <2>6
    <3>2. inputs[k].domain = Domain(text, i) /\ Domain(text, i) # NoDomain
      <4>1. Input(text[i]).domain = Domain(text, i)
        BY DEF Input, Domain
      <4> QED BY <3>1, <4>1 DEF FirstFor
    <3> QED BY <2>3, <3>2
  <2>8. ASSUME NEW d \in table \ {WWW} PROVE \E k \in 1..Len(inputs) : inputs[k].domain = d
    <3>1. PICK i \in 1..Len(text) : text[i].host = d
      BY <2>4
    <3>2. Domain(text, i) = d /\ d # NoDomain
      BY <2>1, <2>3, <2>5, <3>1
    <3> QED BY <2>6, <3>2
  <2> QED BY <2>7, <2>8
<1> QED
  BY <1>1, NamesStart, NamesStep, PTL DEF NamesSpec

\* An input file gives each of its domains once, from the first line with it, however
\* the lines spell it (readDomainInputs).
THEOREM InputsAreDistinct == NamesSpec => []InputsDistinct
<1>1. NamesInv => InputsDistinct
  <2> SUFFICES ASSUME NamesInv, NEW k \in 1..Len(inputs)
               PROVE  /\ \A m \in 1..(k - 1) : inputs[m].domain # inputs[k].domain
                      /\ \E n \in 1..Len(text) :
                           /\ Input(text[n]) = inputs[k]
                           /\ \A m \in 1..(n - 1) : FromHost(text[m].host) # inputs[k].domain
    BY DEF InputsDistinct
  <2>1. inputs = InputsOf(text) /\ Len(text) \in Nat
    <3>1. inputs # <<>>
      OBVIOUS
    <3> QED BY <3>1 DEF NamesInv
  <2>2. HasInputs(text, Len(text), inputs)
    BY <2>1, InputsAre
  <2>3. PICK i \in 1..Len(text) : FirstFor(text, i, inputs[k])
    BY <2>2 DEF HasInputs
  <2> QED BY <2>2, <2>3 DEF HasInputs, FirstFor, Domain
<1> QED
  BY <1>1, NamesStart, NamesStep, PTL DEF NamesSpec
=============================================================================
