--------------------------- MODULE MCCrawlSelect ---------------------------
(***************************************************************************)
(* Instances of CrawlSelect for TLC: every way to lay a sorted list of up  *)
(* to six keys out in blocks of two and these in files f1, f2 and f3, and  *)
(* a number of crawl lists.                                                *)
(***************************************************************************)
EXTENDS CrawlSelect, FiniteSets

FileNames == <<"f1", "f2", "f3">>

\* n keys, the first below the range, the last above it.
SortedKeys(below, cz, above) ==
    [i \in 1..(below + cz + above) |->
        IF i <= below THEN "below" ELSE IF i <= below + cz THEN "cz" ELSE "above"]

\* The blocks of these keys; a file ends after each block in ends.
Layout(keys, ends) ==
    [b \in 1..((Len(keys) + 1) \div 2) |->
        [file |-> FileNames[1 + Cardinality({e \in ends : e < b})],
         offset |-> b,
         keys |-> SubSeq(keys, 2 * b - 1, IF 2 * b < Len(keys) THEN 2 * b ELSE Len(keys))]]

Layouts ==
    {Layout(SortedKeys(n[1], n[2], n[3]), ends) :
        n \in {m \in (0..4) \X (0..5) \X (0..4) : m[1] + m[2] + m[3] \in {5, 6}},
        ends \in SUBSET {1, 2}}

\* A line of cluster.idx can be there twice.
Repeated == <<[file |-> "f1", offset |-> 1, keys |-> <<"below", "cz">>],
              [file |-> "f2", offset |-> 1, keys |-> <<"cz", "cz">>],
              [file |-> "f2", offset |-> 1, keys |-> <<"cz", "cz">>],
              [file |-> "f2", offset |-> 2, keys |-> <<"cz", "above">>]>>

OneCrawl == <<<<26, 25>>>>

\* Any layout, with and without cluster.idx, in one crawl.
FileWorlds ==
    {[index |-> index, mapped |-> mapped, manifest |-> FileNames, full |-> FALSE, done |-> done,
      collinfo |-> OneCrawl, html |-> OneCrawl, wanted |-> None, count |-> 0] :
        index \in Layouts \cup {Repeated}, mapped \in BOOLEAN,
        done \in {{}, {"f1"}, {"f2"}}}

\* One layout, and any list of crawls or explicit crawl.
Plain == Layout(SortedKeys(1, 3, 1), {1, 2})
Lists == {<<>>, <<Junk>>, <<<<25, 51>>, <<26, 25>>>>,
          <<<<26, 4>>, Junk, <<25, 51>>, <<26, 25>>, <<26, 4>>>>, <<<<12, 0>>, <<12, 0>>>>}
ListWorlds ==
    {[index |-> Plain, mapped |-> TRUE, manifest |-> manifest, full |-> full, done |-> {"f2"},
      collinfo |-> collinfo, html |-> html, wanted |-> wanted, count |-> count] :
        manifest \in {FileNames, <<"f1">>, <<>>}, full \in BOOLEAN,
        collinfo \in Lists, html \in {l \in Lists : \A i \in 1..Len(l) : l[i] # Junk},
        wanted \in {None, Junk, <<26, 25>>}, count \in {0, 2, 9}}

MCWorlds == FileWorlds \cup ListWorlds
=============================================================================
