---------------------------- MODULE MCDiscovery ----------------------------
(***************************************************************************)
(* Instances of Discovery for TLC.  The domains are a, b, c and d.  The    *)
(* cluster crawl has two files that share the domain b, so that a file can *)
(* complete with rows another one inserted; its second file holds a key    *)
(* with no domain and goes past the cz range.  The sequential crawl has a  *)
(* file before, two files across and a file after the cz range.            *)
(***************************************************************************)
EXTENDS Discovery

CONSTANTS a, b, c, d, none

MCDomain == {a, b, c, d}

L(class) == [class |-> class, domain |-> none]
CZ(name) == [class |-> "cz", domain |-> name]

MCLines ==
    [f \in File |->
        CASE f = "c1f1" -> <<L("below"), CZ(a), CZ(b)>>
          [] f = "c1f2" -> <<CZ(b), CZ(none), CZ(c), L("above")>>
          [] f = "s1"   -> <<L("below")>>
          [] f = "s2"   -> <<L("below"), CZ(a), CZ(b)>>
          [] f = "s3"   -> <<CZ(none), CZ(d), L("above")>>
          [] f = "s4"   -> <<L("above")>>]

ClusterFiles == {"c1f1", "c1f2"}
ClusterCrawl == [mode |-> "cluster", files |-> <<"c1f1", "c1f2">>]
OneClusterCrawl == <<ClusterCrawl>>

SequentialFiles == {"s1", "s2", "s3", "s4"}
SequentialCrawl == [mode |-> "sequential", files |-> <<"s1", "s2", "s3", "s4">>]

BothCrawls == <<ClusterCrawl, SequentialCrawl>>
BothFiles == ClusterFiles \cup SequentialFiles

TwoCrawls == <<[mode |-> "cluster", files |-> <<"c1f2">>],
               [mode |-> "sequential", files |-> <<"s3">>]>>
TwoFiles == {"c1f2", "s3"}

JustCrawls == <<"commoncrawl">>
BothSources == <<"crtsh", "commoncrawl">>
Misspelt == <<"typo", "commoncrawl">>
MCNames == <<none, b, a, c>>
=============================================================================
