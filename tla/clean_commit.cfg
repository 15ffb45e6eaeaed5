\* A run that lost a commit and still ends clean, short of its limit.
SPECIFICATION Spec
CONSTANTS
    a = a
    b = b
    c = c
    d = d
    none = none
    Domain <- MCDomain
    File <- ClusterFiles
    BatchSize = 2
    Sources <- JustCrawls
    Crawls <- OneClusterCrawl
    Lines <- MCLines
    CrtNames <- MCNames
    NoDomain = none
    Limits = {3}
    Faults = {"commit"}
INVARIANT
    CleanRunIsDone
