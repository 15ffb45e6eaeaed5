\* crt.sh, a cluster and a sequential crawl, interrupted, damaged and restarted; commits succeed.
SPECIFICATION FairSpec
CONSTANTS
    a = a
    b = b
    c = c
    d = d
    none = none
    Domain <- MCDomain
    File <- BothFiles
    BatchSize = 2
    Sources <- BothSources
    Crawls <- BothCrawls
    Lines <- MCLines
    CrtNames <- MCNames
    NoDomain = none
    Limits = {0, 2, 3}
    Faults = {"net", "corrupt", "remove", "store", "crash"}
INVARIANTS
    TypeOK
    TotalIsExact
    CleanRunIsDone
PROPERTIES
    LimitRespected
    CacheKept
    FailureRecorded
    RunEnds
