\* Commits fail, in the middle of a file and at its end, the machine loses power; one source is unknown.
SPECIFICATION Spec
CONSTANTS
    a = a
    b = b
    c = c
    d = d
    none = none
    Domain <- MCDomain
    File <- TwoFiles
    BatchSize = 2
    Sources <- Misspelt
    Crawls <- TwoCrawls
    Lines <- MCLines
    CrtNames <- MCNames
    NoDomain = none
    Limits = {0, 2}
    Faults = {"net", "corrupt", "remove", "store", "commit", "sink", "crash", "power"}
INVARIANTS
    CheckpointSound
    LossWindow
    ScanKept
    DiskCheckpointSound
PROPERTIES
    KeepsPromise
