\* Histories without faults, with files that cannot be opened and a failing database,
\* with a failing file, and with kills too.
SPECIFICATION Spec
CONSTANTS
    a = a
    b = b
    c = c
    Domain <- MCDomain
    File <- MCFile
    BatchSize = 2
    FaultSets = {{}, {"open", "store", "commit"}, {"store", "disk"}, {"open", "store", "disk", "crash"}}
INVARIANTS
    OnlyInsertedUnlessLost
    PrintedOnce
    NoneMissing
PROPERTY
    RowsKept
