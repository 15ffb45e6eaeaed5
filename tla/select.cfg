\* Every layout of the cz range over blocks and files, every state of the cached map.
SPECIFICATION Spec
CONSTANTS
    Worlds <- MCWorlds
    Troubles = {{}, {"net", "short", "keep"}}
    None = None
    Junk = Junk
    TooLong = TooLong
INVARIANTS
    ChoosesCZFiles
    FailsOnlyIfStuck
    ChoosesNewest
    StopsPastRange
PROPERTIES
    ReadsCZFiles
\* The run ends.
CHECK_DEADLOCK FALSE
