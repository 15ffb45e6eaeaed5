\* Three domains with shared, nameless and unlinked contacts, without trouble and with all of it.
SPECIFICATION Spec
CONSTANTS
    Worlds <- MCWorlds
    Troubles = {{}, {"net", "source", "csv", "jsonl", "crash"}}
    Delay = 2
    BufferSize = 3
    NoHandle = NoHandle
    NoLink = NoLink
INVARIANTS
    WritersAgree
    ContactsOwn
    AskedOnce
PROPERTIES
    RequestsSpaced
\* The command ends.
CHECK_DEADLOCK FALSE
