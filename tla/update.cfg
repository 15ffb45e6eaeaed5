\* Three updates at once, on Unix and on Windows: nothing but their overlap goes wrong, or everything.
SPECIFICATION Spec
CONSTANTS
    p1 = p1
    p2 = p2
    p3 = p3
    Pid <- MCPid
    Installed = {0, 1}
    Newest = 2
    Parts <- MCParts
    Sized = TRUE
    Digest = TRUE
    Platforms = {"unix", "windows"}
    Troubles = {{"withdraw"}, {"net", "asset", "short", "corrupt", "withdraw", "crash", "work"}}
SYMMETRY Symmetry
INVARIANTS
    ExecutableWhole
    SomebodyInstalls
PROPERTIES
    NoTempFileLeft
    OnlyOverlapDowngrades
\* The processes end, and releases may stop.
CHECK_DEADLOCK FALSE
