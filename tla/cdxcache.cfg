\* Two processes and one file, on Unix and on Windows: nothing goes wrong but their overlap, or everything.
SPECIFICATION FairSpec
CONSTANTS
    Proc = {p1, p2}
    Platforms = {"unix", "windows"}
    Troubles = {{}, {"devices"}, {"net", "short", "devices", "disk", "keep", "store", "crash"}}

    
PROPERTIES
    KeepsShared
    UseEnds
\* The processes end.
CHECK_DEADLOCK FALSE
