\* Everything may go wrong, or all but a cut range, or only what is transient; cooldowns are limited or not.
SPECIFICATION FairSpec
CONSTANTS
    Size = 3
    FailThreshold = 2
    CooldownLimits = {0, 2}
    Troubles = {{"busy", "refuse", "drop", "reset", "silence", "whole", "cut", "lateEOF", "disk"},
                {"busy", "refuse", "drop", "reset", "silence", "whole", "lateEOF", "disk"},
                {"busy", "drop", "silence", "whole", "cut", "lateEOF"}}
INVARIANTS
    FileIsPrefix
    DeliveredWhole
PROPERTIES
    ProgressKept
    TwoWaysToGiveUp
    Ends
