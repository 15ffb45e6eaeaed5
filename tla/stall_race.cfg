\* The stall timer fires as a Read returns data.
SPECIFICATION Spec
CONSTANTS
    Size = 2
    FailThreshold = 3
    CooldownLimits = {0}
    Troubles = {{"silence"}}
INVARIANT
    NeverGivesUp
