SPECIFICATION FairSpec
CONSTANTS
    MaxNest = 1
    MaxDeaths = 1
    MaxLost = 1
    MaxForeign = 0
    MaxExecs = 2
    Jobs <- MCMixed
PROPERTY
    Responds
CHECK_DEADLOCK FALSE
