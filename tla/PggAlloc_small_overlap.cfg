CONSTANTS
    Fanout <- MCFanout
    TopLevel <- MCTopLevel
    BigLevels <- MCBigLevels
    SmallLevels <- MCSmallLevels
    MaxLive = 6
INIT Init
NEXT Next
INVARIANT NoOverlap
