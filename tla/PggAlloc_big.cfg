\* Large allocations of every level mixed with level-0 sub-PMD ones.
CONSTANTS
    Fanout <- MCFanout
    TopLevel <- MCTopLevel
    BigLevels <- MCBigLevels
    SmallLevels <- MCLevel0
    MaxLive = 5
INIT Init
NEXT Next
INVARIANTS
    TypeOK
    NoOverlap
    CapExact
    FailsOnlyWhenFull
