\* Two calls over a mix of the request shapes ctFS issues (atomic writes
\* of a PUD, PMD and half-PMD group, level upgrades, a rejected unaligned
\* request), page faults on five PMD slots before, between and after
\* them, no crash: every completed call exchanged exactly the two ranges,
\* and an aligned call keeps the process page table in step.
CONSTANTS
    E = 4
    NPud = 2
    Line = 2
    UnalignedMax = 2
    Requests <- MCMixRequests
    MaxCalls = 2
    MaxCrashes = 0
    FaultSlots = {0, 1, 4, 5, 6}
    MaxFaults = 3
SPECIFICATION Spec
INVARIANTS TypeOK AlignedSwapCoherent
PROPERTIES Refines
CHECK_DEADLOCK FALSE
