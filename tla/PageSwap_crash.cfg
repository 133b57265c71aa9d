\* One call of every request shape and one power failure at any point of
\* it, with any set of dirty cache lines evicted: after the restart the
\* table must map the pre- or the post-swap arrangement (spec.md, section
\* 1).  get_dax_runtime does not recover, so a crash in step 1 or 2 leaves
\* a mixture.
CONSTANTS
    E = 4
    NPud = 2
    Line = 2
    UnalignedMax = 2
    Requests <- MCRequests
    MaxCalls = 1
    MaxCrashes = 1
    FaultSlots = {}
    MaxFaults = 0
SPECIFICATION SpecCrash
INVARIANT CrashAtomic
CHECK_DEADLOCK FALSE
