\* create, mkdir, unlink and rmdir on paths of up to two components.
CONSTANTS
    Names <- MCNames
    LongNames <- MCNoLongNames
    MaxIno = 4
    MaxSlot = 5
    MaxDepth = 2
    Ops <- MCNoRename
SPECIFICATION Spec
INVARIANTS TypeOK NdirentExact
PROPERTIES EntryNotLost
VIEW Observed
