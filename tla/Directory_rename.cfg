\* Every call, rename included, with the root and two more inodes.
CONSTANTS
    Names <- MCNames
    LongNames <- MCNoLongNames
    MaxIno = 3
    MaxSlot = 5
    MaxDepth = 2
    Ops <- MCAll
SPECIFICATION Spec
INVARIANTS ReachAllocated
VIEW Observed
\* The inode bound can stop a rename between its phases (the second needs
\* a fresh inode for a missing directory).
CHECK_DEADLOCK FALSE
