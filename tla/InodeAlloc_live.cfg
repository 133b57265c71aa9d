\* Lifetime allocations stay below the size of the bitmap, so the lazy
\* memset stays in bounds; the question is whether it ever clears a bit
\* that a live inode holds.  The model stops only when MaxUsed is reached.
CONSTANTS
    PageBits <- MCPageBits
    WordBits <- MCWordBits
    MaxInode <- MCMaxInode
    MaxUsed = 10
INIT Init
NEXT Next
CHECK_DEADLOCK FALSE
INVARIANTS
    TypeOK
    InodesExclusive
