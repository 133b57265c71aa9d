\* Three calls of the mix (pwrite, write, pread, read, lseek, ftruncate,
\* fallocate) on a descriptor of each access mode, from an empty file or
\* from a six-byte file in a nearly full arena.  No call grows the file
\* past the 16 bytes of level 4.
CONSTANTS
    P = 4
    GroupPages <- MCGroupPages
    NPages = 16
    InitStates <- MCInitStates
    Writes <- MCWrites
    Reads <- MCReads
    Truncs <- MCTruncs
    Fallocs <- MCFallocs
    FdFlags = {"rdonly", "wronly", "rdwr"}
    Counts = {1, 3}
    Seeks <- MCSeeks
    OffBits = 7
    MaxCalls = 3
SPECIFICATION Spec
INVARIANTS TypeOK WriteResult OthersIntact ReadResult
CHECK_DEADLOCK FALSE
