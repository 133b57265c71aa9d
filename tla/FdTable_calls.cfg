\* Two threads, three calls each, two ctFS slots and two host descriptors;
\* the state where every thread has made its calls is final.
CONSTANTS
    Threads = {t1, t2}
    NoOne = NoOne
    a = a
    b = b
    Names = {a, b}
    Inodes <- MCInodes
    MaxFd = 2
    Offset = 2
    Calls <- MCCalls
    MaxCalls = 3
SPECIFICATION Spec
INVARIANTS TypeOK HandleExclusive HandleRouted NoLeakedSlot
PROPERTIES OpenReturns
CHECK_DEADLOCK FALSE
