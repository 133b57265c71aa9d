\* Three threads, each making one of seven calls on a tree whose lock bits
\* are shared only along parent/child pairs.  Every thread returns (the
\* state where all have is final, hence no deadlock check).
CONSTANTS
    Threads = {t1, t2, t3}
    Root = 1
    Parent <- MCParent
    Dirs <- MCDirs
    SlotOf <- MCSlotOf
    JobSet <- MCJobs
    Linked0 <- MCLinked0
SPECIFICATION Spec
INVARIANTS TypeOK LocksBalanced
PROPERTIES Terminates
CHECK_DEADLOCK FALSE
