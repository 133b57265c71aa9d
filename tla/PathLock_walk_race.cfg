\* Two threads: open("/a/d/h") walking through d while rmdir("/a/d")
\* removes it (d starts present and empty).
CONSTANTS
    Threads = {t1, t2}
    Root = 1
    Parent <- MCParent
    Dirs <- MCDirs
    SlotOf <- MCSlotOf
    JobSet <- MCRaceJobs
    Linked0 <- MCRaceLinked0
SPECIFICATION Spec
INVARIANT DirAccessGuarded
CHECK_DEADLOCK FALSE
