--------------------------- MODULE MC_AtomicWrite ---------------------------
(***************************************************************************)
(* Pages of four bytes, levels 3 and 4 of two and four pages (CTFS_HACK     *)
(* makes PGG_LVL3 the smallest; the factor 8 between levels is scaled to   *)
(* 2), and an arena of four level-4 groups, the first reserved.  The file  *)
(* is empty, or has six bytes in a level-3 group while other files hold  *)
(* all of the arena but one level-4 group, so that after its upgrade the   *)
(* staging allocation fails.  The writes are appends, overwrites at and    *)
(* off page boundaries, short ones inside a page, and ones that grow the   *)
(* file across the level limit.                                            *)
(***************************************************************************)
EXTENDS AtomicWrite, TLC

MCGroupPages == 3 :> 2 @@ 4 :> 4

MCInitStates ==
    {[ino |-> [size |-> 0, block |-> 0, level |-> NONE], occ |-> {}],
     [ino |-> [size |-> 6, block |-> 8, level |-> 3], occ |-> 10 .. 15]}

MCWrites ==
    {[off |-> 0, cnt |-> 3], [off |-> 1, cnt |-> 2], [off |-> 2, cnt |-> 4],
     [off |-> 3, cnt |-> 6], [off |-> 4, cnt |-> 4], [off |-> 6, cnt |-> 7],
     [off |-> 9, cnt |-> 1]}

MCReads == {[off |-> 0, cnt |-> 12], [off |-> 5, cnt |-> 2]}

MCTruncs == {2, 10}

\* The descriptor's offset moves forward only, so that it never wraps.
MCSeeks ==
    {[whence |-> "set", off |-> 4], [whence |-> "cur", off |-> 2],
     [whence |-> "end", off |-> 0], [whence |-> "bad", off |-> 0]}

MCFallocs ==
    {[off |-> 0, len |-> 12, mode |-> "keep"], [off |-> 4, len |-> 5, mode |-> "none"],
     [off |-> 0, len |-> 1, mode |-> "punch"]}

=============================================================================
