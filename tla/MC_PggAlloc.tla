----------------------------- MODULE MC_PggAlloc -----------------------------
(* Instantiation of PggAlloc for TLC: a tree with Fanout 3 and a top header  *)
(* of level 6 (the code: 8 and 9).  Three header levels (6, 5, 4) make the   *)
(* capability updates cross an intermediate level; every header keeps two   *)
(* children (indices 1, 2) for files besides its reserved child 0.           *)
EXTENDS PggAlloc

MCFanout == 3
MCTopLevel == 6
\* CTFS_HACK (ctfs_config.h) clamps every inode_resize to level 3 and up.
MCBigLevels == {3, 4, 5}
MCNoSmallLevels == {}
\* Level 0 only: served from the level-0 package pgg_mkfs builds at child 0
\* of the first level-4 header, which MaxLive never lets fill.
MCLevel0 == {0}
\* The sub-PMD levels of the pgg_allocate interface (spec section 4.2).
MCSmallLevels == {0, 1, 2}
=============================================================================
