---------------------------- MODULE MC_PathLock ----------------------------
(***************************************************************************)
(* A tree of six positions for PathLock: the root 1 with directory a (2)   *)
(* and file g (4); a holds file f (3) and directory d (5); d holds file h  *)
(* (6).  Two rt bits: the root, a and g share bit 0, f, d and h bit 1, so  *)
(* every parent/child pair either shares a bit or goes from bit 0 to bit   *)
(* 1, and the SAME-flag paths are all taken.                               *)
(***************************************************************************)
EXTENDS PathLock, TLC

MCParent == (2 :> 1) @@ (3 :> 2) @@ (4 :> 1) @@ (5 :> 2) @@ (6 :> 5)
MCDirs == {1, 2, 5}
MCSlotOf == (1 :> 0) @@ (2 :> 0) @@ (3 :> 1) @@ (4 :> 0) @@ (5 :> 1) @@ (6 :> 1)

Call(kd, p, q, c) == [kind |-> kd, path |-> p, to |-> q, create |-> c]

\* open of /a/f, open(O_CREAT) of /a/d/h, mkdir /a/d, unlink /a/f,
\* rmdir /a/d, rename /g -> /a/f and rename /a/f -> /a/d/h.
MCJobs ==
    { Call("open", 3, 3, FALSE), Call("open", 6, 6, TRUE),
      Call("mkdir", 5, 5, FALSE), Call("unlink", 3, 3, FALSE),
      Call("rmdir", 5, 5, FALSE), Call("rename", 4, 3, FALSE),
      Call("rename", 3, 6, FALSE) }
MCLinked0 == {2, 3, 4}

\* A lookup through /a/d racing rmdir /a/d, d present at the start.
MCRaceJobs == { Call("open", 6, 6, FALSE), Call("rmdir", 5, 5, FALSE) }
MCRaceLinked0 == {2, 3, 4, 5}
=============================================================================
