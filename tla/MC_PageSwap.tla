----------------------------- MODULE MC_PageSwap -----------------------------
(***************************************************************************)
(* A region of two PUDs of four PMDs of four pages (512 scaled to 4), two   *)
(* entries per cache line, and the requests ctFS issues: an atomic write   *)
(* (ctfs_pwrite_atomic) swaps a window of a file's page group with the     *)
(* same window of a staging group of the same level, and a level upgrade   *)
(* (inode_resize_lvl) swaps a whole old group into the start of the new    *)
(* one.  Groups are aligned to their size, as the allocator places them.   *)
(***************************************************************************)
EXTENDS PageSwap

\* The window [o, o + n) of group b1 against the same window of group b2,
\* both of size s.
Window(s, b1, b2, o, n) ==
    [first |-> b1 * s + o, second |-> b2 * s + o, npgs |-> n]

Windows(s, b1, b2) ==
    UNION {{Window(s, b1, b2, o, n) : n \in 1 .. s - o} : o \in 0 .. s - 1}

\* Atomic writes to a PUD-sized group (staging in the other PUD).
MCPudWrites == Windows(16, 0, 1)

\* Atomic writes to PMD-sized groups, in the same and in different PUDs,
\* and to half-PMD groups, aligned (2 with 11) and not (1 with 2).
MCSmallWrites ==
    Windows(4, 1, 6) \cup Windows(4, 3, 2) \cup Windows(2, 1, 11)
      \cup Windows(2, 1, 2)

\* Level upgrades: a PMD group into a PUD group, a half-PMD group into a
\* PMD group (unaligned).
MCUpgrades ==
    {[first |-> 16, second |-> 4, npgs |-> 4],
     [first |-> 8, second |-> 2, npgs |-> 2]}

\* An unaligned request longer than the limit, which dax_pswap rejects.
MCRejected == {[first |-> 1, second |-> 18, npgs |-> 3]}

MCRequests == MCPudWrites \cup MCSmallWrites \cup MCUpgrades \cup MCRejected

\* A smaller mix for runs of several calls.
MCMixRequests ==
    {Window(16, 0, 1, 0, 16), Window(16, 0, 1, 1, 14), Window(16, 0, 1, 5, 8),
     Window(16, 1, 0, 3, 13), Window(16, 0, 1, 2, 1)}
      \cup Windows(4, 1, 6) \cup Windows(2, 1, 2) \cup MCUpgrades \cup MCRejected

=============================================================================
