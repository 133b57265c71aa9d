------------------------------ MODULE Directory ------------------------------
(***************************************************************************)
(* Directories of ctFS: the dirent arrays kept in a directory inode's data *)
(* block, the inode fields i_size and i_ndirent, and the calls that change *)
(* them: inode_path2inode and inode_create (src/ctfs_inode.c) as used by   *)
(* ctfs_open with O_CREAT, ctfs_mkdir, ctfs_unlink, ctfs_rmdir and the two *)
(* phases of ctfs_rename (src/ctfs_func.c, src/ctfs_func2.c).              *)
(*                                                                         *)
(* A slot is [ino, name]; it is free when ino = 0.  size is i_size counted *)
(* in dirents: lookups scan slots 0 .. size-1 only.  Each call holds the   *)
(* topology locks of the directories it changes for the whole of its       *)
(* change, so each is one step (the locks are the subject of PathLock);    *)
(* the two phases of rename drop every lock in between and are two steps,  *)
(* with at most one rename between its phases.  Paths are absolute and    *)
(* start at the root, inode 1.  Inode numbers come from inode_alloc, which *)
(* with fewer than 64 inodes returns the lowest clear bit (one word of     *)
(* find_free_bit); the bitmap itself is the subject of InodeAlloc.  Every  *)
(* inode has i_nlink = 1 (ctfs_link never links), regular files have no    *)
(* data block (i_level = PGG_LVL_NONE) and directories have one.          *)
(***************************************************************************)
EXTENDS Integers, Sequences, FiniteSets, FiniteSetsExt

CONSTANTS
    Names,      \* path components of at most CT_MAX_NAME bytes
    LongNames,  \* path components longer than CT_MAX_NAME
    MaxIno,     \* inode numbers 1..MaxIno (0 is taken by ctfs_mkfs)
    MaxSlot,    \* bound on dirents per directory
    MaxDepth,   \* bound on the components of a path
    Ops         \* the calls clients make

VARIABLES
    ent,        \* ent[d][s]: dirent s of directory inode d
    size,       \* i_size / sizeof(ct_dirent_t)
    nd,         \* i_ndirent
    isdir,      \* S_IFDIR in i_mode
    alloc,      \* inodes whose bitmap bit is set
    pending     \* the inode a rename has unlinked and not yet installed

vars == <<ent, size, nd, isdir, alloc, pending>>

Inodes == 1..MaxIno
Slots == 0..(MaxSlot - 1)
Labels == Names \cup LongNames \cup {".", ".."}
PathsOver(N) == UNION {[1..k -> N] : k \in 1..MaxDepth}
Paths == PathsOver(Names \cup LongNames)
None == [ino |-> 0, to |-> <<>>]

\* A slot never written since the block was allocated (its old content is
\* never read: see the README).
Blank == [ino |-> 0, name |-> "."]

\* i_ndirent is a size_t: a decrement below 0 wraps to a value larger than
\* any slot index, which is all the comparisons with it can tell apart.
USize(n) == IF n < 0 THEN n + 2^30 ELSE n

Cur == [ent |-> ent, size |-> size, nd |-> nd, isdir |-> isdir, alloc |-> alloc]

Set(S) ==
    /\ ent' = S.ent
    /\ size' = S.size
    /\ nd' = S.nd
    /\ isdir' = S.isdir
    /\ alloc' = S.alloc

\* The dirent scan of inode_path2inode for one component: the first slot
\* below size whose d_ino is set and whose name matches, or -1.
Lookup(S, d, n) ==
    LET m == {s \in 0..(S.size[d] - 1) : S.ent[d][s].ino # 0 /\ S.ent[d][s].name = n}
    IN IF m = {} THEN -1 ELSE Min(m)

\* The walk of inode_path2inode from directory d over the components p:
\* ENOTDIR at a component that is not a directory, "missing" at the first
\* component with no entry, "found" with the entry of the last one.
RECURSIVE Walk(_, _, _)
Walk(S, d, p) ==
    IF ~S.isdir[d] THEN [r |-> "ENOTDIR", dir |-> d, rest |-> p, slot |-> -1]
    ELSE LET s == Lookup(S, d, Head(p))
         IN IF s = -1 THEN [r |-> "missing", dir |-> d, rest |-> p, slot |-> -1]
            ELSE IF Len(p) = 1 THEN [r |-> "found", dir |-> d, rest |-> p, slot |-> s]
            ELSE Walk(S, S.ent[d][s].ino, Tail(p))

\* The lowest clear bit, which is what inode_alloc returns here.
FreshIno(S) == Min(Inodes \ S.alloc)

\* memcpy of default_inode and the new i_number.
DefaultInode(S, c) ==
    [S EXCEPT !.alloc = @ \cup {c}, !.isdir[c] = FALSE, !.size[c] = 0, !.nd[c] = 0]

\* A block of dirents none of which has been written.
BlankBlock == [s \in Slots |-> Blank]

\* inode_dir_fill: a block of two dirents, "." and "..", and S_IFDIR.
DirFill(S, c, parent) ==
    [S EXCEPT !.isdir[c] = TRUE, !.size[c] = 2, !.nd[c] = 2,
              !.ent[c] = [BlankBlock EXCEPT ![0] = [ino |-> c, name |-> "."],
                                            ![1] = [ino |-> parent, name |-> ".."]]]

\* Mutant: the occupancy test is off by one, so the last slot below i_size
\* counts as past the end.
CreateSlot_offByOne(S, d) ==
    Min({i \in 2..S.size[d] : i + 1 >= S.size[d] \/ S.ent[d][i].ino = 0})

\* The slot scan of inode_create: from slot 2, the first slot past the end
\* of i_size (which gets resized to hold it) or with d_ino = 0.
CreateSlot(S, d) ==
    Min({i \in 2..S.size[d] : i + 1 > S.size[d] \/ S.ent[d][i].ino = 0})

\* The install branch (path2inode when the last component is missing, and
\* inode_create with CT_INODE_FRAME_INSTALL): from slot 2, the first slot
\* at or past i_ndirent (i_ndirent++ and a resize to `need` dirents when it
\* exceeds i_size) or with d_ino = 0 (reused as is).  path2inode resizes to
\* i dirents, inode_create to i + 1.
Install(S, d, n, ino, viaCreate) ==
    LET cands == {i \in 2..(MaxSlot - 1) : i >= USize(S.nd[d]) \/ S.ent[d][i].ino = 0}
        i == Min(cands)
        need == IF viaCreate THEN i + 1 ELSE i
        S1 == IF i >= USize(S.nd[d])
              THEN [S EXCEPT !.size[d] = IF need > @ THEN need ELSE @, !.nd[d] = @ + 1]
              ELSE S
    IN IF cands = {} THEN [s |-> S, r |-> "bound"]
       ELSE [s |-> [S1 EXCEPT !.ent[d][i] = [ino |-> ino, name |-> n]], r |-> "ok"]

\* Mutant: i_ndirent counts appended slots only, as the install branch does.
Grow_noCount(S, d, i) ==
    [S EXCEPT !.size[d] = IF i + 1 > @ THEN i + 1 ELSE @,
              !.nd[d] = IF i + 1 > S.size[d] THEN @ + 1 ELSE @]

\* What inode_create does to directory d before it fills slot i: the resize
\* to i + 1 dirents when i is past i_size, and i_ndirent++.
Grow(S, d, i) ==
    [S EXCEPT !.size[d] = IF i + 1 > @ THEN i + 1 ELSE @, !.nd[d] = @ + 1]

\* inode_create from directory d for the components rest.  Every component
\* but the last becomes a directory; the last becomes a directory when
\* mkdir, a regular file otherwise, and when ino # 0 (rename) the install
\* branch links ino there instead.  A component longer than CT_MAX_NAME
\* returns EINVAL after i_ndirent++ and the resize, with the inode given
\* back and d_ino not written.  "bound" marks a run past MaxSlot or out of
\* inodes (inode_alloc would return 0, see InodeAlloc).
RECURSIVE InodeCreate(_, _, _, _, _)
InodeCreate(S, d, rest, mkdir, ino) ==
    IF ino # 0 /\ Len(rest) = 1 THEN Install(S, d, Head(rest), ino, TRUE)
    ELSE LET i == CreateSlot(S, d)
             c == FreshIno(S)
             S1 == [DefaultInode(Grow(S, d, i), c) EXCEPT
                        !.ent[d][i] = [ino |-> c, name |-> Head(rest)]]
             S2 == IF Len(rest) = 1 /\ ~mkdir THEN S1 ELSE DirFill(S1, c, d)
         IN CASE i >= MaxSlot \/ Inodes \subseteq S.alloc -> [s |-> S, r |-> "bound"]
              [] Head(rest) \in LongNames -> [s |-> Grow(S, d, i), r |-> "EINVAL"]
              [] Len(rest) = 1 -> [s |-> S2, r |-> "ok"]
              [] OTHER -> InodeCreate(S2, c, Tail(rest), mkdir, ino)

\* Mutant: i_ndirent-- without clearing d_ino.
Detach_keepIno(S, w) == [S EXCEPT !.nd[w.dir] = @ - 1]

\* Clearing a dirent and i_ndirent-- of its directory.
Detach(S, w) == [S EXCEPT !.ent[w.dir][w.slot].ino = 0, !.nd[w.dir] = @ - 1]

\* The inode a walk found.
Target(w) == ent[w.dir][w.slot].ino

Init ==
    /\ ent = [[d \in Inodes |-> BlankBlock] EXCEPT
                 ![1] = [BlankBlock EXCEPT ![0] = [ino |-> 1, name |-> "."],
                                           ![1] = [ino |-> 1, name |-> ".."]]]
    /\ size = [d \in Inodes |-> IF d = 1 THEN 2 ELSE 0]
    /\ nd = [d \in Inodes |-> IF d = 1 THEN 2 ELSE 0]
    /\ isdir = [d \in Inodes |-> d = 1]
    /\ alloc = {1}
    /\ pending = None

\* ctfs_open(p, O_CREAT) (mkdir = FALSE) and ctfs_mkdir(p) (TRUE) when p
\* does not exist: inode_path2inode with CT_INODE_FRAME_CREATE hands the
\* rest of the path to inode_create.  An existing path or ENOTDIR changes
\* nothing.
Create(p, mkdir) ==
    LET w == Walk(Cur, 1, p)
        res == InodeCreate(Cur, w.dir, w.rest, mkdir, 0)
    IN /\ w.r = "missing"
       /\ res.r # "bound"
       /\ Set(res.s)
       /\ UNCHANGED pending

\* ctfs_unlink: the parent's i_ndirent--, d_ino = 0, and (i_nlink = 1)
\* inode_dealloc, whatever the type of the target.
Unlink(p) ==
    LET w == Walk(Cur, 1, p)
    IN /\ w.r = "found"
       /\ Set([Detach(Cur, w) EXCEPT !.alloc = @ \ {Target(w)}])
       /\ UNCHANGED pending

\* ctfs_rmdir: ENOTDIR for a file and ENOTEMPTY unless i_ndirent = 2
\* change nothing; otherwise the parent's i_ndirent--, inode_dealloc and
\* d_ino = 0.
Rmdir(p) ==
    LET w == Walk(Cur, 1, p)
    IN /\ w.r = "found"
       /\ isdir[Target(w)]
       /\ nd[Target(w)] = 2
       /\ Set([Detach(Cur, w) EXCEPT !.alloc = @ \ {Target(w)}])
       /\ UNCHANGED pending

\* Mutant: the first phase of rename leaves the old dirent in place.
RenameUnlink_noClear(p, q) ==
    LET w == Walk(Cur, 1, p)
    IN /\ pending = None
       /\ w.r = "found"
       /\ nd' = [nd EXCEPT ![w.dir] = @ - 1]
       /\ UNCHANGED <<ent, size, isdir, alloc>>
       /\ pending' = [ino |-> Target(w), to |-> q]

\* ctfs_rename(p, q), first phase: find p with its parent, clear its
\* dirent, the parent's i_ndirent--, and drop the locks.
RenameUnlink(p, q) ==
    LET w == Walk(Cur, 1, p)
    IN /\ pending = None
       /\ w.r = "found"
       /\ Set(Detach(Cur, w))
       /\ pending' = [ino |-> Target(w), to |-> q]

\* Second phase: inode_path2inode with CT_INODE_FRAME_INSTALL |
\* CT_INODE_FRAME_CREATE on q, in one of four ways.
Installing == LET w == Walk(Cur, 1, pending.to) IN w

\* A component of q is not a directory: ENOTDIR, and the unlinked inode is
\* left where the first phase put it.
RenameNotDir ==
    /\ pending # None
    /\ Installing.r = "ENOTDIR"
    /\ pending' = None
    /\ UNCHANGED <<ent, size, nd, isdir, alloc>>

\* q exists: its dirent gets the unlinked inode, the old inode's i_nlink--,
\* and when the old inode has a block (i_level != -1) pgg_deallocate and
\* inode_dealloc.
RenameReplace ==
    LET w == Installing
        old == Target(w)
    IN /\ pending # None
       /\ w.r = "found"
       /\ ent' = [ent EXCEPT ![w.dir][w.slot].ino = pending.ino]
       /\ alloc' = IF isdir[old] THEN alloc \ {old} ELSE alloc
       /\ pending' = None
       /\ UNCHANGED <<size, nd, isdir>>

\* Only the last component of q is missing: path2inode's install branch.
RenameInstallHere ==
    LET w == Installing
        res == Install(Cur, w.dir, Head(w.rest), pending.ino, FALSE)
    IN /\ pending # None
       /\ w.r = "missing" /\ Len(w.rest) = 1
       /\ res.r # "bound"
       /\ Set(res.s)
       /\ pending' = None

\* More components are missing: inode_create makes the directories and its
\* own install branch links the last one.
RenameInstallCreate ==
    LET w == Installing
        res == InodeCreate(Cur, w.dir, w.rest, FALSE, pending.ino)
    IN /\ pending # None
       /\ w.r = "missing" /\ Len(w.rest) > 1
       /\ res.r # "bound"
       /\ Set(res.s)
       /\ pending' = None

Next ==
    \/ \E p \in Paths :
          \/ "create" \in Ops /\ Create(p, FALSE)
          \/ "mkdir" \in Ops /\ Create(p, TRUE)
          \/ "unlink" \in Ops /\ Unlink(p)
          \/ "rmdir" \in Ops /\ Rmdir(p)
    \/ "rename" \in Ops /\ \E p \in Paths, q \in PathsOver(Names) : RenameUnlink(p, q)
    \/ RenameNotDir
    \/ RenameReplace
    \/ RenameInstallHere
    \/ RenameInstallCreate

Spec == Init /\ [][Next]_vars

\* The state as far as any call can tell: the name left in a slot whose
\* d_ino is 0 is never read (every scan tests d_ino first), so states that
\* differ only there behave alike.
Observed ==
    <<[d \in Inodes |-> [s \in Slots |-> IF ent[d][s].ino = 0 THEN Blank ELSE ent[d][s]]],
      size, nd, isdir, alloc, pending>>

-----------------------------------------------------------------------------
\* The dirents below i_size of directory d that are in use.
Visible(d) == {s \in 0..(size[d] - 1) : ent[d][s].ino # 0}

\* The edges directory -> inode of the visible entries besides "." and "..".
Edges == UNION {{<<d, ent[d][s].ino>> : s \in Visible(d) \ {0, 1}} :
                  d \in {x \in Inodes : isdir[x]}}

\* The nodes reachable from R over the edges E (a least fixpoint; Graphs'
\* Descendants computes the same set by a closure that is exponential in
\* TLC).
RECURSIVE ReachFrom(_, _)
ReachFrom(E, R) ==
    LET N == R \cup {e[2] : e \in {x \in E : x[1] \in R}}
    IN IF N = R THEN R ELSE ReachFrom(E, N)

\* The inodes reachable from the root through visible entries.
Reach == ReachFrom(Edges, {1})

\* The directories reachable from the root whose visible entries name i.
Holders(i) == {d \in Reach : isdir[d] /\ \E s \in Visible(d) \ {0, 1} : ent[d][s].ino = i}

TypeOK ==
    /\ ent \in [Inodes -> [Slots -> [ino : 0..MaxIno, name : Labels]]]
    /\ size \in [Inodes -> 0..MaxSlot]
    /\ nd \in [Inodes -> 0..MaxSlot]
    /\ isdir \in [Inodes -> BOOLEAN]
    /\ alloc \subseteq Inodes
    /\ pending \in {None} \cup [ino : Inodes, to : PathsOver(Names)]

\* i_ndirent of every reachable directory counts exactly the entries a
\* lookup can see ("." and ".." included): the count ctfs_rmdir's
\* ENOTEMPTY test and the install branch's append position rely on.
NdirentExact ==
    \A d \in Reach : isdir[d] => nd[d] = Cardinality(Visible(d))

\* No call loses a name it does not name: an inode still allocated after a
\* step, that a reachable directory named before it and that directory is
\* still reachable, is still reachable or is the inode a rename holds; and
\* the inode a rename installs ends up reachable.
EntryNotLost ==
    [][LET after == Reach' IN
       /\ \A i \in (Reach \ {1}) \cap alloc' :
            Holders(i) \cap after # {} => (i \in after \/ pending'.ino = i)
       /\ (pending # None /\ pending' = None /\ pending.ino \in alloc')
            => pending.ino \in after]_vars

\* Every inode a lookup can reach from the root is allocated: no call
\* frees an inode that a visible entry still names.
ReachAllocated == Reach \subseteq alloc
=============================================================================
