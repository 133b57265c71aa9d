------------------------------ MODULE PathLock ------------------------------
(***************************************************************************)
(* The per-inode rt locks taken while a path is resolved: the lock and     *)
(* unlock steps of inode_path2inode and inode_create (src/ctfs_inode.c)    *)
(* and the releases their callers make (ctfs_open, ctfs_mkdir, ctfs_rename *)
(* in src/ctfs_func.c, ctfs_unlink and ctfs_rmdir in src/ctfs_func2.c).    *)
(*                                                                         *)
(* An rt lock is bit n % CT_INODE_BITLOCK_SLOTS of one shared bit array:   *)
(* bitlock_acquire spins on fetch-and-or, bitlock_release clears the bit   *)
(* whoever set it.  SlotOf gives the bit of each inode, so inodes that     *)
(* share a bit can be configured.  The directory tree is a fixed set of    *)
(* positions (Parent); a position is linked while its parent directory     *)
(* holds an entry for it.  What the entries hold is left to the Directory  *)
(* module: here a lookup only asks whether the component is linked.        *)
(* Each thread makes one call, job[t], and every lock, unlock and          *)
(* directory write is a step of its own.  holds[t] is the set of bits the  *)
(* thread's frame believes it holds (it exists only in the model).         *)
(***************************************************************************)
EXTENDS Integers, Sequences, FiniteSets

CONSTANTS
    Threads,    \* threads calling into the library
    Root,       \* ct_super->root_inode
    Parent,     \* parent directory of every other position
    Dirs,       \* the positions that are directories
    SlotOf,     \* inode number -> its rt lock bit
    JobSet,     \* the calls a thread may make
    Linked0     \* positions linked in the initial tree

\* Paths lead through directories only, so no lookup meets ENOTDIR.
ASSUME \A x \in DOMAIN Parent : Parent[x] \in Dirs

Positions == {Root} \cup DOMAIN Parent
Slots == {SlotOf[i] : i \in Positions}

VARIABLES
    bits,       \* ct_rt.inode_rt_lock: the set bits
    openLock,   \* ct_rt.open_lock is held
    linked,     \* positions with an entry in their parent directory
    pc,         \* where each thread is
    goal,       \* the position its current path2inode call resolves
    k,          \* index of the path component it is at
    cur,        \* frame c / frame->current
    par,        \* frame->parent
    flag,       \* frame->flag
    holds,      \* bits each thread's frame believes it holds
    job         \* the call each thread makes

vars == <<bits, openLock, linked, pc, goal, k, cur, par, flag, holds, job>>

\* The components of the absolute path of position x, root excluded.
RECURSIVE PathTo(_)
PathTo(x) == IF Parent[x] = Root THEN <<x>> ELSE Append(PathTo(Parent[x]), x)

RECURSIVE Below(_)
Below(x) == LET ch == {y \in DOMAIN Parent : Parent[y] = x}
            IN ch \cup UNION {Below(y) : y \in ch}

Comp(t) == PathTo(goal[t])[k[t]]
Last(t) == k[t] = Len(PathTo(goal[t]))
Same(t) == SlotOf[cur[t]] = SlotOf[Comp(t)]
Found(t) == Comp(t) \in linked

\* The flags each call passes to inode_path2inode.
FlagsOf(j) ==
    CASE j.kind = "open"   -> IF j.create THEN {"CREATE"} ELSE {}
      [] j.kind = "mkdir"  -> {"CREATE"}
      [] OTHER             -> {"PARENT"}

\* inode_rt_lock: the step in which the fetch-and-or finds the bit clear.
Lock(t, i) ==
    /\ SlotOf[i] \notin bits
    /\ bits' = bits \cup {SlotOf[i]}
    /\ holds' = [holds EXCEPT ![t] = @ \cup {SlotOf[i]}]

\* inode_rt_unlock: the bit is cleared whoever set it.
Unlock(t, i) ==
    /\ bits' = bits \ {SlotOf[i]}
    /\ holds' = [holds EXCEPT ![t] = @ \ {SlotOf[i]}]

Init ==
    /\ job \in [Threads -> JobSet]
    /\ bits = {}
    /\ openLock = FALSE
    /\ linked = Linked0
    /\ pc = [t \in Threads |-> IF job[t].kind = "open" THEN "openlock" ELSE "root"]
    /\ goal = [t \in Threads |-> job[t].path]
    /\ k = [t \in Threads |-> 1]
    /\ cur = [t \in Threads |-> Root]
    /\ par = [t \in Threads |-> Root]
    /\ flag = [t \in Threads |-> FlagsOf(job[t])]
    /\ holds = [t \in Threads |-> {}]

Goto(t, l) == pc' = [pc EXCEPT ![t] = l]
SetCur(t, i) == cur' = [cur EXCEPT ![t] = i]
NextComp(t) == k' = [k EXCEPT ![t] = @ + 1]

\* ctfs_open takes open_lock before it resolves the path.
OpenLock(t) ==
    /\ pc[t] = "openlock" /\ ~openLock
    /\ openLock' = TRUE /\ Goto(t, "root")
    /\ UNCHANGED <<job, bits, linked, goal, k, cur, par, flag, holds>>

\* inode_path2inode locks the inode the walk starts from.
LockRoot(t) ==
    /\ pc[t] = "root" /\ Lock(t, Root)
    /\ SetCur(t, Root) /\ k' = [k EXCEPT ![t] = 1] /\ Goto(t, "scan")
    /\ UNCHANGED <<job, openLock, linked, goal, par, flag>>

\* target_reached with CT_INODE_FRAME_INSTALL: the entry is repointed to the
\* installed inode (the old one freed) and c is unlocked.
ReachedInstall(t) ==
    /\ pc[t] = "scan" /\ Found(t) /\ Last(t) /\ "INSTALL" \in flag[t]
    /\ Unlock(t, cur[t]) /\ Goto(t, "ok")
    /\ UNCHANGED <<job, openLock, linked, goal, k, cur, par, flag>>

\* target_reached with CT_INODE_FRAME_PARENT: the parent stays locked; the
\* target is locked too unless it shares the parent's bit, which sets
\* CT_INODE_FRAME_SAME_INODE_LOCK instead.
ReachedParent(t) ==
    /\ pc[t] = "scan" /\ Found(t) /\ Last(t)
    /\ "INSTALL" \notin flag[t] /\ "PARENT" \in flag[t]
    /\ par' = [par EXCEPT ![t] = cur[t]]
    /\ IF Same(t)
       THEN /\ flag' = [flag EXCEPT ![t] = @ \cup {"SAME"}]
            /\ SetCur(t, Comp(t)) /\ Goto(t, "ok")
       ELSE /\ UNCHANGED <<flag, cur>> /\ Goto(t, "locktarget")
    /\ UNCHANGED <<job, bits, openLock, linked, goal, k, holds>>

LockTarget(t) ==
    /\ pc[t] = "locktarget" /\ Lock(t, Comp(t))
    /\ SetCur(t, Comp(t)) /\ Goto(t, "ok")
    /\ UNCHANGED <<job, openLock, linked, goal, k, par, flag>>

\* Mutant: the shared-bit check of the final step is dropped.
ReachedNoParent_noSameCheck(t) ==
    /\ pc[t] = "scan" /\ Found(t) /\ Last(t)
    /\ flag[t] \cap {"INSTALL", "PARENT"} = {}
    /\ UNCHANGED cur /\ Goto(t, "lockfinal")
    /\ UNCHANGED <<job, bits, openLock, linked, goal, k, par, flag, holds>>

\* target_reached, parent not requested: lock the target, then unlock c,
\* unless both share a bit.
ReachedNoParent(t) ==
    /\ pc[t] = "scan" /\ Found(t) /\ Last(t)
    /\ flag[t] \cap {"INSTALL", "PARENT"} = {}
    /\ IF Same(t) THEN SetCur(t, Comp(t)) /\ Goto(t, "ok")
                  ELSE UNCHANGED cur /\ Goto(t, "lockfinal")
    /\ UNCHANGED <<job, bits, openLock, linked, goal, k, par, flag, holds>>

LockFinal(t) ==
    /\ pc[t] = "lockfinal" /\ Lock(t, Comp(t)) /\ Goto(t, "unlockprev")
    /\ UNCHANGED <<job, openLock, linked, goal, k, cur, par, flag>>

UnlockPrev(t) ==
    /\ pc[t] = "unlockprev" /\ Unlock(t, cur[t])
    /\ SetCur(t, Comp(t)) /\ Goto(t, "ok")
    /\ UNCHANGED <<job, openLock, linked, goal, k, par, flag>>

\* An intermediate component found: unlock c, then lock the child, unless
\* both share a bit.
Descend(t) ==
    /\ pc[t] = "scan" /\ Found(t) /\ ~Last(t)
    /\ IF Same(t)
       THEN SetCur(t, Comp(t)) /\ NextComp(t) /\ UNCHANGED <<bits, holds, pc>>
       ELSE Unlock(t, cur[t]) /\ Goto(t, "couple") /\ UNCHANGED <<cur, k>>
    /\ UNCHANGED <<job, openLock, linked, goal, par, flag>>

Couple(t) ==
    /\ pc[t] = "couple" /\ Lock(t, Comp(t))
    /\ SetCur(t, Comp(t)) /\ NextComp(t) /\ Goto(t, "scan")
    /\ UNCHANGED <<job, openLock, linked, goal, par, flag>>

\* No entry, CT_INODE_FRAME_INSTALL and the last component: a new entry of c
\* is made for the installed inode and c is unlocked.
InstallHere(t) ==
    /\ pc[t] = "scan" /\ ~Found(t) /\ Last(t) /\ "INSTALL" \in flag[t]
    /\ linked' = linked \cup {Comp(t)}
    /\ Unlock(t, cur[t]) /\ Goto(t, "ok")
    /\ UNCHANGED <<job, openLock, goal, k, cur, par, flag>>

\* No entry and no CT_INODE_FRAME_CREATE: unlock c and return ENOENT.
NotFound(t) ==
    /\ pc[t] = "scan" /\ ~Found(t) /\ "CREATE" \notin flag[t]
    /\ ~(Last(t) /\ "INSTALL" \in flag[t])
    /\ Unlock(t, cur[t]) /\ Goto(t, "fail")
    /\ UNCHANGED <<job, openLock, linked, goal, k, cur, par, flag>>

(***************************************************************************)
(* inode_create, entered with c locked when a component is missing and     *)
(* CT_INODE_FRAME_CREATE is set; it makes every remaining component.       *)
(***************************************************************************)
InCreate(t) ==
    \/ pc[t] = "create"
    \/ /\ pc[t] = "scan" /\ ~Found(t) /\ "CREATE" \in flag[t]
       /\ ~(Last(t) /\ "INSTALL" \in flag[t])

\* A new directory entry of the position x: it is linked, and the fresh
\* directory behind it has no entries.
Link(x) == linked' = (linked \cup {x}) \ Below(x)

\* The install branch of inode_create (a rename whose target directory was
\* just made): the entry is made in c and c is unlocked.
CreateInstall(t) ==
    /\ pc[t] = "create" /\ Last(t) /\ "INSTALL" \in flag[t]
    /\ Link(Comp(t)) /\ Unlock(t, cur[t]) /\ Goto(t, "ok")
    /\ UNCHANGED <<job, openLock, goal, k, cur, par, flag>>

\* Mutant: frame->parent is set after c has moved to the new inode.
CreateLast_swapParent(t) ==
    /\ InCreate(t) /\ Last(t) /\ "INSTALL" \notin flag[t]
    /\ par' = [par EXCEPT ![t] = Comp(t)] /\ SetCur(t, Comp(t))
    /\ IF Same(t) THEN Goto(t, "publish") /\ UNCHANGED <<bits, holds>>
                  ELSE Unlock(t, cur[t]) /\ Goto(t, "crlock")
    /\ UNCHANGED <<job, openLock, linked, goal, k, flag>>

\* The last component: the entry's name is written and the new inode
\* filled; without CT_INODE_FRAME_PARENT (no caller passes it with CREATE)
\* the parent is unlocked and the new inode locked, unless both share a
\* bit, and only then is d_ino written.
CreateLast(t) ==
    /\ InCreate(t) /\ Last(t) /\ "INSTALL" \notin flag[t]
    /\ par' = [par EXCEPT ![t] = cur[t]] /\ SetCur(t, Comp(t))
    /\ IF Same(t) THEN Goto(t, "publish") /\ UNCHANGED <<bits, holds>>
                  ELSE Unlock(t, cur[t]) /\ Goto(t, "crlock")
    /\ UNCHANGED <<job, openLock, linked, goal, k, flag>>

CreateLock(t) ==
    /\ pc[t] = "crlock" /\ Lock(t, cur[t]) /\ Goto(t, "publish")
    /\ UNCHANGED <<job, openLock, linked, goal, k, cur, par, flag>>

\* cur_dirent[i].d_ino = temp_i: the entry becomes visible.
Publish(t) ==
    /\ pc[t] = "publish" /\ Link(cur[t]) /\ Goto(t, "ok")
    /\ UNCHANGED <<job, bits, openLock, goal, k, cur, par, flag, holds>>

\* An intermediate component: the new directory's entry is written in full,
\* then the parent is unlocked and the new directory locked, unless both
\* share a bit, and the loop goes on inside it.
CreateMid(t) ==
    /\ InCreate(t) /\ ~Last(t)
    /\ par' = [par EXCEPT ![t] = cur[t]] /\ SetCur(t, Comp(t))
    /\ Link(Comp(t))
    /\ IF Same(t)
       THEN NextComp(t) /\ Goto(t, "create") /\ UNCHANGED <<bits, holds>>
       ELSE Unlock(t, cur[t]) /\ Goto(t, "crcouple") /\ UNCHANGED k
    /\ UNCHANGED <<job, openLock, goal, flag>>

CreateCouple(t) ==
    /\ pc[t] = "crcouple" /\ Lock(t, cur[t])
    /\ NextComp(t) /\ Goto(t, "create")
    /\ UNCHANGED <<job, openLock, linked, goal, cur, par, flag>>

(***************************************************************************)
(* The callers, once inode_path2inode has returned.                        *)
(***************************************************************************)
Kind(t) == job[t].kind

\* ctfs_open: the target is unlocked, then open_lock released.
OpenUnlock(t) ==
    /\ pc[t] = "ok" /\ Kind(t) = "open"
    /\ Unlock(t, cur[t]) /\ Goto(t, "release")
    /\ UNCHANGED <<job, openLock, linked, goal, k, cur, par, flag>>

OpenRelease(t) ==
    /\ \/ pc[t] = "release"
       \/ pc[t] = "fail" /\ Kind(t) = "open"
    /\ openLock' = FALSE /\ Goto(t, "done")
    /\ UNCHANGED <<job, bits, linked, goal, k, cur, par, flag, holds>>

\* ctfs_mkdir unlocks what it made (or found).
MkdirUnlock(t) ==
    /\ pc[t] = "ok" /\ Kind(t) = "mkdir"
    /\ Unlock(t, cur[t]) /\ Goto(t, "done")
    /\ UNCHANGED <<job, openLock, linked, goal, k, cur, par, flag>>

\* Any other call returns the error with nothing more to release.
Fail(t) ==
    /\ pc[t] = "fail" /\ Kind(t) # "open" /\ Goto(t, "done")
    /\ UNCHANGED <<job, bits, openLock, linked, goal, k, cur, par, flag, holds>>

AfterCurrent(t) == Goto(t, IF "SAME" \in flag[t] THEN "done" ELSE "unlockparent")

\* ctfs_unlink: the entry is cleared, then the target unlocked.
UnlinkUnlock(t) ==
    /\ pc[t] = "ok" /\ Kind(t) = "unlink"
    /\ linked' = linked \ {cur[t]}
    /\ Unlock(t, cur[t]) /\ AfterCurrent(t)
    /\ UNCHANGED <<job, openLock, goal, k, cur, par, flag>>

\* ctfs_rmdir: ENOTEMPTY unless i_ndirent is 2; either way the target is
\* unlocked.
RmdirUnlock(t) ==
    /\ pc[t] = "ok" /\ Kind(t) = "rmdir"
    /\ linked' = IF \E y \in linked : Parent[y] = cur[t] THEN linked
                 ELSE linked \ {cur[t]}
    /\ Unlock(t, cur[t]) /\ AfterCurrent(t)
    /\ UNCHANGED <<job, openLock, goal, k, cur, par, flag>>

\* The parent unlock of ctfs_unlink and ctfs_rmdir, skipped when SAME.
UnlockParent(t) ==
    /\ pc[t] = "unlockparent"
    /\ Unlock(t, par[t]) /\ Goto(t, "done")
    /\ UNCHANGED <<job, openLock, linked, goal, k, cur, par, flag>>

\* ctfs_rename, second half: a new frame installing the same inode at the
\* new path.
StartInstall(t) ==
    /\ goal' = [goal EXCEPT ![t] = job[t].to]
    /\ flag' = [flag EXCEPT ![t] = {"INSTALL", "CREATE"}]

\* Mutant: the target is unlocked even when SAME.
RenameUnlink_ignoreSame(t) ==
    /\ pc[t] = "ok" /\ Kind(t) = "rename" /\ "INSTALL" \notin flag[t]
    /\ linked' = linked \ {cur[t]}
    /\ Unlock(t, par[t])
    /\ Goto(t, "unlockcur") /\ UNCHANGED <<goal, flag>>
    /\ UNCHANGED <<job, openLock, k, cur, par>>

\* ctfs_rename, first half: the old entry is cleared, the parent unlocked,
\* then the target unless SAME.
RenameUnlink(t) ==
    /\ pc[t] = "ok" /\ Kind(t) = "rename" /\ "INSTALL" \notin flag[t]
    /\ linked' = linked \ {cur[t]}
    /\ Unlock(t, par[t])
    /\ IF "SAME" \in flag[t] THEN StartInstall(t) /\ Goto(t, "root")
                             ELSE Goto(t, "unlockcur") /\ UNCHANGED <<goal, flag>>
    /\ UNCHANGED <<job, openLock, k, cur, par>>

RenameUnlockCur(t) ==
    /\ pc[t] = "unlockcur"
    /\ Unlock(t, cur[t]) /\ StartInstall(t) /\ Goto(t, "root")
    /\ UNCHANGED <<job, openLock, linked, k, cur, par>>

\* The install resolution unlocked everything it took.
RenameDone(t) ==
    /\ pc[t] = "ok" /\ Kind(t) = "rename" /\ "INSTALL" \in flag[t]
    /\ Goto(t, "done")
    /\ UNCHANGED <<job, bits, openLock, linked, goal, k, cur, par, flag, holds>>

Step(t) ==
    \/ OpenLock(t) \/ LockRoot(t)
    \/ ReachedInstall(t) \/ ReachedParent(t) \/ LockTarget(t)
    \/ ReachedNoParent(t) \/ LockFinal(t) \/ UnlockPrev(t)
    \/ Descend(t) \/ Couple(t) \/ InstallHere(t) \/ NotFound(t)
    \/ CreateInstall(t) \/ CreateLast(t) \/ CreateLock(t) \/ Publish(t)
    \/ CreateMid(t) \/ CreateCouple(t)
    \/ OpenUnlock(t) \/ OpenRelease(t) \/ MkdirUnlock(t) \/ Fail(t)
    \/ UnlinkUnlock(t) \/ RmdirUnlock(t) \/ UnlockParent(t)
    \/ RenameUnlink(t) \/ RenameUnlockCur(t) \/ RenameDone(t)

Next == \E t \in Threads : Step(t)

\* Threads are scheduled by the OS: one that can take a step eventually
\* does.  Spinning on a held bit is not a step.
Spec == Init /\ [][Next]_vars /\ \A t \in Threads : WF_vars(Step(t))

-----------------------------------------------------------------------------
TypeOK ==
    /\ bits \subseteq Slots /\ openLock \in BOOLEAN
    /\ linked \subseteq DOMAIN Parent
    /\ pc \in [Threads -> {"openlock", "root", "scan", "locktarget",
                "lockfinal", "unlockprev", "couple", "create", "crlock",
                "publish", "crcouple", "ok", "fail", "release",
                "unlockparent", "unlockcur", "done"}]
    /\ cur \in [Threads -> Positions] /\ par \in [Threads -> Dirs]
    /\ flag \in [Threads -> SUBSET {"CREATE", "PARENT", "INSTALL", "SAME"}]
    /\ holds \in [Threads -> SUBSET Slots]

\* Each rt bit is set exactly when one thread's frame holds it, and a call
\* returns holding no bit.  The SAME-flag bookkeeping of the final step and
\* of the callers' releases (ctfs_unlink, ctfs_rmdir, ctfs_rename) must
\* match the locks path2inode and inode_create really took: a release
\* missed leaves a bit set after the return, a release made twice clears a
\* bit another thread has since taken.
LocksBalanced ==
    /\ \A s \in Slots :
         Cardinality({t \in Threads : s \in holds[t]}) = IF s \in bits THEN 1 ELSE 0
    /\ \A t \in Threads : pc[t] = "done" => holds[t] = {}

\* Every call returns: hand-over-hand locking down the tree, the SAME-bit
\* shortcuts and open_lock never leave threads spinning on each other.
Terminates == <>(\A t \in Threads : pc[t] = "done")

RECURSIVE Live(_)
Live(x) == x = Root \/ (x \in linked /\ Live(Parent[x]))

\* A directory's entries are read (the lookup loop of inode_path2inode and
\* the free-slot loop of inode_create) only while the thread holds its rt
\* lock and the directory is still in the tree, and an entry is written
\* (d_ino in inode_create) only while the thread holds its directory's lock.
DirAccessGuarded ==
    \A t \in Threads :
        /\ pc[t] \in {"scan", "create"} => Live(cur[t]) /\ SlotOf[cur[t]] \in holds[t]
        /\ pc[t] = "publish" => SlotOf[par[t]] \in holds[t]
=============================================================================
