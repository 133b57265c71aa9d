----------------------------- MODULE InodeAlloc ------------------------------
(***************************************************************************)
(* The inode bitmap allocator: inode_alloc and inode_dealloc               *)
(* (src/ctfs_inode.c) over the bitmap at CT_OFFSET_IBMP, with the          *)
(* superblock fields inode_bmp_touched, inode_used and inode_hint.         *)
(*                                                                         *)
(* The bitmap is zeroed lazily: when inode_used reaches inode_bmp_touched  *)
(* the next page is memset to 0 and touched advances by one page of bits.  *)
(* Pages beyond touched hold whatever the device held before (ctfs_mkfs    *)
(* only resets the device when asked to).  Both calls hold inode_bmp_lock  *)
(* throughout, so each is one step.  The caller that matters is            *)
(* inode_create, which uses the returned number without checking it.      *)
(***************************************************************************)
EXTENDS Integers, FiniteSets, Bags, Bitmap

CONSTANTS
    PageBits,   \* bits zeroed per lazy memset (CT_PAGE_SIZE << 3)
    WordBits,   \* word width of find_free_bit (64)
    MaxInode,   \* CT_SIZE_MAX_INODE, bits in the bitmap region
    MaxUsed     \* bound on inode_used (lifetime allocations) and on files

ASSUME PageBits % WordBits = 0 /\ MaxInode % PageBits = 0 /\ PageBits >= 2

VARIABLES
    bmp,        \* set bits of the bitmap region
    touched,    \* ct_super->inode_bmp_touched
    used,       \* ct_super->inode_used
    hint,       \* ct_super->inode_hint
    overrun,    \* a lazy memset has written past the bitmap region
    files       \* bag of inode numbers inode_create has installed

vars == <<bmp, touched, used, hint, overrun, files>>

Bits == 0..(MaxInode - 1)
Page(t) == t..(t + PageBits - 1)

\* Mutant: touched advances by a word of bits instead of a page of bits.
AllocOp_wordStep(S) ==
    LET S1 == IF S.touched = S.used
              THEN [S EXCEPT !.bmp = @ \ Page(S.touched),
                             !.overrun = @ \/ S.touched >= MaxInode,
                             !.touched = @ + WordBits]
              ELSE S
        res == FindFreeBit(S1.bmp, MaxInode, S1.hint, WordBits)
    IN IF res = -1 THEN [s |-> S1, ino |-> 0]
       ELSE [s |-> [S1 EXCEPT !.bmp = @ \cup {res}, !.hint = res,
                              !.used = @ + 1],
             ino |-> res]

\* inode_alloc on S = [bmp, touched, used, hint, overrun]: the lazy memset,
\* find_free_bit from the hint, then set_bit and the superblock updates;
\* 0 when no bit is free.
AllocOp(S) ==
    LET S1 == IF S.touched = S.used
              THEN [S EXCEPT !.bmp = @ \ Page(S.touched),
                             !.overrun = @ \/ S.touched >= MaxInode,
                             !.touched = @ + PageBits]
              ELSE S
        res == FindFreeBit(S1.bmp, MaxInode, S1.hint, WordBits)
    IN IF res = -1 THEN [s |-> S1, ino |-> 0]
       ELSE [s |-> [S1 EXCEPT !.bmp = @ \cup {res}, !.hint = res,
                              !.used = @ + 1],
             ino |-> res]

\* ctfs_mkfs on a device whose bitmap region holds the bits Old: the
\* superblock fields are zeroed, then inode_alloc twice (inode 0, kept as
\* the failure value, and the root inode 1).
Mkfs(Old) ==
    LET S0 == [bmp |-> Old, touched |-> 0, used |-> 0, hint |-> 0,
               overrun |-> FALSE]
    IN AllocOp(AllocOp(S0).s)

Cur == [bmp |-> bmp, touched |-> touched, used |-> used, hint |-> hint,
        overrun |-> overrun]

Set(S) ==
    /\ bmp' = S.bmp
    /\ touched' = S.touched
    /\ used' = S.used
    /\ hint' = S.hint
    /\ overrun' = S.overrun

Init ==
    \E Old \in SUBSET Bits :
        LET S == Mkfs(Old).s
        IN /\ bmp = S.bmp
           /\ touched = S.touched
           /\ used = S.used
           /\ hint = S.hint
           /\ overrun = S.overrun
           /\ files = SetToBag({Mkfs(Old).ino})

\* inode_create's inode_alloc: the number is installed whatever it is.
InodeAlloc ==
    /\ used < MaxUsed
    /\ BagCardinality(files) < MaxUsed
    /\ Set(AllocOp(Cur).s)
    /\ files' = files (+) SetToBag({AllocOp(Cur).ino})

\* Mutant: inode_dealloc also gives the count back (inode_used--).
InodeDealloc_decUsed(i) ==
    /\ bmp' = bmp \ {i}
    /\ files' = files (-) SetToBag({i})
    /\ used' = used - 1
    /\ UNCHANGED <<touched, hint, overrun>>

\* inode_dealloc(index), from unlink or rmdir of a file other than the root.
InodeDealloc(i) ==
    /\ bmp' = bmp \ {i}
    /\ files' = files (-) SetToBag({i})
    /\ UNCHANGED <<touched, used, hint, overrun>>

Next ==
    \/ InodeAlloc
    \/ \E i \in BagToSet(files) \ {1} : InodeDealloc(i)

Spec == Init /\ [][Next]_vars

-----------------------------------------------------------------------------
TypeOK ==
    /\ bmp \subseteq Bits
    /\ touched \in 0..(MaxUsed + PageBits) /\ touched % PageBits = 0
    /\ used \in 0..MaxUsed
    /\ hint \in Bits
    /\ overrun \in BOOLEAN

\* No inode is given to two files, and every inode a file holds is marked
\* in the bitmap: the lazy memset never clears a page holding an allocated
\* bit, and the search never returns a bit outside the zeroed pages that a
\* later memset clears.
InodesExclusive ==
    \A i \in BagToSet(files) : CopiesIn(i, files) = 1 /\ i \in bmp
=============================================================================
