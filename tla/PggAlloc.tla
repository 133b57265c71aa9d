------------------------------ MODULE PggAlloc ------------------------------
(***************************************************************************)
(* The page-group allocator of ctFS (src/ctfs_pgg.c).                      *)
(*                                                                         *)
(* The arena is a tree of page groups.  A header of level L (4..TopLevel)  *)
(* splits its group into Fanout children of level L-1, each EMPTY, FILE    *)
(* (handed out as one file) or SUB (a child header exists).  A level-3     *)
(* child of a level-4 header may hold a sub-PMD package: a group cut into  *)
(* Fanout^(3-l) slots of level l < 3, slot 0 holding the package header.   *)
(* The code fixes Fanout = 8 and TopLevel = 9; both are constants here.    *)
(*                                                                         *)
(* A header is named by its path of child indices from the top header      *)
(* <<>>; a level-3 group (package) by the path of its level-4 header plus  *)
(* its index.  Addresses are counted in level-0 pages from the top group.  *)
(*                                                                         *)
(* pgg_allocate and pgg_deallocate run entirely under the global allocator *)
(* lock (ct_rt.pgg_lock), so each call is one atomic step here (the       *)
(* double release above PGG_LVL9 is a hazard of its own).  An assert()    *)
(* that fails aborts the process: the call then returns nothing and the  *)
(* persistent tree keeps whatever the call had already written.            *)
(***************************************************************************)
EXTENDS Integers, Sequences, FiniteSets, Bags, SequencesExt, Bitmap

CONSTANTS
    Fanout,       \* children per header and slot fan-out (8 in the code)
    TopLevel,     \* level of the top header (PGG_LVL9 in the code)
    BigLevels,    \* levels >= 3 that callers request
    SmallLevels,  \* levels < 3 that callers request
    MaxLive       \* bound on simultaneously live allocations

ASSUME Fanout \in Nat /\ Fanout >= 2
ASSUME TopLevel \in Nat /\ TopLevel >= 5
ASSUME BigLevels \subseteq 3..(TopLevel - 1)
ASSUME SmallLevels \subseteq 0..2
ASSUME MaxLive \in Nat

VARIABLES
    hdr,        \* path -> page-group header (pgg_header)
    pkg,        \* level-3 path -> sub-PMD package header (pgg_subpmd_header)
    nextSubLvl, \* ct_super->next_sub_lvl
    live,       \* bag of allocations handed out and not yet freed
    last        \* the last call and its outcome

vars == <<hdr, pkg, nextSubLvl, live, last>>

Idx == 0..(Fanout - 1)
States == {"EMPTY", "FILE", "SUB"}
Outcomes == {"ok", "nospace", "abort"}

Level(p) == TopLevel - Len(p)
Size(l) == Fanout ^ l
SlotCount(l) == Fanout ^ (3 - l)     \* pgg_subpmd_count_per_pkg
WordBits == SlotCount(1)             \* 64 = the slots of a level-1 package
Zeros(k) == [j \in 1..k |-> 0]

RECURSIVE Base(_)
\* Offset of the group a path names (PGG_GROUP_AT).
Base(p) == IF p = <<>> THEN 0 ELSE Base(Front(p)) + Last(p) * Size(Level(p))

\* A freshly initialised header (__pgg_new_subpgg): child 0 SUB, rest EMPTY.
NewHeader(l) ==
    [state |-> [i \in Idx |-> IF i = 0 THEN "SUB" ELSE "EMPTY"],
     cap   |-> l - 1,
     sub   |-> {},                       \* sub_pmd_cap (preferred = available)
     pmd   |-> [i \in Idx |-> 0]]        \* pmd_type, level-4 headers only

SubIdx(H, p) == {i \in Idx : H[p].state[i] = "SUB"}
EmptyIdx(H, p) == {i \in 1..(Fanout - 1) : H[p].state[i] = "EMPTY"}

-----------------------------------------------------------------------------
(* Capability propagation.                                                 *)

\* Mutant: the recomputed cap_lvl is stored but not propagated upward.
UpdateCapAlloc_noProp(H, p) ==
    IF Level(p) = TopLevel \/ \E i \in Idx : H[p].state[i] = "EMPTY"
    THEN H
    ELSE LET mc == IF Level(p) = 4 THEN 0
                   ELSE Max({0} \cup {H[p \o <<i>>].cap : i \in SubIdx(H, p)})
         IN [H EXCEPT ![p].cap = mc]

RECURSIVE UpdateCapAlloc(_, _)
\* __pgg_update_cap_alloc: recompute cap_lvl from the children, stop on the
\* first header with an EMPTY child or an unchanged cap; never the top.
UpdateCapAlloc(H, p) ==
    IF Level(p) = TopLevel \/ \E i \in Idx : H[p].state[i] = "EMPTY"
    THEN H
    ELSE LET mc == IF Level(p) = 4 THEN 0
                   ELSE Max({0} \cup {H[p \o <<i>>].cap : i \in SubIdx(H, p)})
         IN IF H[p].cap = mc THEN H
            ELSE UpdateCapAlloc([H EXCEPT ![p].cap = mc], Front(p))

RECURSIVE RaiseCapUp(_, _, _)
\* The loop of __pgg_update_cap_dealloc above the freed header's parent.
RaiseCapUp(H, q, m) ==
    IF Level(q) = TopLevel - 1 THEN H
    ELSE IF H[Front(q)].cap >= m THEN H
    ELSE RaiseCapUp([H EXCEPT ![Front(q)].cap = m], Front(q), m)

\* Mutant: the freed header's cap_lvl is restored but its ancestors are not.
UpdateCapDealloc_noRaise(H, p) ==
    IF H[p].cap = Level(p) - 1 THEN H ELSE [H EXCEPT ![p].cap = Level(p) - 1]

\* __pgg_update_cap_dealloc
UpdateCapDealloc(H, p) ==
    IF H[p].cap = Level(p) - 1 THEN H
    ELSE RaiseCapUp([H EXCEPT ![p].cap = Level(p) - 1], p, Level(p) - 1)

RECURSIVE SetSubUp(_, _, _)
\* Set the sub-PMD capability bit of level l upward until a header has it.
SetSubUp(H, q, l) ==
    IF l \in H[q].sub THEN H
    ELSE LET H2 == [H EXCEPT ![q].sub = @ \cup {l}]
         IN IF q = <<>> THEN H2 ELSE SetSubUp(H2, Front(q), l)

-----------------------------------------------------------------------------
(* Building structure.  S is a record [hdr, pkg, nsl].                      *)

\* __pgg_build_sub_pmd: package of level l at child i of level-4 header p4.
BuildSubPmd(S, p4, i, l) ==
    [S EXCEPT !.pkg = (p4 \o <<i>> :> [lvl |-> l, bmp |-> {0}, taken |-> 1,
                                       hint |-> 1]) @@ @,
              !.hdr = SetSubUp([@ EXCEPT ![p4].pmd[i] = l], p4, l)]

\* Mutant: the rotation wraps one level too late.
NextHint_late(n) == IF n = 3 THEN 0 ELSE n + 1

\* __pgg_sub_pmd_lvl_hint
NextHint(n) == IF n = 2 THEN 0 ELSE n + 1

\* __pgg_new_subpgg: headers of levels l..4 at group p, then a package of
\* the hinted level at child 0 of the new level-4 header.
NewSubpgg(S, p, l) ==
    LET chain == [q \in {p \o Zeros(k) : k \in 0..(l - 4)} |-> NewHeader(Level(q))]
        S1 == [S EXCEPT !.hdr = chain @@ @, !.nsl = NextHint(@)]
    IN BuildSubPmd(S1, p \o Zeros(l - 4), 0, S.nsl)

-----------------------------------------------------------------------------
(* Allocation.  Each operator returns [s |-> new state, res |-> outcome,   *)
(* a |-> the allocation handed out when res = "ok"].                       *)

Alloc(l, at, i) ==
    [lvl |-> l, at |-> at, idx |-> i, lo |-> Base(at) + i * Size(l),
     hi |-> Base(at) + (i + 1) * Size(l)]

Ok(S, a) == [s |-> S, res |-> "ok", a |-> a]
Fail(S, why) == [s |-> S, res |-> why, a |-> Alloc(0, <<>>, 0)]

\* Mutant: the chosen child is handed out without PGG_STATE_STORE(FILE).
TakeSlot_noStore(S, l, p) ==
    IF EmptyIdx(S.hdr, p) = {} THEN Fail(S, "abort")
    ELSE Ok([S EXCEPT !.hdr = UpdateCapAlloc(S.hdr, p)],
            Alloc(l, p, Min(EmptyIdx(S.hdr, p))))

\* The branch of __pgg_allocate_big at the header just above level l: the
\* first EMPTY child from index 1 becomes FILE; none left hits assert(0).
TakeSlot(S, l, p) ==
    IF EmptyIdx(S.hdr, p) = {} THEN Fail(S, "abort")
    ELSE LET i == Min(EmptyIdx(S.hdr, p))
             H1 == [S.hdr EXCEPT ![p].state[i] = "FILE"]
         IN Ok([S EXCEPT !.hdr = UpdateCapAlloc(H1, p)], Alloc(l, p, i))

RECURSIVE AllocBig_strict(_, _, _)
\* Mutant: the descent only enters children whose cap_lvl exceeds l.
AllocBig_strict(S, l, p) ==
    IF l + 1 = Level(p) THEN TakeSlot(S, l, p)
    ELSE
        LET fit == {i \in SubIdx(S.hdr, p) : S.hdr[p \o <<i>>].cap > l}
        IN IF fit # {} THEN AllocBig_strict(S, l, p \o <<Min(fit)>>)
           ELSE IF EmptyIdx(S.hdr, p) = {} THEN Fail(S, "abort")
           ELSE LET i == Min(EmptyIdx(S.hdr, p))
                    S1 == NewSubpgg(S, p \o <<i>>, Level(p) - 1)
                    H2 == [S1.hdr EXCEPT ![p].state[i] = "SUB"]
                IN AllocBig_strict([S1 EXCEPT !.hdr = UpdateCapAlloc(H2, p)],
                                   l, p \o <<i>>)

RECURSIVE AllocBig(_, _, _)
\* __pgg_allocate_big
AllocBig(S, l, p) ==
    IF l + 1 = Level(p) THEN TakeSlot(S, l, p)
    ELSE
        LET fit == {i \in SubIdx(S.hdr, p) : S.hdr[p \o <<i>>].cap >= l}
        IN IF fit # {} THEN AllocBig(S, l, p \o <<Min(fit)>>)
           ELSE IF EmptyIdx(S.hdr, p) = {} THEN Fail(S, "abort")
           ELSE LET i == Min(EmptyIdx(S.hdr, p))
                    S1 == NewSubpgg(S, p \o <<i>>, Level(p) - 1)
                    H2 == [S1.hdr EXCEPT ![p].state[i] = "SUB"]
                IN AllocBig([S1 EXCEPT !.hdr = UpdateCapAlloc(H2, p)],
                            l, p \o <<i>>)

RECURSIVE Descend(_, _, _, _)
\* The descent loops of __pgg_allocate_small: from p, follow the first SUB
\* child advertising the preferred bit of l (mode "prf") or cap_lvl >= 3
\* (mode "avb") down to a level-4 header; "none" where assert(found) fails.
Descend(H, p, l, mode) ==
    LET ok == {i \in SubIdx(H, p) :
                 IF mode = "prf" THEN l \in H[p \o <<i>>].sub
                                 ELSE H[p \o <<i>>].cap >= 3}
    IN IF ok = {} THEN "none"
       ELSE LET q == p \o <<Min(ok)>>
            IN IF Level(q) = 4 THEN q ELSE Descend(H, q, l, mode)

\* The slot __pgg_sub_pmd_alloc takes: find_free_bit_tiny for level 2,
\* find_free_bit from bitmap_hint otherwise.
FreeSlot(k, l) ==
    IF l = 2 THEN FindFreeBitTiny(k.bmp, SlotCount(l))
    ELSE FindFreeBit(k.bmp, SlotCount(l), k.hint, WordBits)

\* Mutant: the slot is handed out without setting its bit in the bitmap.
SubPmdAlloc_noMark(S, l, q) ==
    LET k == S.pkg[q]
        slot == FreeSlot(k, l)
    IN IF k.lvl # l \/ k.taken >= SlotCount(l) \/ slot = -1
       THEN Fail(S, "abort")
       ELSE Ok([S EXCEPT !.pkg[q] = [@ EXCEPT !.hint = slot % 256,
                                             !.taken = @ + 1]],
               Alloc(l, q, slot))

\* __pgg_sub_pmd_alloc: its three asserts, then set_bit, bitmap_hint (a
\* uint8_t) and taken.
SubPmdAlloc(S, l, q) ==
    LET k == S.pkg[q]
        slot == FreeSlot(k, l)
    IN IF k.lvl # l \/ k.taken >= SlotCount(l) \/ slot = -1
       THEN Fail(S, "abort")
       ELSE Ok([S EXCEPT !.pkg[q] = [@ EXCEPT !.bmp = @ \cup {slot},
                                             !.hint = slot % 256,
                                             !.taken = @ + 1]],
               Alloc(l, q, slot))

\* The tail of __pgg_allocate_small after r = __pgg_sub_pmd_alloc at q: if
\* the package became full, assert the level-4 header still has an EMPTY
\* child, and clear its sub_pmd_cap bits of l unless another SUB child holds
\* a package of level l with room.  The loop meant to clear the bits above
\* level 4 does nothing (its body is "TBD").
PackageFull(r, l, q) ==
    LET S1 == r.s
        p4 == Front(q)
        room == \E i \in SubIdx(S1.hdr, p4) :
                    /\ p4 \o <<i>> \in DOMAIN S1.pkg
                    /\ S1.pkg[p4 \o <<i>>].lvl = l
                    /\ S1.pkg[p4 \o <<i>>].taken # SlotCount(l)
    IN IF r.res # "ok" \/ S1.pkg[q].taken # SlotCount(l) THEN r
       ELSE IF S1.hdr[p4].cap < 3 THEN Fail(S1, "abort")
       ELSE IF room THEN r
       ELSE Ok([S1 EXCEPT !.hdr[p4].sub = @ \ {l}], r.a)

\* __pgg_allocate_small from the top header.
AllocSmall(S, l) ==
    IF l \in S.hdr[<<>>].sub THEN
        LET p4 == Descend(S.hdr, <<>>, l, "prf")
            cand == IF p4 = "none" THEN {}
                    ELSE {i \in Idx : S.hdr[p4].state[i] # "EMPTY"
                                      /\ S.hdr[p4].pmd[i] = l}
        IN IF cand = {} THEN Fail(S, "abort")
           ELSE IF p4 \o <<Min(cand)>> \notin DOMAIN S.pkg
           THEN Fail(S, "abort")          \* file data read as a header
           ELSE PackageFull(SubPmdAlloc(S, l, p4 \o <<Min(cand)>>), l,
                            p4 \o <<Min(cand)>>)
    ELSE IF S.hdr[<<>>].cap >= 3 THEN
        LET p4 == Descend(S.hdr, <<>>, l, "avb")
        IN IF p4 = "none" \/ EmptyIdx(S.hdr, p4) = {} THEN Fail(S, "abort")
           ELSE LET i == Min(EmptyIdx(S.hdr, p4))
                IN PackageFull(SubPmdAlloc(BuildSubPmd(S, p4, i, l), l,
                                           p4 \o <<i>>), l, p4 \o <<i>>)
    ELSE Fail(S, "nospace")

-----------------------------------------------------------------------------
Cur == [hdr |-> hdr, pkg |-> pkg, nsl |-> nextSubLvl]

\* ctfs_mkfs -> inode_set_root -> pgg_mkfs (CTFS_HACK): the top header chain
\* and the root directory's level-3 block.
Mkfs ==
    LET S0 == NewSubpgg([hdr |-> <<>>, pkg |-> <<>>, nsl |-> 0], <<>>, TopLevel)
    IN AllocBig(S0, 3, <<>>)

Init ==
    /\ hdr = Mkfs.s.hdr
    /\ pkg = Mkfs.s.pkg
    /\ nextSubLvl = Mkfs.s.nsl
    /\ live = SetToBag({Mkfs.a})
    /\ last = [op |-> "mkfs", lvl |-> 3, res |-> "ok"]

Apply(r, op, l) ==
    /\ hdr' = r.s.hdr
    /\ pkg' = r.s.pkg
    /\ nextSubLvl' = r.s.nsl
    /\ live' = IF r.res = "ok" THEN live (+) SetToBag({r.a}) ELSE live
    /\ last' = [op |-> op, lvl |-> l, res |-> r.res]

\* pgg_allocate(level), level in PGG_LVL3..PGG_LVL8
AllocateBig(l) ==
    /\ BagCardinality(live) < MaxLive
    /\ Apply(AllocBig(Cur, l, <<>>), "alloc", l)

\* pgg_allocate(level), level <= PGG_LVL2
AllocateSmall(l) ==
    /\ BagCardinality(live) < MaxLive
    /\ Apply(AllocSmall(Cur, l), "alloc", l)

\* pgg_deallocate(level, target), level > PGG_LVL2
DeallocateBig(a) ==
    /\ a.lvl >= 3
    /\ IF hdr[a.at].state[a.idx] # "FILE"
       THEN /\ last' = [op |-> "free", lvl |-> a.lvl, res |-> "abort"]
            /\ UNCHANGED <<hdr, pkg, nextSubLvl, live>>
       ELSE /\ hdr' = UpdateCapDealloc([hdr EXCEPT ![a.at].state[a.idx] = "EMPTY"], a.at)
            /\ live' = live (-) SetToBag({a})
            /\ last' = [op |-> "free", lvl |-> a.lvl, res |-> "ok"]
            /\ UNCHANGED <<pkg, nextSubLvl>>

\* pgg_deallocate(level, target), level <= PGG_LVL2.  The slot index is
\* computed with the level of the package now at that group.  When the
\* level-4 header's cap_lvl is below 3 the re-advertising loop indexes
\* header[lvl] instead of header[9 - lvl] and its assert aborts.
DeallocateSmall(a) ==
    LET k == pkg[a.at]
        ix == (a.lo - Base(a.at)) \div Size(k.lvl)
    IN /\ a.lvl < 3
       /\ pkg' = [pkg EXCEPT ![a.at] = [k EXCEPT !.bmp = @ \ {ix},
                    !.hint = IF ix < k.hint THEN ix ELSE k.hint,
                    !.taken = (@ - 1) % 65536]]
       /\ live' = live (-) SetToBag({a})
       /\ last' = [op |-> "free", lvl |-> a.lvl,
                   res |-> IF hdr[Front(a.at)].cap < 3 THEN "abort" ELSE "ok"]
       /\ UNCHANGED <<hdr, nextSubLvl>>

Next ==
    \/ \E l \in BigLevels : AllocateBig(l)
    \/ \E l \in SmallLevels : AllocateSmall(l)
    \/ \E a \in BagToSet(live) : DeallocateBig(a) \/ DeallocateSmall(a)

Spec == Init /\ [][Next]_vars

-----------------------------------------------------------------------------
(* Properties.                                                             *)

TypeOK ==
    /\ \A p \in DOMAIN hdr :
         /\ hdr[p].state \in [Idx -> States]
         /\ hdr[p].cap \in 0..(TopLevel - 1)
         /\ hdr[p].sub \subseteq 0..2
    /\ \A q \in DOMAIN pkg : pkg[q].lvl \in 0..2 /\ pkg[q].bmp \subseteq 0..(SlotCount(pkg[q].lvl) - 1)
    /\ nextSubLvl \in 0..2
    /\ last.res \in Outcomes

\* First pages of every header group and package: the allocator's metadata.
MetaPages == {Base(p) : p \in DOMAIN hdr} \cup {Base(q) : q \in DOMAIN pkg}

\* No double allocation (spec section 8): the regions that pgg_allocate
\* handed out and that were not freed are pairwise disjoint, and none of them
\* covers a page holding a page-group or sub-PMD header.
NoOverlap ==
    /\ \A a \in BagToSet(live) : CopiesIn(a, live) = 1
    /\ \A a, b \in BagToSet(live) : a # b => (a.hi <= b.lo \/ b.hi <= a.lo)
    /\ \A a \in BagToSet(live) : \A m \in MetaPages : ~(a.lo <= m /\ m < a.hi)

RECURSIVE TrueCap(_)
\* The largest level allocatable in the subtree of p, from the state maps.
TrueCap(p) ==
    IF \E i \in Idx : hdr[p].state[i] = "EMPTY" THEN Level(p) - 1
    ELSE IF Level(p) = 4 THEN 0
    ELSE Max({0} \cup {TrueCap(p \o <<i>>) : i \in SubIdx(hdr, p)})

\* Capability invariant (spec section 8): after every allocator mutation the
\* cap_lvl of every header below the top equals the largest level that is
\* really allocatable in its subtree (__pgg_update_cap_alloc/_dealloc).
CapExact == \A p \in DOMAIN hdr \ {<<>>} : hdr[p].cap = TrueCap(p)

\* Some header could still give out a group of level l: an EMPTY child at
\* index >= 1 of a header of a level above l.
SpaceFor(l) == \E p \in DOMAIN hdr : Level(p) > l /\ EmptyIdx(hdr, p) # {}

\* pgg_allocate of a large level only fails when no group of that level
\* could be carved anywhere in the tree: the cap-guided descent never gives
\* up while space remains.
FailsOnlyWhenFull ==
    (last.op = "alloc" /\ last.lvl >= 3 /\ last.res # "ok") => ~SpaceFor(last.lvl)

=============================================================================
