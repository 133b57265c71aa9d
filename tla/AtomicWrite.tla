---------------------------- MODULE AtomicWrite ----------------------------
(***************************************************************************)
(* ctfs_pwrite with CTFS_ATOMIC_WRITE (src/ctfs_func.c): an overwrite is   *)
(* built in a staging page group of the file's level and swapped into the *)
(* file's group with dax_pswap; a pure append goes to ctfs_pwrite_normal.  *)
(* Both grow the file first with inode_resize (src/ctfs_inode.c), which    *)
(* on a level upgrade allocates a larger group, swaps the old group into   *)
(* its start, frees the old group and then updates the inode.             *)
(*                                                                         *)
(* One inode is written; its inode_rw_lock serialises the calls on it, so *)
(* one call runs at a time.  The arena is byte-addressed; every byte holds *)
(* a value that says where it came from (its initial address, or byte k   *)
(* of the buffer of write w), so a misplaced byte is seen.  The page swap  *)
(* is the atomic exchange PageSwapSpec promises, taken byte by byte.  The  *)
(* allocator hands out any free group of the level, aligned to its size,  *)
(* and fails only when there is none (PggAlloc checks the real one).      *)
(***************************************************************************)
EXTENDS Integers, FiniteSetsExt

CONSTANTS
    P,            \* CT_PAGE_SIZE (4096), in bytes
    GroupPages,   \* level -> pgg_size[level] >> 12, for the levels used
    NPages,       \* pages of the arena
    InitStates,   \* [ino, occ]: an inode and the pages other files hold; a
                  \* file without a group has block 0 (inode_template)
    Writes,       \* [off, cnt] requests, cnt > 0
    Reads,        \* [off, cnt] requests of ctfs_pread
    Truncs,       \* lengths for ctfs_ftruncate
    Fallocs,      \* [off, len, mode] for ctfs_fallocate, mode in Modes
    FdFlags,      \* the access modes the descriptor may have been opened with
    Counts,       \* counts for ctfs_write and ctfs_read at the fd offset
    Seeks,        \* [whence, off] for ctfs_lseek, whence in Whences
    OffBits,      \* the width of size_t and off_t (64)
    MaxCalls

Lvls == DOMAIN GroupPages
NONE == -1                                \* PGG_LVL_NONE, and no block
Stale == -2                               \* a byte no call has defined
\* fallocate modes: 0, FALLOC_FL_KEEP_SIZE, and one ctFS does not support.
Modes == {"none", "keep", "punch"}
Whences == {"set", "cur", "end", "bad"}    \* SEEK_SET, SEEK_CUR, SEEK_END, other

\* size_t arithmetic, and the conversion of a negative int to it.
Word(x) == x % (2 ^ OffBits)
TopLvl == Max(Lvls)
Pages == 0 .. NPages - 1
Bytes == 0 .. NPages * P - 1
Reserved == 0 .. GroupPages[TopLvl] - 1   \* relptr 0: super block, headers

\* The value of byte k of the buffer of write w.
Val(w, k) == 100 * w + k

\* pgg_limit[l] = pgg_size[l]; pgg_get_lvl returns the smallest level whose
\* limit holds the size, and CTFS_HACK raises it to PGG_LVL3, the smallest
\* level of Lvls.
Limit(l) == GroupPages[l] * P
GetLvl(size) == Min({l \in Lvls : size <= Limit(l)})

GroupOf(b, l) == b .. b + GroupPages[l] - 1
FreeGroups(u, l) ==
    {b \in Pages \ Reserved : b % GroupPages[l] = 0 /\ b + GroupPages[l] <= NPages
                              /\ GroupOf(b, l) \cap u = {}}

\* pgg_allocate(l): a free group of level l, or 0 when there is none.
Alloc(u, l) == IF FreeGroups(u, l) = {} THEN {0} ELSE FreeGroups(u, l)
Take(u, b, l) == IF b = 0 THEN u ELSE u \cup GroupOf(b, l)

\* avx_cpy(dst, src, n) in the arena, and avx_cpy(dst, buf + k0, n).
Copy(m, dst, src, n) ==
    [x \in DOMAIN m |-> IF x >= dst /\ x < dst + n THEN m[x - dst + src] ELSE m[x]]
Put(m, dst, k0, n, w) ==
    [x \in DOMAIN m |-> IF x >= dst /\ x < dst + n THEN Val(w, x - dst + k0) ELSE m[x]]

PS == INSTANCE PageSwapSpec WITH Pages <- Bytes, Requests <- {}, mapping <- 0

\* dax_pswap(first, second, npgs) as its contract states it.
Pswap(m, first, second, npgs) ==
    PS!Swapped(m, [first |-> first * P, second |-> second * P, npgs |-> npgs * P])

VARIABLES
    mem,      \* the arena's bytes
    used,     \* pages allocated (this file, the staging group, other files)
    ino,      \* [size, block, level] of the inode (block in pages)
    pc,       \* "idle", "resize", "rs_swap", "rs_free", "rs_set", "stage",
              \* "copy", "swap", "free", "ncopy"
    after,    \* where the call goes once inode_resize is done
    req,      \* [off, cnt, w] of the call in progress or last done
    ori,      \* ori_size
    rsz,      \* the size inode_resize was called with
    nb,       \* the group inode_resize_lvl allocated
    stg,      \* the staging group
    win,      \* [start, num]: swap_start and swap_num (bytes, pages)
    ret,      \* what the last call returned
    pre,      \* the file's bytes when the call began (history)
    calls,
    others,   \* the pages other files hold (fixed)
    flags,    \* ct_rt.fd[fd].flags (fixed)
    op,       \* the call in progress or last done
    keep,     \* fallocate with FALLOC_FL_KEEP_SIZE
    rd,       \* the bytes the last pread copied to its buffer
    foff,     \* ct_rt.fd[fd].offset (a size_t)
    viafd,    \* the write in progress came from ctfs_write
    cont      \* the content the calls so far define (history)

fdv == <<others, flags, op, keep, rd, foff, viafd>>
vars == <<mem, used, ino, pc, after, req, ori, rsz, nb, stg, win, ret, pre, calls,
          fdv, cont>>

File(i, m) == [b \in 0 .. i.size - 1 |-> m[i.block * P + b]]

\* The content c cut or grown to n bytes; grown bytes are undefined.
Sized(c, n) == [b \in 0 .. n - 1 |-> IF b \in DOMAIN c THEN c[b] ELSE Stale]

\* The content once write w has put cnt bytes at off.
Written(c, off, cnt, w) ==
    [b \in 0 .. Max({Cardinality(DOMAIN c), off + cnt}) - 1 |->
        IF b >= off /\ b < off + cnt THEN Val(w, b - off)
        ELSE IF b \in DOMAIN c THEN c[b] ELSE Stale]

Init ==
    /\ mem = [x \in Bytes |-> x]
    /\ \E s \in InitStates :
          /\ ino = s.ino /\ others = s.occ
          /\ used = s.occ \cup (IF s.ino.level = NONE THEN {}
                                ELSE GroupOf(s.ino.block, s.ino.level))
    /\ pc = "idle" /\ after = "idle"
    /\ req = [off |-> 0, cnt |-> 0, w |-> 0]
    /\ ori = 0 /\ rsz = 0 /\ nb = 0 /\ stg = 0
    /\ win = [start |-> 0, num |-> 0]
    /\ ret = 0 /\ pre = <<>> /\ calls = 0
    /\ flags \in FdFlags /\ op = "none" /\ keep = FALSE /\ rd = <<>>
    /\ foff = 0 /\ viafd = FALSE
    /\ cont = File(ino, mem)

\* ctfs_pwrite_atomic, up to the staging allocation: under inode_rw_lock,
\* a write at or past i_size is a pure append and goes to
\* ctfs_pwrite_normal, which takes the lock again and resizes if the end,
\* a size_t sum, is past i_size; an overwrite that ends past i_size first
\* resizes the file to its end.
CallAt(off, cnt) ==
    /\ pc = "idle" /\ calls < MaxCalls /\ flags # "rdonly"
    /\ LET end == Word(off + cnt)
       IN  /\ after' = IF ino.size <= off THEN "ncopy" ELSE "stage"
           /\ pc' = IF end > ino.size THEN "resize" ELSE after'
           /\ rsz' = end
    /\ calls' = calls + 1
    /\ req' = [off |-> off, cnt |-> cnt, w |-> calls + 1]
    /\ ori' = ino.size /\ pre' = File(ino, mem) /\ op' = "write"
    /\ UNCHANGED <<mem, used, ino, nb, stg, win, ret, others, flags, keep, rd, cont,
                   foff>>

\* ctfs_pwrite(fd, buf, cnt, off).
Call(r) == CallAt(r.off, r.cnt) /\ viafd' = FALSE

\* ctfs_write: ctfs_pwrite at the descriptor's offset, which advances by
\* what it returns if that is positive (see Returned).
Write(c) == CallAt(foff, c) /\ viafd' = TRUE

\* The descriptor offset after a call that returned n.
Returned(n) == IF viafd /\ n > 0 THEN Word(foff + n) ELSE foff

\* inode_resize(inode, rsz) -> inode_resize_lvl(inode, pgg_get_lvl(rsz)).
\* A file without a group gets one (pgg_allocate's result is not
\* checked); a file whose level is too small allocates the larger group
\* (not checked either); otherwise only i_size changes.  inode_resize then
\* sets i_size = rsz and calls the inode back.
ResizeFirst ==
    /\ pc = "resize" /\ ino.level = NONE
    /\ LET l == GetLvl(rsz)
       IN  \E b \in Alloc(used, l) :
              /\ ino' = [size |-> rsz, block |-> b, level |-> l]
              /\ used' = Take(used, b, l)
    /\ pc' = after
    /\ UNCHANGED <<mem, after, req, ori, rsz, nb, stg, win, ret, pre, calls, fdv, cont>>

ResizeAlloc ==
    /\ pc = "resize" /\ ino.level # NONE /\ ino.level < GetLvl(rsz)
    /\ \E b \in Alloc(used, GetLvl(rsz)) :
          /\ nb' = b
          /\ used' = Take(used, b, GetLvl(rsz))
    /\ pc' = "rs_swap"
    /\ UNCHANGED <<mem, ino, after, req, ori, rsz, stg, win, ret, pre, calls, fdv, cont>>

ResizeSize ==
    /\ pc = "resize" /\ ino.level # NONE /\ ino.level >= GetLvl(rsz)
    /\ ino' = [ino EXCEPT !.size = rsz]
    /\ pc' = after
    /\ UNCHANGED <<mem, used, after, req, ori, rsz, nb, stg, win, ret, pre, calls, fdv, cont>>

\* Mutant: the swap covers the new level's size.
ResizeSwap_newSize ==
    /\ pc = "rs_swap"
    /\ mem' = Pswap(mem, nb, ino.block, GroupPages[GetLvl(rsz)])
    /\ pc' = "rs_free"
    /\ UNCHANGED <<used, ino, after, req, ori, rsz, nb, stg, win, ret, pre, calls, fdv, cont>>

\* dax_pswap(new, i_block, pgg_size[i_level] >> 12).
ResizeSwap ==
    /\ pc = "rs_swap"
    /\ mem' = Pswap(mem, nb, ino.block, GroupPages[ino.level])
    /\ pc' = "rs_free"
    /\ UNCHANGED <<used, ino, after, req, ori, rsz, nb, stg, win, ret, pre, calls, fdv, cont>>

\* pgg_deallocate(i_level, i_block): the old group, which now holds what
\* the new group held.
ResizeFree ==
    /\ pc = "rs_free"
    /\ used' = used \ GroupOf(ino.block, ino.level)
    /\ pc' = "rs_set"
    /\ UNCHANGED <<mem, ino, after, req, ori, rsz, nb, stg, win, ret, pre, calls, fdv, cont>>

\* Mutant: i_level is not updated.
ResizeSet_keepLevel ==
    /\ pc = "rs_set"
    /\ ino' = [size |-> rsz, block |-> nb, level |-> ino.level]
    /\ pc' = after
    /\ UNCHANGED <<mem, used, after, req, ori, rsz, nb, stg, win, ret, pre, calls, fdv, cont>>

\* i_block = new, i_size = pgg_size[lvl], i_level = lvl, written back; then
\* inode_resize sets i_size = rsz and calls the inode back again.
ResizeSet ==
    /\ pc = "rs_set"
    /\ ino' = [size |-> rsz, block |-> nb, level |-> GetLvl(rsz)]
    /\ pc' = after
    /\ UNCHANGED <<mem, used, after, req, ori, rsz, nb, stg, win, ret, pre, calls, fdv, cont>>

\* ctfs_pwrite_normal after its resize: the buffer is copied in place.
NormalCopy ==
    /\ pc = "ncopy"
    /\ mem' = Put(mem, Word(ino.block * P + req.off), 0, req.cnt, req.w)
    /\ ret' = req.cnt /\ pc' = "idle" /\ foff' = Returned(req.cnt)
    /\ cont' = Written(cont, req.off, req.cnt, req.w)
    /\ UNCHANGED <<used, ino, after, req, ori, rsz, nb, stg, win, pre, calls,
                   others, flags, op, keep, rd, viafd>>

\* pgg_allocate(i_level) for the staging group.
StagingAlloc ==
    /\ pc = "stage" /\ FreeGroups(used, ino.level) # {}
    /\ \E b \in FreeGroups(used, ino.level) :
          /\ stg' = b /\ used' = Take(used, b, ino.level)
    /\ pc' = "copy"
    /\ UNCHANGED <<mem, ino, after, req, ori, rsz, nb, win, ret, pre, calls, fdv, cont>>

\* new == 0: "OUT of SPACE", unlock and return 0 (after any resize).
OutOfSpace ==
    /\ pc = "stage" /\ FreeGroups(used, ino.level) = {}
    /\ ret' = 0 /\ pc' = "idle" /\ cont' = Sized(cont, ino.size)
    /\ UNCHANGED <<mem, used, ino, after, req, ori, rsz, nb, stg, win, pre, calls, fdv>>


\* Mutant: a write ending inside its first page leaves the rest of that
\* page of the staging group as it was.
Staged_noTail(m, b, s, off, cnt, osz, isz, w) ==
    LET res == off % P
        c0 == off - res
        short == res # 0 /\ cnt < P - res
        mh == Copy(m, s + c0, b + c0, res)
        m1 == CASE res = 0 -> m
                [] short -> Put(mh, s + off, 0, cnt, w)
                [] OTHER -> Put(mh, s + off, 0, P - res, w)
        r1 == IF res = 0 THEN cnt ELSE cnt - (P - res)
        c1 == IF res = 0 THEN off ELSE c0 + P
        n == r1 - (r1 % P)
        m2 == Put(m1, s + c1, cnt - r1, n, w)
        r2 == r1 - n
        c2 == c1 + n
        e == Min({c2 + P, isz})
        m3 == IF r2 = 0 THEN m2
              ELSE Copy(Put(m2, s + c2, cnt - r2, r2, w),
                        s + c2 + r2, b + c2 + r2, e - c2 - r2)
    IN  IF short THEN [m |-> m1, start |-> c0, num |-> 1]
        ELSE [m |-> m3, start |-> c0,
              num |-> (IF res = 0 THEN 0 ELSE 1) + n \div P
                        + (IF r2 = 0 THEN 0 ELSE 1)]

\* The staging copy of ctfs_pwrite_atomic at file offsets off .. off+cnt-1,
\* group base b and staging s (bytes): the head page's bytes before off
\* come from the file, and a write that ends inside that page (goto
\* end_cpy) also takes the rest of the page from the file if ori_size goes
\* past it; then the whole pages; then the tail, whose page is filled from
\* the file up to i_size.  The result holds the arena and the swap window
\* [start, start + num pages) of the file.
Staged(m, b, s, off, cnt, osz, isz, w) ==
    LET res == off % P
        c0 == off - res
        short == res # 0 /\ cnt < P - res
        mh == Copy(m, s + c0, b + c0, res)
        m1 == CASE res = 0 -> m
                [] short /\ osz > off + cnt ->
                      Copy(Put(mh, s + off, 0, cnt, w),
                           s + off + cnt, b + off + cnt, P - res - cnt)
                [] short -> Put(mh, s + off, 0, cnt, w)
                [] OTHER -> Put(mh, s + off, 0, P - res, w)
        r1 == IF res = 0 THEN cnt ELSE cnt - (P - res)
        c1 == IF res = 0 THEN off ELSE c0 + P
        n == r1 - (r1 % P)
        m2 == Put(m1, s + c1, cnt - r1, n, w)
        r2 == r1 - n
        c2 == c1 + n
        e == Min({c2 + P, isz})
        m3 == IF r2 = 0 THEN m2
              ELSE Copy(Put(m2, s + c2, cnt - r2, r2, w),
                        s + c2 + r2, b + c2 + r2, e - c2 - r2)
    IN  IF short THEN [m |-> m1, start |-> c0, num |-> 1]
        ELSE [m |-> m3, start |-> c0,
              num |-> (IF res = 0 THEN 0 ELSE 1) + n \div P
                        + (IF r2 = 0 THEN 0 ELSE 1)]

CopyToStaging ==
    /\ pc = "copy"
    /\ LET st == Staged(mem, ino.block * P, stg * P, req.off, req.cnt, ori,
                        ino.size, req.w)
       IN  /\ mem' = st.m
           /\ win' = [start |-> st.start, num |-> st.num]
    /\ pc' = "swap"
    /\ UNCHANGED <<used, ino, after, req, ori, rsz, nb, stg, ret, pre, calls, fdv, cont>>

\* dax_pswap(base + swap_start, staging + swap_start, swap_num); its
\* return value is ignored.
Swap ==
    /\ pc = "swap"
    /\ mem' = Pswap(mem, ino.block + win.start \div P, stg + win.start \div P,
                    win.num)
    /\ pc' = "free"
    /\ UNCHANGED <<used, ino, after, req, ori, rsz, nb, stg, win, ret, pre, calls, fdv, cont>>

\* pgg_deallocate(i_level, new), i_finish_swap = 0, unlock, return count.
Release ==
    /\ pc = "free"
    /\ used' = used \ GroupOf(stg, ino.level)
    /\ ret' = req.cnt /\ pc' = "idle" /\ foff' = Returned(req.cnt)
    /\ cont' = Written(cont, req.off, req.cnt, req.w)
    /\ UNCHANGED <<mem, ino, after, req, ori, rsz, nb, stg, win, pre, calls,
                   others, flags, op, keep, rd, viafd>>

\* The early returns on the descriptor's access mode: ctfs_pwrite_atomic,
\* ctfs_ftruncate and ctfs_fallocate need O_WRONLY or O_RDWR, ctfs_pread
\* refuses O_WRONLY (EBADF).  Each returns -1 and changes nothing.
Refused(o) ==
    /\ pc = "idle" /\ calls < MaxCalls
    /\ \/ o \in {"write", "trunc", "falloc"} /\ flags = "rdonly"
       \/ o = "read" /\ flags = "wronly"
    /\ ret' = -1 /\ op' = o /\ calls' = calls + 1
    /\ UNCHANGED <<mem, used, ino, pc, after, req, ori, rsz, nb, stg, win, pre,
                   others, flags, keep, rd, cont, foff, viafd>>

\* ctfs_pread under inode_rw_lock: nothing at or past i_size; a read
\* that reaches i_size is cut to it; the bytes are copied from the group.
PreadAt(off, cnt) ==
    /\ pc = "idle" /\ calls < MaxCalls /\ flags # "wronly"
    /\ LET n == IF off >= ino.size THEN 0
               ELSE IF Word(off + cnt) >= ino.size THEN ino.size - off
               ELSE cnt
       IN  /\ rd' = [k \in 0 .. n - 1 |-> mem[ino.block * P + off + k]]
           /\ ret' = n
    /\ req' = [off |-> off, cnt |-> cnt, w |-> 0]
    /\ op' = "read" /\ calls' = calls + 1
    /\ UNCHANGED <<mem, used, ino, pc, after, ori, rsz, nb, stg, win, pre,
                   others, flags, keep, cont, viafd>>

Pread(r) == PreadAt(r.off, r.cnt) /\ UNCHANGED foff

\* ctfs_read: ctfs_pread at the descriptor's offset, advanced by a
\* positive result.
Read(c) == PreadAt(foff, c) /\ foff' = IF ret' > 0 THEN Word(foff + ret') ELSE foff

\* ctfs_lseek: the offset is an int converted to the size_t field; the
\* clamp of SEEK_CUR (offset < 0) compares an unsigned value.  It returns
\* 0, or -1 (EINVAL) for an unknown whence.
Lseek(s) ==
    /\ pc = "idle" /\ calls < MaxCalls
    /\ \/ s.whence = "set" /\ foff' = Word(s.off)
       \/ s.whence = "cur" /\ foff' = Word(foff + s.off)
       \/ s.whence = "end" /\ foff' = Word(ino.size + s.off)
       \/ s.whence = "bad" /\ UNCHANGED foff
    /\ ret' = IF s.whence = "bad" THEN -1 ELSE 0
    /\ op' = "seek" /\ calls' = calls + 1
    /\ UNCHANGED <<mem, used, ino, pc, after, req, ori, rsz, nb, stg, win, pre,
                   others, flags, keep, rd, cont, viafd>>

\* Mutant: a shrinking ftruncate leaves i_size as it was.
Ftruncate_noShrink(len) ==
    /\ pc = "idle" /\ calls < MaxCalls /\ flags # "rdonly"
    /\ \/ /\ len > ino.size
          /\ pc' = "resize" /\ after' = "tdone" /\ rsz' = len
          /\ UNCHANGED <<ino, ret, cont>>
       \/ /\ len <= ino.size
          /\ ret' = 0 /\ cont' = Sized(cont, len)
          /\ UNCHANGED <<ino, pc, after, rsz>>
    /\ op' = "trunc" /\ keep' = FALSE /\ calls' = calls + 1
    /\ UNCHANGED <<mem, used, req, ori, nb, stg, win, pre, others, flags, rd, foff, viafd>>

\* ctfs_ftruncate under inode_rw_lock: a longer length goes through
\* inode_resize; a shorter one only sets i_size (the group keeps its
\* level and its bytes); then inode_wb.
Ftruncate(len) ==
    /\ pc = "idle" /\ calls < MaxCalls /\ flags # "rdonly"
    /\ \/ /\ len > ino.size
          /\ pc' = "resize" /\ after' = "tdone" /\ rsz' = len
          /\ UNCHANGED <<ino, ret, cont>>
       \/ /\ len <= ino.size
          /\ ino' = [ino EXCEPT !.size = len]
          /\ ret' = 0 /\ cont' = Sized(cont, len)
          /\ UNCHANGED <<pc, after, rsz>>
    /\ op' = "trunc" /\ keep' = FALSE /\ calls' = calls + 1
    /\ UNCHANGED <<mem, used, req, ori, nb, stg, win, pre, others, flags, rd, foff, viafd>>

\* ctfs_fallocate under inode_rw_lock: an end past i_size goes through
\* inode_resize, and FALLOC_FL_KEEP_SIZE then puts the old i_size back;
\* otherwise only inode_wb.  A mode other than KEEP_SIZE returns -1
\* (EOPNOTSUPP) before the lock is taken.
Fallocate(f) ==
    /\ pc = "idle" /\ calls < MaxCalls /\ flags # "rdonly"
    /\ \/ /\ f.mode = "punch"
          /\ ret' = -1
          /\ UNCHANGED <<pc, after, rsz, ori, keep>>
       \/ /\ f.mode # "punch" /\ f.off + f.len > ino.size
          /\ pc' = "resize" /\ after' = "tdone" /\ rsz' = f.off + f.len
          /\ ori' = ino.size /\ keep' = (f.mode = "keep")
          /\ UNCHANGED ret
       \/ /\ f.mode # "punch" /\ f.off + f.len <= ino.size
          /\ ret' = 0
          /\ UNCHANGED <<pc, after, rsz, ori, keep>>
    /\ op' = "falloc" /\ calls' = calls + 1
    /\ UNCHANGED <<mem, used, ino, req, nb, stg, win, pre, others, flags, rd, cont, foff, viafd>>

\* The end of ftruncate and fallocate after inode_resize: the KEEP_SIZE
\* reset of i_size, inode_wb, unlock, return 0.
ResizeDone ==
    /\ pc = "tdone"
    /\ ino' = IF keep THEN [ino EXCEPT !.size = ori] ELSE ino
    /\ cont' = Sized(cont, ino'.size)
    /\ ret' = 0 /\ pc' = "idle"
    /\ UNCHANGED <<mem, used, after, req, ori, rsz, nb, stg, win, pre, calls, fdv>>

Next ==
    \/ \E r \in Writes : Call(r)
    \/ ResizeFirst \/ ResizeAlloc \/ ResizeSize
    \/ ResizeSwap \/ ResizeFree \/ ResizeSet
    \/ NormalCopy \/ StagingAlloc \/ OutOfSpace
    \/ CopyToStaging \/ Swap \/ Release
    \/ \E o \in {"write", "read", "trunc", "falloc"} : Refused(o)
    \/ \E r \in Reads : Pread(r)
    \/ \E c \in Counts : Write(c) \/ Read(c)
    \/ \E sk \in Seeks : Lseek(sk)
    \/ \E len \in Truncs : Ftruncate(len)
    \/ \E f \in Fallocs : Fallocate(f)
    \/ ResizeDone

Spec == Init /\ [][Next]_vars

-----------------------------------------------------------------------------
PcSet == {"idle", "resize", "rs_swap", "rs_free", "rs_set", "stage", "copy",
          "swap", "free", "ncopy", "tdone"}

TypeOK ==
    /\ mem \in [Bytes -> Nat] /\ used \subseteq Pages
    /\ ino \in [size : 0 .. Limit(TopLvl), block : Pages \cup {NONE},
                level : Lvls \cup {NONE}]
    /\ ino.level # NONE => ino.size <= Limit(ino.level)
    /\ pc \in PcSet /\ after \in PcSet
    /\ nb \in Pages /\ stg \in Pages /\ ret \in Int
    /\ calls \in 0 .. MaxCalls
    /\ flags \in FdFlags /\ keep \in BOOLEAN
    /\ op \in {"none", "write", "read", "trunc", "falloc", "seek"}
    /\ foff \in 0 .. 2 ^ OffBits - 1 /\ viafd \in BOOLEAN

\* The bytes a file must hold after a write of cnt bytes of write w at off
\* to a file that held pre: the buffer inside the range, the old bytes
\* below it; a byte between the old end and off (a hole) may be anything.
Expected(old, off, cnt, w, b) ==
    IF b >= off /\ b < off + cnt THEN Val(w, b - off) ELSE old[b]

\* spec.md 4.5 and the "hello" scenario of section 6: once a call has
\* returned cnt, the file is max(old size, off + cnt) long and holds the
\* buffer at [off, off + cnt) and its old bytes elsewhere; a call that
\* returned 0 (out of space) left the old bytes where they were.  This
\* depends on the staging copy's residues, the swap window, and the level
\* upgrade moving the old bytes into the new group.
WriteResult ==
    (pc = "idle" /\ op = "write" /\ ret >= 0) =>
        LET f == File(ino, mem)
        IN  IF ret = req.cnt
            THEN /\ ino.size = Max({ori, req.off + req.cnt})
                 /\ \A b \in DOMAIN f :
                       b \in ori .. req.off - 1
                         \/ f[b] = Expected(pre, req.off, req.cnt, req.w, b)
            ELSE \A b \in DOMAIN pre : f[b] = pre[b]

\* No copy or swap of a call reaches a page the file does not own: the
\* bytes of the arena's first group (super block and allocator headers,
\* relptr 0) and of other files' groups keep their values.  The swap
\* windows of the level upgrade and of the staging swap are bounded by
\* the groups the allocator gave out.
OthersIntact ==
    \A x \in Bytes : x \div P \in Reserved \cup others => mem[x] = x

\* What a pread returns is what the calls before it define: it is cut at
\* the size those calls left (writes, ftruncate both ways, fallocate with
\* and without KEEP_SIZE, and the out-of-space return after a resize),
\* and every byte it returns that a write or the initial file defined is
\* that byte.  i_size, the group the level upgrade moved the file to and
\* the bytes the staging swap left in it must all agree for this.
ReadResult ==
    (pc = "idle" /\ op = "read" /\ ret >= 0) =>
        LET n == Cardinality(DOMAIN cont)
        IN  /\ ret = IF req.off >= n THEN 0 ELSE Min({req.cnt, n - req.off})
            /\ \A k \in DOMAIN rd :
                  cont[req.off + k] = Stale \/ rd[k] = cont[req.off + k]
=============================================================================
