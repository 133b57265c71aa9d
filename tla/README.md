# TLA+ models of ctFS

This directory holds TLA+ models of the ctFS core (`src/`): the modules, the
TLC configurations that check them, and `PROJECT.json`. That file lists the
components, the runs, the mutants, the map from each definition to the source
lines it translates, the findings and the hazards.

## The system

ctFS is a user-space file system on a persistent-memory arena. Its core has
these parts:

| Part | Source | State |
|---|---|---|
| Page-group allocator | `ctfs_pgg.c`, `ctfs_format.h` | A tree of page-group headers (levels 9 down to 4). Each header has 8 children that are EMPTY, FILE or SUB, plus `cap_lvl`, `sub_pmd_cap` (preferred and available bits per sub-PMD level) and `pmd_type`. Level-3 groups can hold sub-PMD packages: 512, 64 or 8 slots, with slot 0 holding the package header. |
| Bitmaps and bit locks | `ctfs_bitmap.c` | `find_free_bit` (word-wise, starting at a hint), `find_free_bit_tiny`, and spin bit locks. |
| Inode bitmap allocator | `ctfs_inode.c` (`inode_alloc`, `inode_dealloc`) | The bitmap at `CT_OFFSET_IBMP`, zeroed lazily page by page (`inode_bmp_touched`), plus `inode_used` and `inode_hint` in the superblock. |
| Inode manager and path resolver | `ctfs_inode.c` | Inodes, directory-entry arrays, hashed per-inode topology (`rt`) and data (`rw`) lock slots, and the lock-coupled path walk with its create and install modes. |
| File operations | `ctfs_func.c`, `ctfs_func2.c` | The descriptor table and the open/read/write/mkdir/rename/unlink/rmdir/truncate entry points. |
| Atomic write | `ctfs_func.c` (`ctfs_pwrite_atomic`, `ctfs_pwrite_normal`), `ctfs_inode.c` (`inode_resize`), `lib_dax.c` | A staging page group of the file's level, filled with the old bytes around the write and the new bytes, and swapped into the file with `dax_pswap`. `ctfs_pwrite` takes this path only when `CTFS_ATOMIC_WRITE` is defined (it is commented out in `ctfs_config.h`). |
| Kernel DAX device | `kernel/device.c`, `kernel/dax-private.h` | The device's own page table in persistent memory (PUD, PMD and PTE entries, `pswap_state` in the master page), the volatile `pswap_temp`, and the process page table that `install_pmd` fills on a fault. `dax_pswap` exchanges the entries of two ranges in three steps. |
| Failsafe frames | `ctfs_failsafe.c` | Volatile stage markers that no core function calls. |
| POSIX wrapper | `ctfs_wrapper.c` | No state of its own. It interposes `open`, `close`, `unlink` and the other calls: paths starting with `\` go to ctFS only, and relative paths go to ctFS first and to the host on -1. ctFS descriptors are returned plus `CT_FD_OFFSET` (1024), and a call on `fd >= CT_FD_OFFSET` goes to ctFS. |

How the parts interact:

- A path enters the resolver, which locks inodes top-down and returns the target locked, and its parent too when asked.
- Resizes call `inode_resize`, which calls `pgg_allocate` and `pgg_deallocate` under the global `pgg_lock`.
- Creates call `inode_alloc` under `inode_bmp_lock`.
- A level upgrade in `inode_resize_lvl` and every atomic overwrite call `dax_pswap` (`lib_dax.c`), an ioctl that the kernel serves under `dax_lock` (`dax_handle_pswap` → `dax_pswap` in `device.c`).
- The wrapper sits between the application and both ctFS and the host kernel. Each side keeps its own descriptor table, and the wrapper tells them apart only by the number.
- `mkfs` builds the top header chain, allocates inodes 0 and 1, and gives the root directory a level-3 block.

## Modules

| Module | Models | State | Actions |
|---|---|---|---|
| `PggAlloc` | `pgg_allocate`, `pgg_deallocate`, `pgg_mkfs` and every helper they call | `hdr` (path of child indices → header), `pkg` (level-3 path → package header), `nextSubLvl`, `live` (bag of the regions callers hold), `last` (the last call and its outcome) | `AllocateBig(l)`, `AllocateSmall(l)`, `DeallocateBig(a)`, `DeallocateSmall(a)` |
| `Bitmap` | `find_free_bit`, `find_free_bit_tiny` | none | operators, used by `PggAlloc` and `InodeAlloc` |
| `InodeAlloc` | `inode_alloc`, `inode_dealloc`, the allocations of `ctfs_mkfs` | `bmp`, `touched`, `used`, `hint`, `overrun`, `files` (bag of inode numbers `inode_create` installed) | `InodeAlloc`, `InodeDealloc(i)` |
| `Directory` | `inode_path2inode`, `inode_create`, `inode_dir_fill`, `inode_set_root`; the namespace effect of `ctfs_open(O_CREAT)`, `ctfs_mkdir`, `ctfs_unlink`, `ctfs_rmdir`, `ctfs_rename` | `ent` (directory inode → dirent slots `[ino, name]`), `size` (`i_size` in dirents), `nd` (`i_ndirent`), `isdir`, `alloc` (inodes in use), `pending` (the inode a rename holds between its phases) | `Create(p, mkdir)`, `Unlink(p)`, `Rmdir(p)`, `RenameUnlink(p, q)`, `RenameNotDir`, `RenameReplace`, `RenameInstallHere`, `RenameInstallCreate` |
| `PathLock` | the rt lock and unlock steps of `inode_path2inode` and `inode_create`, `open_lock`, and the releases made by `ctfs_open`, `ctfs_mkdir`, `ctfs_unlink`, `ctfs_rmdir`, `ctfs_rename` | `bits` (set rt lock bits), `openLock`, `linked` (tree positions with an entry), per thread `pc`, `goal`, `k`, `cur` (`c`), `par` (`frame->parent`), `flag` (`frame->flag`), `job` (its call), and the model-only `holds` | one action per lock, unlock or entry write: `LockRoot`, `Descend`/`Couple`, `ReachedParent`/`LockTarget`, `ReachedNoParent`/`LockFinal`/`UnlockPrev`, `ReachedInstall`, `InstallHere`, `NotFound`, `CreateMid`/`CreateCouple`, `CreateLast`/`CreateLock`/`Publish`, `CreateInstall`, and the callers' `OpenUnlock`, `OpenRelease`, `MkdirUnlock`, `UnlinkUnlock`, `RmdirUnlock`, `UnlockParent`, `RenameUnlink`, `RenameUnlockCur`, `RenameDone`, `Fail` |
| `PageSwapSpec` | the `swap_pages` contract of `spec.md` section 1 | `mapping` (page → frame) | `Swap(r)`: the two ranges exchange their frames in one step |
| `PageSwap` | `dax_pswap` of `device.c` (aligned and unaligned), `dax_downgrade_huge`, the process page-table walk after it, `dev_dax_huge_fault` → `install_pmd`, and a power failure with the restart in `get_dax_runtime` | `mem` / `pmem` (table entries and `pswap_state` as the CPU sees them and as persisted), `used` (PTE tables), `temp` (`pswap_temp`), the walk's `pc`, `step`, `seg`, `cur`, `rem`, `i`, `ti`, `vpn`, `loc`; `proc`, `pk` (process PTEs and PMD kinds), `shoot` (`shoot_pmd`); history `before`, `req`, `pcoh` | `Call(r)`, `Reject(r)`, `CopyToTemp`, `CopySecondToFirst`, `CopyTempToSecond`, `NextSegment`, `StartStep`, `Finish`, `ProcSegment`, `ProcUnaligned`, `NullDeref`, `FaultInstall(p)`, `FaultRefill(p)`, `Crash` |
| `AtomicWrite` | `ctfs_pwrite` (`ctfs_pwrite_atomic` with its fall-through to `ctfs_pwrite_normal`), `inode_resize` and `inode_resize_lvl`, `ctfs_pread`, `ctfs_write`, `ctfs_read`, `ctfs_lseek`, `ctfs_ftruncate`, `ctfs_fallocate` on one descriptor | `mem` (the arena's bytes), `used` (allocated pages), `ino` (`i_size`, `i_block`, `i_level`), `pc`, `req`, `ori` (`ori_size`, or fallocate's `old`), `rsz`, `nb`, `stg`, `win` (`swap_start`, `swap_num`), `ret`; the descriptor's `flags` and `foff` (`offset`), `keep`, `rd` (the read buffer); history `pre`, `cont` (the content the calls define) | `Call(r)`, `Write(c)`, `ResizeFirst`, `ResizeAlloc`, `ResizeSize`, `ResizeSwap`, `ResizeFree`, `ResizeSet`, `NormalCopy`, `StagingAlloc`, `OutOfSpace`, `CopyToStaging`, `Swap`, `Release`, `Refused(o)`, `Pread(r)`, `Read(c)`, `Lseek(s)`, `Ftruncate(len)`, `Fallocate(f)`, `ResizeDone` |
| `FdTable` | the descriptor table `ct_rt.fd[]` under `open_lock` (`ctfs_init`, `ctfs_open`, `ctfs_openat`, `ctfs_close`, and `ctfs_unlink` freeing the inode), and the wrapper's `OPEN`, `OPENAT`, `CLOSE` and `UNLINK` routing between ctFS and the host | `fd` (slot → inode), `openLock` (its holder), `dir` (name → inode), `alloc`, `gen` (allocations per inode number, history), `host` (host descriptor → host file), `hostDir` (host names), per thread `pc`, `req`, `slot`, `got` (`frame.current`), `handles` (the descriptors the application holds), `ncalls` | `StartOpen(t, c)`, `OpenLock(t)`, `Scan(t)`, `Resolve(t)`, `Install(t)`, `HostOpen(t)`, `Close(t, h)`, `Unlink(t, c)`, `HostUnlink(t)` |
| `MC_PggAlloc`, `MC_InodeAlloc`, `MC_Directory`, `MC_PathLock`, `MC_PageSwap`, `MC_AtomicWrite`, `MC_FdTable` | the TLC instantiations | | |

### PggAlloc

- **Scaling.** Fanout and the top level are constants. The code has 8 and 9; the models use 3 and 6. Addresses are counted in level-0 pages.
- **Atomicity.** Each allocator call is one step, because both entry points run entirely under `pgg_lock`. The lock is released twice only for a level above `PGG_LVL9`, which no modelled call requests; that is a hazard.
- **Helpers are operators, not actions.** The operators return `[s, res, a]`: the new state, the outcome and the region handed out. Every helper the code calls inside a call is an operator applied within that call's action: cap updates, package builds, the hint rotation and the "package became full" update.
- **Failed asserts abort.** A failed `assert` aborts the process. The outcome is then `"abort"`, and the state keeps what the code had already written to persistent memory.
- **Reading file data as a package header.** This happens when a preferred-path candidate is a FILE slot with a default `pmd_type`. It is modelled as an abort, because `__pgg_sub_pmd_alloc` asserts the level it reads.

### InodeAlloc

- **Garbage in untouched pages.** Bitmap pages beyond `inode_bmp_touched` start with arbitrary content: `Init` ranges over every old bitmap. This is because `ctfs_mkfs` resets the device only when asked to.
- **Atomicity.** Both calls hold `inode_bmp_lock` throughout, so each is one step.
- **The caller is modelled too.** The model includes `inode_create`'s use of the result, since it installs whatever number comes back.

### Directory

- **Walk.** `Walk` is the lookup loop of `inode_path2inode`. It scans slots below `i_size` whose `d_ino` is set and takes the first matching name. A component that is not a directory gives ENOTDIR; the first component with no entry gives "missing".
- **Two ways to take a slot.** `CreateSlot` and `Grow` are `inode_create`'s way: the first slot past `i_size`, or a free one, with `i_ndirent++` in both cases. `Install` is the install branch's way: the first slot at `i_ndirent` (counted) or a free one below it (not counted). It resizes to `i` dirents in `inode_path2inode` and to `i + 1` in `inode_create`.
- **Atomicity.** Each call is one step, because it holds the topology locks of the directories it changes (`PathLock` models their protocol). Rename's two phases are two steps with every lock dropped between them, and any other call can run in that gap.
- **Inode numbers.** With fewer than 64 inodes, `find_free_bit` searches one word, so `inode_alloc` returns the lowest clear bit (`FreshIno`). Running out of inodes is left to `InodeAlloc`: here a call that would run out is not taken.
- **Links and data blocks.** `ctfs_link` never links, so every inode has `i_nlink = 1`. Regular files have no data block in this model, and directories always have one. This is what decides whether rename's replacement frees the old inode.
- **Unread content is left out.**
  - Slots of a new block that were never written are `Blank`: no path reads a slot before writing it.
  - The passing runs use a VIEW that ignores the name left in a slot whose `d_ino` is 0; every scan tests `d_ino` first.
- **`i_ndirent` is a `size_t`.** A decrement below 0 is kept as a negative number, and `USize` compares it as the large unsigned value it stands for.

### PathLock

- **Lock bits.** An rt lock is bit `n % CT_INODE_BITLOCK_SLOTS` of one array. `Lock` is the fetch-and-or that finds the bit clear (spinning is not a step); `Unlock` clears the bit whoever set it, as `bitlock_release` does. `SlotOf` maps positions to bits, so shared bits (the SAME-flag cases, and hash collisions) can be configured.
- **Tree of positions.** The tree is fixed (`Parent`); a position is `linked` while its parent's block has an entry for it. A lookup asks only whether the component is linked: which slot holds it, and `i_ndirent`, are `Directory`'s business. A position created again is a fresh empty directory (`Link` unlinks everything below it), and an inode's number is its position's.
- **Granularity.** Every lock, every unlock and every write of `d_ino` another thread can see is a step of its own, so the windows between them are explored. Work done while holding the needed locks is folded into the adjacent step.
- **Jobs.** Each thread makes one call, chosen in `Init` from `JobSet`. The calls whose every run leaks a lock (`ctfs_truncate`, `ctfs_link`, `ctfs_rmdir` of a file) are not among them; see the hazards.
- **`holds`.** The bits each frame believes it holds exist only in the model. They make double releases and leaks visible.

### FdTable

- **Steps.** `ctfs_open` is four steps:
  - `OpenLock` is the spin on `open_lock`.
  - `Scan` finds the first slot with a NULL inode. A full table returns ENFILE and releases the lock.
  - `Resolve` is `inode_path2inode`. It finds the name, or creates it with O_CREAT. A missing name without O_CREAT returns ENOENT and releases the lock.
  - `Install` stores the inode in the slot and releases the lock.
- **What `Resolve` leaves out.** Its rt locks (the `PathLock` model) make the lookup atomic against an unlink, so it is one step. The window it leaves is the one between `inode_rt_unlock` (line 163) and the store (line 165).
- **Other steps.**
  - `ctfs_openat` follows the same steps and returns 0.
  - `ctfs_close` clears a slot without the lock.
  - `ctfs_unlink` clears the entry and frees the inode. It takes no `open_lock` and reads no slot.
- **Abstractions.** One directory of regular files. `inode_alloc` returns any free number (the bitmap is `InodeAlloc`'s). openat uses a `\`-prefixed absolute path, so its `dirfd` checks are not taken (see the hazard at `ctfs_wrapper.c:515`).
- **The wrapper.**
  - A call's `path` is `"ct"` (starts with `\`, ctFS only) or `"rel"` (relative).
  - When ctFS returns -1 for a relative path, `Failed` sends the thread to `HostOpen` or `HostUnlink`, the host's `open` or `unlink` of the same name. The host hands out its lowest free descriptor.
  - `Install` returns `slot + CT_FD_OFFSET` (`AppFd`).
  - `Close` routes by `fd >= Offset`.
  - Absolute paths, which go to the host only, and the other forwarded calls are not modelled: those calls only subtract the offset.
- **`handles`.** A thread keeps the descriptors it was given: the number, which side opened it, and the inode (or host name) with its `gen`. It closes only those.
- **Frame locals.** `slot` and `got` are reset when the ctFS call returns (`Return`), as the C frame is gone.

### PageSwap

- **Scaling.** `E` stands for the 512 entries of a PTE, PMD and PUD table; the runs use 4. The region spans `NPud` = 2 PUD entries, so 32 pages. A cache line holds `Line` = 2 entries (8 in the code), and the unaligned limit of 64 pages is `UnalignedMax` = 2.
- **Persistence.** Every store goes to `mem`. It reaches `pmem` when an `arch_wb_cache_pmem` of the code covers its line (`Flush`, `RangeLines`, `WbAfter`), or when `Crash` finds the line already evicted: any set of dirty lines may be. `pswap_temp` is `kmalloc`'d and is lost.
- **The walk.** An aligned request runs three steps. Each step walks up to five segments (`Order`, entered when `Enters` holds), one loop iteration per action. `Iterate` carries each segment's loop condition and its breaks. `Entry` names the entry that an iteration of a segment reads or writes in each range. Step 0 also records the PMD entries it found (`loc`) and downgrades huge entries first (`Downgrade`). An unaligned request is the segment `"una"`.
- **Process page table.** `Finish` starts the walk over the process table ("real page table"). `ProcSegment` applies a segment:
  - a page residue swaps the PTEs when both sides have a PTE table and nothing was downgraded, and shoots both PMD entries down otherwise (`PageResidue`);
  - PMD and PUD segments swap the entries (`PmdSwap`).
  `ProcUnaligned` is the unaligned branch. `NullDeref` is its shoot-down when neither side has a PTE table, which dereferences NULL. Faults fill the process table between calls: `FaultInstall` for a PMD entry that is none, and `FaultRefill` for `install_pmd`'s branch for a present PTE table.
- **Refinement.** `AbsMapping` maps the state to `PageSwapSpec`'s `mapping`: the device table's page → frame function outside a call, and the mapping at the start of the call while one is in progress. `Refines` asserts that `PageSwapSpec!Spec` holds. The first conjunct of `PageSwapSpec!Swap` only speeds up the check; it follows from the second.

### AtomicWrite

- **Bytes with a provenance.** The arena is byte-addressed, and each byte holds a value that says where it came from: its initial address, or `Val(w, k)` for byte `k` of write `w`'s buffer. A byte the staging copy misplaces, loses or takes from the wrong group is therefore visible.
- **One inode, serial calls.** A call holds the inode's `inode_rw_lock` from start to end, so the calls on one inode are serial. The steps are still separate actions, in the code's order: resize, staging allocation, staging copy, swap, free.
- **The swap is the contract.** `Pswap` is `PageSwapSpec!Swapped` at byte granularity. `PageSwap` checks how the kernel implements it (it does so only without crashes).
- **The allocator is abstract.** `Alloc` hands out any free group of the level, aligned to its size, and returns 0 only when none is free. `PggAlloc` checks that the real allocator does this (`NoOverlap`, `FailsOnlyWhenFull`). Neither `inode_resize_lvl` allocation checks for 0; `ResizeFirst` and `ResizeAlloc` use the result as it is.
- **The other calls on the descriptor.**
  - `Refused` is the access-mode early return of each call.
  - `Pread` cuts the read at `i_size`. `Ftruncate` shrinks by setting `i_size` only, and grows through `inode_resize`.
  - `Fallocate` grows through `inode_resize` and, with `KEEP_SIZE`, puts the old `i_size` back (`ResizeDone`).
  - `Write` and `Read` use and advance the descriptor offset.
  - `Lseek` sets the offset, which is a `size_t`: all offset arithmetic is modulo `2^OffBits` (`Word`), so the `offset < 0` clamp of `SEEK_CUR` never fires.
- **Intended content.** `cont` records the content that the calls so far define. A write puts its buffer. A truncate or a grow cuts or extends it, and grown bytes are `Stale`: ctFS does not zero them, and the spec does not say what they hold. `ReadResult` compares each read with it.
- **The staging copy is an operator.** `Staged` computes the staging bytes and the swap window. It translates the head residue, including the `goto end_cpy` branch for a write inside one page, the whole pages and the tail residue. It is checked against the reference `Expected` of `WriteResult`.

## Runs

| Run | Result | What it shows |
|---|---|---|
| `pgg_big` | pass, 593,884 states | Large allocations and frees at levels 3–5, mixed with level-0 sub-PMD allocations from the package `pgg_mkfs` builds, with up to 5 live regions. Checks `NoOverlap` (live regions disjoint, never covering a header page), `CapExact` (every `cap_lvl` below the top equals the largest level its subtree can still give out) and `FailsOnlyWhenFull`. |
| `pgg_small_overlap` | violation | `NoOverlap`: a package built on the available path leaves its slot EMPTY, and a level-3 allocation takes the same group. |
| `inode_live` | pass, 7,248 states | `InodesExclusive`: over every initial garbage bitmap, no inode is handed out twice and every held inode stays marked. |
| `dir_ops` | pass, 45,651 states | Without rename: create, mkdir (with intermediate directories), unlink and rmdir on paths of up to two components. `NdirentExact` (`i_ndirent` counts exactly the visible entries) and `EntryNotLost` (no call makes a name it does not name unreachable) hold. Because `ctfs_rmdir`'s emptiness test is `i_ndirent == 2`, `NdirentExact` also means rmdir removes only empty directories; a separate property would add nothing. |
| `dir_rename` | pass, 15,430 states | Every call, both phases of rename included: `ReachAllocated`, so no visible entry ever names a freed inode. |
| `dir_rename_lost` | violation | `EntryNotLost`: `rename a/x b` into a root whose slots are all in use appends `b` at slot `i_size`. The resize is to `i` dirents, not `i + 1`, so no lookup ever finds `b`. |
| `path_calls` | pass, 122,763 states | Three threads, each making one of seven calls (open, open with O_CREAT, mkdir, unlink, rmdir, two renames). `LocksBalanced` (every set bit is held by exactly one frame, and a returned call holds nothing) and `Terminates` (every call returns) hold. |
| `path_walk_race` | violation | `DirAccessGuarded`: open `/a/d/h` unlocks `a` before locking `d`; rmdir `/a/d` runs in that window, and the lookup then scans the removed `d`. |
| `page_swap` | pass, 211,093 states | Two calls over a mix of the request shapes ctFS issues, with page faults on five PMD slots, and no crash. `Refines`: every completed call exchanged exactly the two ranges, at every granularity the walk used, and left every other page alone. `AlignedSwapCoherent`: an aligned call that finds the process table agreeing with the device table leaves the two agreeing. |
| `page_swap_crash` | violation | `CrashAtomic`: one call and one power failure. The recovery in `get_dax_runtime` is commented out and `pswap_temp` is volatile. A crash after step 1 of a one-page swap therefore leaves both ranges on the second range's frame, and the first range's frame is lost. |
| `fd_calls` | pass, 395,074 states | Two threads, three calls each, through the wrapper, over two ctFS slots and two host descriptors. The calls are relative open of `a` with and without O_CREAT, `\b` with O_CREAT, close, and relative unlink of `a`. `HandleExclusive`: no two descriptors the application holds are the same, because `open_lock` orders the scan and the store of racing opens. `HandleRouted`: every descriptor is routed to the table slot holding the file it opened. `NoLeakedSlot`: every filled slot of either table belongs to a descriptor the application holds. `OpenReturns`: every open returns with `open_lock` released, on all three exits and after a fall-back. |
| `atomic_write` | pass, 769,640 states | Three calls on a descriptor of each access mode: `pwrite` (appends, overwrites inside a page, across pages and across the level limit), `write` and `read` at the descriptor offset, forward `lseek`, `pread`, `ftruncate` both ways, and `fallocate` with and without `KEEP_SIZE` and with an unsupported mode. They start from an empty file, or from a six-byte file in an arena with one level-4 group free, so that the staging allocation after an upgrade fails. `WriteResult`: after a call that returned `count`, the file is `max(old size, end)` long and holds the buffer inside the range and the old bytes elsewhere; after an out-of-space return, its old bytes are intact. `OthersIntact`: no copy or swap, the level upgrade's included, reaches the reserved first group or another file's pages. `ReadResult`: every `pread` and `read` returns the size and the bytes that the earlier calls defined. |

### Mutants

Every property of a passing run has a mutant (listed in `PROJECT.json`) that TLC catches. One result is worth calling out. In `InodeAlloc`, the obvious fix for `inode_used` never decreasing is `InodeDealloc_decUsed`, and it breaks `InodesExclusive`. The lazy memset is correct only because `inode_used` counts lifetime allocations. So that bug cannot be fixed on its own: the memset trigger has to change with it.

Other faults seen while modelling have no run of their own; they are listed as hazards in `PROJECT.json`:

- `inode_used` never decreasing: `InodeAlloc` with `MaxUsed = 13` shows the lazy memset running past the bitmap;
- `inode_resize_lvl` swapping the file with the arena's first group when no larger group is free (`OthersIntact` fails with the file at page 4 and pages 8–15 taken);
- `ctfs_pwrite_atomic` returning 0 when out of space after it has grown `i_size`;
- `ctfs_lseek`'s `offset < 0` clamp on an unsigned offset. `lseek(fd, -1, SEEK_CUR)` on a new file, then `write(fd, buf, 3)`, wraps the end to 2, and the copy puts `buf[0]` on the last byte of the reserved first group (`OthersIntact` fails with that seek);
- in the kernel: an unaligned shoot-down that leaves a PTE table with holes, which a later fault refills with the wrong frame; a NULL dereference when neither side has a PTE table; `dax_free_pmd` freeing a huge PMD as a PTE table;
- `assert(0)` when the tree is full;
- stale preferred bits after a second package build;
- `inode_create` installing inode 0 from a full bitmap;
- `i_ndirent` one short after a rename into a hole, which then lets rmdir remove a non-empty directory;
- `i_ndirent` one too many after `inode_create` fails with EINVAL on a long name (`NdirentExact` fails after one create of a long name);
- unlink of a non-empty directory;
- a replaced file that is never written keeping its inode;
- a stale `..` after moving a directory;
- two visible entries with one name;
- `inode_create` writing `d_ino` after it released the parent's lock (`DirAccessGuarded` also fails on it);
- the leaks of `ctfs_truncate`, `ctfs_link` and `ctfs_rmdir` of a file;
- `ctfs_openat` returning 0 for every descriptor. With openat among the calls, `HandleExclusive` fails: `open(a)` returns `AppFd(0)`, then `openat(b)` fills slot 1 and also returns `AppFd(0)`. The wrapper's `CREAT` returns 0 as well;
- the wrapper's host fall-back after ENFILE. A relative `open(a, O_CREAT)` on a full table creates a host file `a` beside the ctFS `a`. An invariant that no host descriptor names a file ctFS has fails in 11 steps;
- `OPENAT` passing `dirfd - CT_FD_OFFSET` for `AT_FDCWD`, so `ctfs_openat` reads `ct_rt.fd[]` out of bounds;
- `ctfs_unlink` freeing an inode that a descriptor still holds. `FdTable` reaches this: after `open(a, O_CREAT)` and `unlink(a)`, slot 0 names the freed inode 1, and the next create can allocate it again;
- `pgg_allocate` releasing `pgg_lock` twice for a level above `PGG_LVL9`;
- `pswap_temp` overflowing: an overwrite of pages 1 to 4094 of a 16 MiB group needs 511 + 6 + 511 = 1028 entries, and the buffer holds 1024. The model's `temp` is sized so that no walk overflows it;
- a lock-order deadlock when two parent/child pairs' bits collide in opposite order, or a path ends in `..`.

### Bounds

- **`PggAlloc`.** Fanout 3 gives each header two file slots (1, 2) beside its reserved child 0.
  - The top level 6 puts a level-5 header between the top and the level-4 headers, so cap updates cross an intermediate level.
  - Six live regions are enough to fill a level-4 header and then a level-5 subtree, which makes the cap updates stop and restart.
  - Five live regions with level-0 allocations mixed in still finish within minutes.
- **`InodeAlloc`.** The bitmap has three pages of four bits in two-bit words.
  - The search crosses word and page boundaries.
  - Up to 10 lifetime allocations reach the third page in the passing run; 13 would reach the overrun of the hazard list.
- **`Directory`.** Two names, paths of up to two components and five dirent slots.
  - This is enough for a directory with two entries and a hole, for intermediate-directory creation, and for renames within and between directories.
  - `dir_ops` has four inodes. `dir_rename` has three: rename's misplaced entries make the space grow fast, and three inodes already reach every one of its outcomes (replace, install in place, install after creating a directory, ENOTDIR).

- **`PathLock`.** Six positions (root, `a`, `/g`, `/a/f`, `/a/d`, `/a/d/h`) on two bits. The root, `a` and `g` share bit 0, and `f`, `d`, `h` share bit 1. So every SAME-flag branch is taken, at intermediate and final components and in `inode_create`, while parent/child pairs never order the bits both ways.
  - Three threads with one call each reach every action: two to make a file or directory and one to race it.
  - The race run needs two threads and the two calls that meet in `/a/d`.
  - A map with `h` on bit 0 deadlocks (see the hazards).

- **`FdTable`.** Two threads with three calls each, over two slots, two names and three inode numbers.
  - Two opens fill the table, so the third gets ENFILE.
  - Two threads race for the first free slot.
  - A close frees a slot under a racing scan, and an unlink falls between a `Resolve` and its `Install`.
  - Three inode numbers for two names let an unlinked number be reused.
  - `Offset` = 2 host descriptors stand for `RLIMIT_NOFILE` = `CT_FD_OFFSET` = 1024. Two host descriptors are enough for the fall-backs of both threads to be open at once.
  - The host directory starts empty, so a fall-back open without O_CREAT gets ENOENT, and one with O_CREAT creates the name.
- **`PageSwap`.** The 32 pages and four-entry tables give a request a page residue, a PMD residue and whole PUDs at both ends. Two calls are enough for a second call to meet the downgraded tables, shot-down PMD entries and faults that the first left behind. Five fault slots cover both PUDs, the two sides of the requests and a slot no request touches. The crash run makes one call of each request shape and evicts any set of dirty lines.
- **`AtomicWrite`.** Pages of 4 bytes and levels 3 and 4 of 2 and 4 pages (the factor 8 between levels scaled to 2).
  - The writes start at and off page boundaries, end inside the first page, span whole pages, and cross the level-3 limit.
  - The arena has four level-4 groups, the first reserved. From the empty file every allocation succeeds. From the six-byte file, with pages 10–15 taken, the upgrade always finds the one free level-4 group, and the staging allocation after it fails.
  - Three calls reach an upgrade followed by two more overwrites, a shrink followed by a grow and a read, or a seek, a write and a read.
  - The descriptor calls use counts of 1 and 3 and forward seeks only, so the file stays within the 16 bytes of level 4 and the offset never wraps (the wrap is the hazard above). `OffBits` = 7 makes `size_t` wider than the 64-byte arena, as 64 bits are wider than the real one.

### Fairness and deadlock

Only `path_calls` and `fd_calls` check liveness.
- **`PathLock`.** `Spec` has weak fairness for every thread's step: the OS eventually runs a thread that can run. A thread spinning on a held bit has no enabled step. Each thread makes one call, so weak fairness is enough: once the holders return, the bit stays clear. `CHECK_DEADLOCK FALSE` is set because the state where every call has returned is final. A real deadlock shows up as a violation of `Terminates`.

- **`FdTable`.** `Spec` has weak fairness for every thread's step, for the same reason as in `PathLock`: a thread spinning on `open_lock` has no enabled step, and every call is finite. `CHECK_DEADLOCK FALSE` is set because the state where each thread has made its calls is final. `OpenReturns` catches an exit that keeps the lock.
- **`PggAlloc`.** Deadlock is checked. The root directory's region can always be freed, so a step is always possible.
- **`Directory`.** Deadlock is checked in `dir_ops`. The rename runs set `CHECK_DEADLOCK FALSE`, because the inode bound can leave a rename stuck between its phases when the second phase needs a new directory.
- **`PageSwap`.** `CHECK_DEADLOCK FALSE`: the model stops when `MaxCalls` calls and `MaxFaults` faults are spent, and the oops state of `NullDeref` is final, as the kernel thread is.
- **`AtomicWrite`.** `CHECK_DEADLOCK FALSE`: the model stops when `MaxCalls` calls have returned. No liveness is claimed; every call runs straight through.
- **`InodeAlloc`.** Its cfg sets `CHECK_DEADLOCK FALSE`. The model stops when the bound on lifetime allocations is reached and only the root is held. The code itself can always create.

## Not modelled (yet)

- **The rest of the file operations.** Still to do:
  - the rw data locks;
  - `ctfs_truncate` by path, stat and readdir; openat's `dirfd` checks;
  - several descriptors or threads on one file. They are serialised by `inode_rw_lock`, but their offsets are separate.
  - The rt lock leaks of truncate, link and rmdir of a file are hazards, not calls of `PathLock`.
- **Paths.** Paths with `..` components and components longer than `CT_MAX_NAME` are not among the paths the models try.
- **Crashes of the write path.** `AtomicWrite` has no crash. The windows between `inode_resize` and the swap, and between the swap, the free and the inode update of a level upgrade, are listed as hazards. So is the flushing of the staging copy (`avx_cpy`'s non-temporal stores are not fenced before the ioctl).
- **Concurrent writers on different inodes.** They share only the allocator, which `PggAlloc` models one call at a time.
- **`CTFS_ATOMIC_WRITE_USE_UNDO`.** Not built, and not modelled.
- **Kernel.** Not modelled: the TLB flush, the `pcow` code and the second `dax_pswap` (both `#if 0`), `dax_prefault` (which ctFS does not call), and the device set-up.
- **Failsafe frames.** They are volatile stage markers that nothing persists or reads back. No function outside `ctfs_failsafe.c` calls any `failsafe_*` function, so they change no state any call reaches.
- **The rest of the POSIX wrapper.** Its read, write, lseek, stat, fcntl and dup forwarders only subtract `CT_FD_OFFSET` and call the `ctfs_*` function, which `AtomicWrite` models. Also not modelled: `CREAT` (a hazard), paths that start with `/` (host only), and the constructor that installs the real calls.
- **The glibc FILE shim** (`glibc/ffile.c`). An unbuffered layer with no shared state: `_fopen` turns the mode into open flags and an `lseek`, and every other call forwards once to a `ctfs_*` call that `AtomicWrite` or `FdTable` models. Its defects show up in one thread and a few calls, so a unit test finds them: ctFS ignores `O_TRUNC` and `O_APPEND`, so `"w"` does not truncate; `"r+"` starts at the end; `fwrite` and `fread` return bytes.
- **Out of scope.** The test programs (see `spec.md`).
- **Within `ctfs_pgg.c`.** The allocation protector, whose body is empty.
