------------------------------ MODULE PageSwap ------------------------------
(***************************************************************************)
(* dax_pswap of the kernel DAX device (src/kernel/device.c): the swap of   *)
(* the physical pages behind two equal-length ranges of the mapped region, *)
(* done on the device's own page table, which lives in persistent memory.  *)
(*                                                                         *)
(* The table is a PUD table whose entries point to PMD tables, whose       *)
(* entries are either huge (bit 0 set, DAX_SET_HUGE: E consecutive frames) *)
(* or point to a PTE table.  A request whose two ranges share their offset *)
(* within a PMD ("aligned") is swapped in three steps, each walking the    *)
(* range in up to five segments: the page residue up to the first PMD      *)
(* boundary, the PMD residue up to the first PUD boundary, whole PUDs, the *)
(* PMD residue at the end and the page residue at the end:                 *)
(*   step 0  copies the entries of the first range into pswap_temp, a      *)
(*           kmalloc'd (volatile) buffer;                                  *)
(*   step 1  persists pswap_state = STEP1, copies second -> first;         *)
(*   step 2  persists pswap_state = STEP2, copies temp -> second;          *)
(* and sets pswap_state = NORMAL.  An unaligned request of at most 64      *)
(* pages does the same entry by entry inside one PTE table.                *)
(*                                                                         *)
(* Stores reach persistent memory when arch_wb_cache_pmem writes their     *)
(* cache line back, or when a crash finds the line already evicted: mem is *)
(* what the CPU sees, pmem what survives.  A crash is followed by the      *)
(* restart in get_dax_runtime, whose recovery for pswap_state # NORMAL is  *)
(* commented out.  dax_lock serialises calls; one call runs at a time.     *)
(* The update of the process page table and TLB after the swap is not part *)
(* of this module.                                                         *)
(***************************************************************************)
EXTENDS Naturals, FiniteSetsExt

CONSTANTS
    E,              \* PTRS_PER_PTE = PTRS_PER_PMD = PTRS_PER_PUD (512)
    NPud,           \* PUD entries spanned by the region
    Line,           \* table entries per cache line (8 of 8 bytes)
    UnalignedMax,   \* largest unaligned request accepted (64)
    Requests,       \* records [first, second, npgs], offsets in pages
    MaxCalls,       \* bound on calls of dax_pswap
    MaxCrashes,     \* bound on crashes
    FaultSlots,     \* PMD slots the process touches (page faults)
    MaxFaults       \* bound on page faults

PUD == E * E
Pages == 0 .. NPud * PUD - 1
Idx == 0 .. E - 1
PmdTabs == 0 .. NPud - 1
PteTabs == 0 .. NPud * E - 1

Slots == 0 .. NPud * E - 1          \* PMD slots of the region
SlotOf(v) == v \div E
SlotPages(p) == p * E .. p * E + E - 1
NoFrame == NPud * PUD                 \* a pte or huge PMD that is none

\* f with the n entries from a and the n entries from b exchanged.
SwapRange(f, a, b, n) ==
    [x \in DOMAIN f |-> IF x >= a /\ x < a + n THEN f[x - a + b]
                        ELSE IF x >= b /\ x < b + n THEN f[x - b + a]
                        ELSE f[x]]

NORMAL == 0   \* DAX_PSWAP_NORMAL
STEP1 == 1    \* DAX_PSWAP_STEP1
STEP2 == 2    \* DAX_PSWAP_STEP2

PudKey(u) == <<"pud", 0, u>>
PmdKey(t, j) == <<"pmd", t, j>>
PteKey(t, j) == <<"pte", t, j>>
Marker == <<"master", 0, 0>>   \* master_page->pswap_state and its frame
Keys == {PudKey(u) : u \in PmdTabs} \cup {PmdKey(t, j) : t \in PmdTabs, j \in Idx}
          \cup {PteKey(t, j) : t \in PteTabs, j \in Idx} \cup {Marker}
LineOf(k) == <<k[1], k[2], k[3] \div Line>>

\* PMD entry values: DAX_SET_HUGE / DAX_IF_HUGE / DAX_HUGE2REL on bit 0.
Huge(b) == 2 * b + 1
TableEntry(t) == 2 * t
IsHuge(x) == x % 2 = 1
Target(x) == x \div 2

\* find_dax_ptep: the PUD entry and the PMD entry an offset goes through.
PudOf(v) == PudKey(v \div PUD)
PmdLoc(m, v) == PmdKey(m[PudOf(v)], (v \div E) % E)
Resolve(m, v) ==
    LET x == m[PmdLoc(m, v)]
    IN  IF IsHuge(x) THEN Target(x) + (v % E) ELSE m[PteKey(Target(x), v % E)]
Mapping(m) == [v \in Pages |-> Resolve(m, v)]

\* The process page table maps what the device table maps: a PMD entry
\* that is present maps every page of it to the device's frame.
Coherent(m, P, K) ==
    \A v \in Pages : P[v] = IF K[SlotOf(v)] = "none" THEN NoFrame ELSE Resolve(m, v)

Aligned(r) == r.first % E = r.second % E
Order == <<"bpg", "bpm", "pud", "epm", "epg">>
Segs == {"bpg", "bpm", "pud", "epm", "epg", "una"}
Pos(s) == CHOOSE k \in 1 .. 5 : Order[k] = s

\* The condition under which a segment runs, at cursor c with rem r left.
Enters(s, c, r) ==
    CASE s = "bpg" -> c % E # 0
      [] s = "bpm" -> r >= E /\ c % PUD # 0
      [] s = "pud" -> r >= PUD
      [] s = "epm" -> r >= E
      [] s = "epg" -> r # 0

\* Pages one loop iteration of a segment covers.
Unit(s) == CASE s \in {"bpg", "epg"} -> 1 [] s \in {"bpm", "epm"} -> E
             [] s = "pud" -> PUD [] s = "una" -> 0
NextBound(a, size) == (a \div size + 1) * size

\* The largest number of entries step 0 saves; pswap_temp holds 2 * E.
TempLen == 4 * (E - 1) + NPud
TempIdx == 0 .. TempLen - 1

VARIABLES
    mem,      \* table entries and pswap_state as the CPU sees them
    pmem,     \* the same in persistent memory
    used,     \* PTE tables allocated in the device bitmap
    temp,     \* rt->pswap_temp
    pc,       \* "idle", "loop" (inside a segment), "flush" (after it)
    step,     \* 0, 1 or 2
    seg,      \* the current segment
    cur,      \* cur1, the first range's cursor (pages)
    rem,      \* pages still to do in this step
    i,        \* the loop index of the segment
    ti,       \* temp_i
    vpn,      \* cur1_vpn at the start of the segment
    loc,      \* PMD entries found in step 0 (beg_pgr_pmdp, ...), per side
    req,      \* the request in progress or last done
    before,   \* the mapping when the call began (history)
    calls,
    crashes,
    crashed,  \* a crash happened since the last call began
    proc,     \* the process page table: page -> frame, or NoFrame
    pk,       \* its PMD entries: "none", "huge" or "table" (PTE table)
    shoot,    \* shoot_pmd: this call downgraded a huge entry
    pcoh,     \* the process table agreed with the device one at the call
    faults

vars == <<mem, pmem, used, temp, pc, step, seg, cur, rem, i, ti, vpn, loc,
          req, before, calls, crashes, crashed, proc, pk, shoot, pcoh, faults>>
pvars == <<proc, pk, pcoh, faults>>

Delta(side) == IF side = 1 THEN 0 ELSE req.second - req.first

\* Mutant: the second range's PTE index taken from the first range's
\* offset, as if every request were aligned.
Entry_sameIndex(s, side) ==
    CASE s \in {"bpg", "epg", "una"} ->
             PteKey(Target(mem[loc[s][side]]), (vpn % E) + i)
      [] s \in {"bpm", "epm"} -> PmdKey(loc[s][side][2], loc[s][side][3] + i)
      [] s = "pud" -> PudOf(cur + Delta(side))

\* The entry an iteration of segment s works on in range side.
Entry(s, side) ==
    CASE s \in {"bpg", "epg", "una"} ->
             PteKey(Target(mem[loc[s][side]]), ((vpn + Delta(side)) % E) + i)
      [] s \in {"bpm", "epm"} -> PmdKey(loc[s][side][2], loc[s][side][3] + i)
      [] s = "pud" -> PudOf(cur + Delta(side))

Flush(p, m, lines) == [k \in Keys |-> IF LineOf(k) \in lines THEN m[k] ELSE p[k]]

\* arch_wb_cache_pmem(addr, n entries): the lines from the one holding
\* entry lo up to the one holding the last byte before entry lo + n.
RangeLines(kind, t, lo, n) ==
    {<<kind, t, q>> : q \in {x \in (lo \div Line) .. (E \div Line) : x * Line < lo + n}}
TableLines(kind, t) == RangeLines(kind, t, 0, E)

\* The write-back after the loop of segment s in step st (1 or 2).
WbAfter(st, s) ==
    IF st = 0 THEN {}
    ELSE CASE s \in {"bpg", "epg"} ->
                  TableLines("pte", Target(mem[loc[s][st]]))
           [] s \in {"bpm", "epm"} ->
                  RangeLines("pmd", loc[s][st][2], loc[s][st][3], i)
           [] s = "pud" -> {}
           [] s = "una" ->
                  RangeLines("pte", Target(mem[loc[s][st]]),
                             (vpn + Delta(st)) % E, req.npgs)

\* dax_downgrade_huge: a fresh PTE table maps the huge entry's frames one
\* by one; the table and then the PMD entry are written back, and
\* shoot_pmd is set.
Downgrade(d, pm) ==
    IF ~IsHuge(d.m[pm]) THEN d
    ELSE LET t == Min(PteTabs \ d.u)
             m2 == [k \in Keys |->
                      IF k[1] = "pte" /\ k[2] = t THEN Target(d.m[pm]) + k[3]
                      ELSE IF k = pm THEN TableEntry(t) ELSE d.m[k]]
         IN  [m |-> m2, u |-> d.u \cup {t}, sh |-> TRUE,
              p |-> Flush(d.p, m2, TableLines("pte", t) \cup {LineOf(pm)})]

\* Entering segment s of step st at cursor c (cur2 = c + dl): in step 0 find_dax_ptep for
\* both ranges, and for a page segment downgrade huge entries first.
Enter(s, st, c, dl, d) ==
    LET k1 == PmdLoc(d.m, c)
        k2 == PmdLoc(d.m, c + dl)
        d2 == IF st = 0 /\ s \in {"bpg", "epg", "una"}
              THEN Downgrade(Downgrade(d, k1), k2) ELSE d
    IN  /\ seg' = s /\ pc' = "loop" /\ vpn' = c /\ i' = 0
        /\ mem' = d2.m /\ pmem' = d2.p /\ used' = d2.u /\ shoot' = d2.sh
        /\ loc' = IF st = 0 /\ s # "pud" THEN [loc EXCEPT ![s] = <<k1, k2>>]
                  ELSE loc

FirstSeg(r) ==
    IF Aligned(r)
    THEN Order[Min({k \in 1 .. 5 : Enters(Order[k], r.first, r.npgs)})]
    ELSE "una"

Init ==
    /\ mem = [k \in Keys |->
                 CASE k[1] = "pud" -> k[3]
                   [] k[1] = "pmd" -> Huge((k[2] * E + k[3]) * E)
                   [] OTHER -> 0]
    /\ pmem = mem
    /\ used = {}
    /\ temp = [x \in TempIdx |-> 0]
    /\ pc = "idle" /\ step = 0 /\ seg = "bpg"
    /\ cur = 0 /\ rem = 0 /\ i = 0 /\ ti = 0 /\ vpn = 0
    /\ loc = [s \in Segs |-> <<Marker, Marker>>]
    /\ req = [first |-> 0, second |-> 0, npgs |-> 0]
    /\ before = Mapping(mem)
    /\ calls = 0 /\ crashes = 0 /\ crashed = FALSE
    /\ proc = [v \in Pages |-> NoFrame] /\ pk = [p \in Slots |-> "none"]
    /\ shoot = FALSE /\ pcoh = TRUE /\ faults = 0

\* dax_handle_pswap -> dax_pswap: take dax_lock, classify the request and
\* start step 0.
Call(r) ==
    /\ pc = "idle" /\ calls < MaxCalls
    /\ Aligned(r) \/ r.npgs <= UnalignedMax
    /\ calls' = calls + 1 /\ req' = r /\ before' = Mapping(mem)
    /\ crashed' = FALSE
    /\ step' = 0 /\ cur' = r.first /\ rem' = r.npgs /\ ti' = 0
    /\ pcoh' = Coherent(mem, proc, pk)
    /\ Enter(FirstSeg(r), 0, r.first, r.second - r.first,
             [m |-> mem, p |-> pmem, u |-> used, sh |-> FALSE])
    /\ UNCHANGED <<temp, crashes, proc, pk, faults>>

\* !aligned && npgs > 64: goto err_out, nothing changes.
Reject(r) ==
    /\ pc = "idle" /\ calls < MaxCalls
    /\ ~Aligned(r) /\ r.npgs > UnalignedMax
    /\ calls' = calls + 1 /\ req' = r /\ before' = Mapping(mem)
    /\ crashed' = FALSE
    /\ UNCHANGED <<mem, pmem, used, temp, pc, step, seg, cur, rem, i, ti,
                   vpn, loc, crashes, pvars, shoot>>

\* Mutant: the page-residue loop without its break on rem == 0.
Iterate_noBreak ==
    LET r2 == rem - Unit(seg)
        broke == seg = "bpm" /\ r2 < E
        more == /\ ~broke
                /\ CASE seg = "bpg" -> (i + 1) + vpn < NextBound(vpn, E)
                     [] seg = "bpm" -> (i + 1) * E + vpn < NextBound(vpn, PUD)
                     [] seg = "pud" -> r2 >= PUD
                     [] seg = "epm" -> r2 >= E
                     [] seg = "epg" -> r2 > 0
                     [] seg = "una" -> i + 1 < req.npgs
    IN  /\ rem' = r2 /\ cur' = cur + Unit(seg) /\ ti' = ti + 1
        /\ i' = IF broke THEN i ELSE i + 1
        /\ pc' = IF more THEN "loop" ELSE "flush"

\* The loop control of one iteration: the counters, the break and the
\* loop condition of the segment.
Iterate ==
    LET r2 == rem - Unit(seg)
        broke == \/ seg = "bpg" /\ r2 = 0
                 \/ seg = "bpm" /\ r2 < E
        more == /\ ~broke
                /\ CASE seg = "bpg" -> (i + 1) + vpn < NextBound(vpn, E)
                     [] seg = "bpm" -> (i + 1) * E + vpn < NextBound(vpn, PUD)
                     [] seg = "pud" -> r2 >= PUD
                     [] seg = "epm" -> r2 >= E
                     [] seg = "epg" -> r2 > 0
                     [] seg = "una" -> i + 1 < req.npgs
    IN  /\ rem' = r2 /\ cur' = cur + Unit(seg) /\ ti' = ti + 1
        /\ i' = IF broke THEN i ELSE i + 1
        /\ pc' = IF more THEN "loop" ELSE "flush"

\* Step 0 body: pswap_temp[temp_i] = the first range's entry.
CopyToTemp ==
    /\ pc = "loop" /\ step = 0
    /\ temp' = [temp EXCEPT ![ti] = mem[Entry(seg, 1)]]
    /\ Iterate
    /\ UNCHANGED <<mem, pmem, used, step, seg, vpn, loc, req, before, calls,
                   crashes, crashed, pvars, shoot>>

\* Step 1 body: first's entry = second's entry (a PUD entry is written
\* back at once).
CopySecondToFirst ==
    /\ pc = "loop" /\ step = 1
    /\ mem' = [mem EXCEPT ![Entry(seg, 1)] = mem[Entry(seg, 2)]]
    /\ pmem' = IF seg = "pud" THEN Flush(pmem, mem', {LineOf(Entry(seg, 1))})
               ELSE pmem
    /\ Iterate
    /\ UNCHANGED <<used, temp, step, seg, vpn, loc, req, before, calls,
                   crashes, crashed, pvars, shoot>>

\* Step 2 body: second's entry = pswap_temp[temp_i].
CopyTempToSecond ==
    /\ pc = "loop" /\ step = 2
    /\ mem' = [mem EXCEPT ![Entry(seg, 2)] = temp[ti]]
    /\ pmem' = IF seg = "pud" THEN Flush(pmem, mem', {LineOf(Entry(seg, 2))})
               ELSE pmem
    /\ Iterate
    /\ UNCHANGED <<used, temp, step, seg, vpn, loc, req, before, calls,
                   crashes, crashed, pvars, shoot>>

\* The segment is done: write it back and enter the next one that applies.
Later == IF seg = "una" THEN {}
         ELSE {k \in Pos(seg) + 1 .. 5 : Enters(Order[k], cur, rem)}

NextSegment ==
    /\ pc = "flush" /\ Later # {}
    /\ Enter(Order[Min(Later)], step, cur, Delta(2),
             [m |-> mem, u |-> used, p |-> Flush(pmem, mem, WbAfter(step, seg)),
              sh |-> shoot])
    /\ UNCHANGED <<temp, step, cur, rem, ti, req, before, calls, crashes,
                   crashed, pvars>>

\* The step is done: write back, persist pswap_state = STEP1 or STEP2 and
\* restart the walk from the beginning of the ranges.
StartStep ==
    /\ pc = "flush" /\ Later = {} /\ step < 2
    /\ LET m2 == [mem EXCEPT ![Marker] = step + 1]
           p1 == Flush(pmem, mem, WbAfter(step, seg))
       IN  Enter(FirstSeg(req), step + 1, req.first, Delta(2),
                 [m |-> m2, u |-> used, p |-> Flush(p1, m2, {LineOf(Marker)}),
                  sh |-> shoot])
    /\ step' = step + 1 /\ cur' = req.first /\ rem' = req.npgs /\ ti' = 0
    /\ UNCHANGED <<temp, req, before, calls, crashes, crashed, pvars>>

\* Step 2 is done: write back, pswap_state = NORMAL (not written back),
\* and start on the process page table ("real page table") from the
\* beginning of the ranges.
Finish ==
    /\ pc = "flush" /\ Later = {} /\ step = 2
    /\ pmem' = Flush(pmem, mem, WbAfter(step, seg))
    /\ mem' = [mem EXCEPT ![Marker] = NORMAL]
    /\ pc' = "proc" /\ seg' = FirstSeg(req)
    /\ cur' = req.first /\ rem' = req.npgs
    /\ UNCHANGED <<used, temp, step, i, ti, vpn, loc, req, before, calls,
                   crashes, crashed, pvars, shoot>>

\* Pages the segment s of the process-table walk covers at cur1 = c.
Span(s, c, r) ==
    CASE s = "bpg" -> Min({r, NextBound(c, E) - c})
      [] s = "bpm" -> E * Min({r \div E, (NextBound(c, PUD) - c) \div E})
      [] s = "pud" -> PUD * (r \div PUD)
      [] s = "epm" -> E * (r \div E)
      [] s \in {"epg", "una"} -> r

\* dax_get_ptep_noalloc: 1 when the process PMD entry of v points to a
\* PTE table; 0 when it is none or huge (pmd_bad holds for a huge one).
HasPte(t, v) == t.k[SlotOf(v)] = "table"

\* dax_free_pmd: the process PMD entry of v is cleared.
FreePmd(t, v) ==
    [p |-> [x \in Pages |-> IF SlotOf(x) = SlotOf(v) THEN NoFrame ELSE t.p[x]],
     k |-> [t.k EXCEPT ![SlotOf(v)] = "none"]]

\* Mutant: the shoot-down clears only the first range's PMD entry.
PageResidue_freeFirst(t, c, c2, n) ==
    IF ~shoot /\ HasPte(t, c) /\ HasPte(t, c2)
    THEN [t EXCEPT !.p = SwapRange(t.p, c, c2, n)]
    ELSE IF HasPte(t, c) # HasPte(t, c2) \/ shoot THEN FreePmd(t, c) ELSE t

\* A page residue: swap the ptes when both PTE tables are there and no
\* huge entry was downgraded, else shoot both PMD entries down.
PageResidue(t, c, c2, n) ==
    IF ~shoot /\ HasPte(t, c) /\ HasPte(t, c2)
    THEN [t EXCEPT !.p = SwapRange(t.p, c, c2, n)]
    ELSE IF HasPte(t, c) # HasPte(t, c2) \/ shoot
         THEN FreePmd(FreePmd(t, c), c2)
         ELSE t

\* A PMD residue or whole PUDs: set_pmd / set_pud exchange the entries.
PmdSwap(t, c, c2, n) ==
    [p |-> SwapRange(t.p, c, c2, n),
     k |-> SwapRange(t.k, SlotOf(c), SlotOf(c2), n \div E)]

\* One segment of the walk over the process page table, with the same
\* segment conditions as on the device table; after the last one,
\* flush_tlb_user and mutex_unlock.
ProcSegment ==
    /\ pc = "proc" /\ seg # "una"
    /\ LET n == Span(seg, cur, rem)
           c2 == cur + Delta(2)
           t == [p |-> proc, k |-> pk]
           t2 == IF seg \in {"bpg", "epg"} THEN PageResidue(t, cur, c2, n)
                 ELSE PmdSwap(t, cur, c2, n)
           nx == {k \in Pos(seg) + 1 .. 5 : Enters(Order[k], cur + n, rem - n)}
       IN  /\ proc' = t2.p /\ pk' = t2.k
           /\ cur' = cur + n /\ rem' = rem - n
           /\ pc' = IF nx = {} THEN "idle" ELSE "proc"
           /\ seg' = IF nx = {} THEN seg ELSE Order[Min(nx)]
    /\ UNCHANGED <<mem, pmem, used, temp, step, i, ti, vpn, loc, req, before,
                   calls, crashes, crashed, shoot, pcoh, faults>>

\* The unaligned request on the process table: swap the ptes, or set the
\* ptes of the side that has a PTE table to none (the other side's entry
\* is left as it is), or do nothing.
ProcUnaligned ==
    /\ pc = "proc" /\ seg = "una"
    /\ LET t == [p |-> proc, k |-> pk]
           a == HasPte(t, req.first)
           b == HasPte(t, req.second)
           side == IF a THEN req.first ELSE req.second
       IN  /\ a \/ b \/ ~shoot
           /\ proc' = IF ~shoot /\ a /\ b
                      THEN SwapRange(proc, req.first, req.second, req.npgs)
                      ELSE IF a # b \/ shoot
                           THEN [x \in Pages |->
                                   IF x >= side /\ x < side + req.npgs THEN NoFrame
                                   ELSE proc[x]]
                           ELSE proc
    /\ pc' = "idle"
    /\ UNCHANGED <<mem, pmem, used, temp, step, seg, cur, rem, i, ti, vpn, loc,
                   req, before, calls, crashes, crashed, pk, shoot, pcoh, faults>>

\* The shoot-down branch with neither side having a PTE table: ptep is
\* NULL and set_pte(ptep + i) faults in the kernel; dax_lock stays held.
NullDeref ==
    /\ pc = "proc" /\ seg = "una" /\ shoot
    /\ ~HasPte([k |-> pk], req.first) /\ ~HasPte([k |-> pk], req.second)
    /\ pc' = "oops"
    /\ UNCHANGED <<mem, pmem, used, temp, step, seg, cur, rem, i, ti, vpn, loc,
                   req, before, calls, crashes, crashed, pvars, shoot>>

\* A page fault on slot p (dev_dax_huge_fault under dax_lock ->
\* install_pmd at the PMD address): a PMD entry that is none gets the
\* device's huge entry or a PTE table filled from the device's ptes.
FaultInstall(p) ==
    /\ pc = "idle" /\ faults < MaxFaults
    /\ \E v \in SlotPages(p) : proc[v] = NoFrame
    /\ LET x == mem[PmdLoc(mem, p * E)]
       IN  /\ pk[p] # "table" \/ IsHuge(x)
           /\ pk' = [pk EXCEPT ![p] = IF IsHuge(x) THEN "huge" ELSE "table"]
    /\ proc' = [v \in Pages |-> IF SlotOf(v) = p THEN Resolve(mem, v) ELSE proc[v]]
    /\ faults' = faults + 1
    /\ UNCHANGED <<mem, pmem, used, temp, pc, step, seg, cur, rem, i, ti, vpn,
                   loc, req, before, calls, crashes, crashed, shoot, pcoh>>

\* The same fault when the PMD entry already points to a PTE table and the
\* device entry is not huge: the loop does set_pte(ptep, pte) for every
\* i, so only the pte of the PMD address changes, to the frame of the
\* last entry.
FaultRefill(p) ==
    /\ pc = "idle" /\ faults < MaxFaults
    /\ \E v \in SlotPages(p) : proc[v] = NoFrame
    /\ pk[p] = "table" /\ ~IsHuge(mem[PmdLoc(mem, p * E)])
    /\ proc' = [proc EXCEPT ![p * E] = Resolve(mem, p * E + E - 1)]
    /\ faults' = faults + 1
    /\ UNCHANGED <<mem, pmem, used, temp, pc, step, seg, cur, rem, i, ti, vpn,
                   loc, req, before, calls, crashes, crashed, pk, shoot, pcoh>>

DirtyLines == {LineOf(k) : k \in {x \in Keys : mem[x] # pmem[x]}}

\* Power failure: any dirty line may already have been evicted.  On the
\* next mmap get_dax_runtime allocates a new pswap_temp and, its recovery
\* being commented out, leaves the table as it found it.
Crash ==
    /\ crashes < MaxCrashes
    /\ \E lines \in SUBSET DirtyLines :
          LET p == Flush(pmem, mem, lines)
          IN  mem' = p /\ pmem' = p
    /\ temp' = [x \in TempIdx |-> 0]
    /\ proc' = [v \in Pages |-> NoFrame] /\ pk' = [p \in Slots |-> "none"]
    /\ pc' = "idle" /\ crashes' = crashes + 1 /\ crashed' = TRUE
    /\ UNCHANGED <<used, step, seg, cur, rem, i, ti, vpn, loc, req, before,
                   calls, shoot, pcoh, faults>>

Next ==
    \/ \E r \in Requests : Call(r) \/ Reject(r)
    \/ CopyToTemp \/ CopySecondToFirst \/ CopyTempToSecond
    \/ NextSegment \/ StartStep \/ Finish
    \/ ProcSegment \/ ProcUnaligned \/ NullDeref
    \/ \E p \in FaultSlots : FaultInstall(p) \/ FaultRefill(p)

Spec == Init /\ [][Next]_vars

NextCrash == Next \/ Crash

SpecCrash == Init /\ [][NextCrash]_vars

-----------------------------------------------------------------------------
\* Counters and tables keep their ranges: in particular rem never goes
\* below zero, which the break of the page-residue loop guarantees.
TypeOK ==
    /\ mem \in [Keys -> Nat] /\ pmem \in [Keys -> Nat]
    /\ used \subseteq PteTabs
    /\ temp \in [TempIdx -> Nat]
    /\ step \in 0 .. 2 /\ seg \in Segs
    /\ rem \in 0 .. NPud * PUD /\ cur \in 0 .. NPud * PUD
    /\ i \in 0 .. E /\ ti \in 0 .. TempLen
    /\ pc \in {"idle", "loop", "flush", "proc", "oops"}
    /\ proc \in [Pages -> 0 .. NoFrame] /\ pk \in [Slots -> {"none", "huge", "table"}]
    /\ faults \in 0 .. MaxFaults

\* The swap as its callers see it: outside a call the table maps what the
\* calls done so far, each applied atomically, make of the identity.
AbsMapping == IF pc \in {"idle", "proc", "oops"} THEN Mapping(mem) ELSE before

Abs == INSTANCE PageSwapSpec WITH mapping <- AbsMapping

\* dax_pswap implements the swap_pages contract in the absence of crashes:
\* every completed call exchanged exactly the two ranges, at every
\* granularity the walk used, and left every other page where it was.
Refines == Abs!Spec

\* spec.md, section 1: a crash observer sees the pre- or the post-swap
\* arrangement of the whole range, never a mixture.  After a crash and the
\* restart in get_dax_runtime, the table maps what it mapped before the
\* last call or what that call was to produce.
CrashAtomic ==
    crashed => Mapping(mem) \in {before, Abs!Swapped(before, req)}

\* An aligned dax_pswap that finds the process page table agreeing with
\* the device table leaves it agreeing: the shoot-downs after a downgrade,
\* the pte swaps and the PMD and PUD entry swaps of the real-page-table
\* walk keep it in step with the device walk, and so do the faults
\* install_pmd serves until the next call.
AlignedSwapCoherent ==
    (pc = "idle" /\ calls > 0 /\ Aligned(req) /\ pcoh) => Coherent(mem, proc, pk)

=============================================================================
