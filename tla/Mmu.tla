-------------------------------- MODULE Mmu --------------------------------
(***************************************************************************)
(* The kernel's page tables: arch/arm64/mm/mmu.c, core/ioremap.c,          *)
(* mm/memory.c, free_initmem and vmemmap_init of core/init.c, the walk     *)
(* helpers of asm/pgtable.h and asm-generic/pgtable.h.  The last section   *)
(* is one entry of them, changed while the hardware updates it.            *)
(*                                                                         *)
(* Addresses are page numbers; a virtual address is one of the 2^k kernel  *)
(* pages 0..Span-1 and wraps there, as the top of the linear map does.     *)
(* Four levels, as CONFIG_PGTABLE_LEVELS is for 48-bit addresses: a table  *)
(* of level 1 (pgd) to 4 (pte) is the page it is in.  Tables are written   *)
(* through the fixmap slots FIX_PGD .. FIX_PTE, so a slot set over one     *)
(* still in use sends the writes to the wrong table.                       *)
(*                                                                         *)
(*   mm.tab    the entries of every page that is a table                   *)
(*   mm.slot   the page each fixmap slot maps                              *)
(*   mm.pgd    init_mm.pgd                                                 *)
(*   mm.pool   the free pages, mm.tlb every translation a TLB may hold     *)
(*   mm.bug    a BUG_ON() fired                                            *)
(*   mm.want   what the callers asked to have mapped, and how              *)
(***************************************************************************)
EXTENDS Integers, Sequences, FiniteSets, TLC, SequencesExt, FiniteSetsExt

(* Bind(v, LAMBDA x : e) is LET x == v IN e, with v evaluated once.        *)
Bind(v, Op(_)) == Op(v)

CONSTANTS Ptrs,                    \* entries of a pgd, pud, pmd, pte table
          ContPtes, ContPmds, MaxTlbiOps,
          PageOffset, Vmemmap, Viomap, ViomapSize, FixTop,
          FdtPages, MaxFdt,        \* FIX_FDT_SIZE, MAX_FDT_SIZE
          PagesPerStruct,          \* struct pages in a page
          Confs, IoRanges, MaxIo

VARIABLE mm

Pte == 4
Size(l) == CASE l = 4 -> 1 [] l = 3 -> Ptrs[4] [] l = 2 -> Ptrs[3] * Ptrs[4] [] l = 1 -> Ptrs[2] * Ptrs[3] * Ptrs[4]
Span == Ptrs[1] * Size(1)
Section == Size(3)
RoundDown(x, n) == (x \div n) * n
RoundUp(x, n) == ((x + n - 1) \div n) * n
Aligned(x, n) == x % n = 0
Index(l, addr) == (addr \div Size(l)) % Ptrs[l]

(* Protections, as far as pgattr_change_is_safe() tells them apart.        *)
Rw == "rw"
Ro == "ro"
Rox == "rox"
Rwx == "rwx"
Dev == "dev"
Writable(p) == p \in {Rw, Rwx, Dev}
Exec(p) == p \in {Rox, Rwx}

NoPage == -1
None == [k |-> "none", to |-> NoPage, prot |-> "", cont |-> FALSE]
TableTo(p) == [k |-> "table", to |-> p, prot |-> "", cont |-> FALSE]
Leaf(pa, prot) == [k |-> "leaf", to |-> pa, prot |-> prot.p, cont |-> prot.cont]
Plain(p) == [p |-> p, cont |-> FALSE]
EmptyTable(l) == [i \in 0..(Ptrs[l] - 1) |-> None]

(* pgattr_change_is_safe: only permissions of a live mapping may change.   *)
SafeChange(old, new) ==
    \/ old = None \/ new = None
    \/ /\ ~old.cont /\ ~new.cont /\ old.k = new.k /\ old.to = new.to
       /\ (old.prot = Dev) = (new.prot = Dev)

(* p?d_addr_end: the next boundary or the end, also when it wraps to 0.    *)
AddrEnd(addr, end, size) ==
    LET b == RoundDown(addr + size, size) % Span
    IN IF (b - 1) % Span < (end - 1) % Span THEN b ELSE end
RECURSIVE Chunks(_, _, _)
Chunks(addr, end, size) ==
    LET next == AddrEnd(addr, end, size)
    IN <<<<addr, next>>>> \o (IF next = end THEN <<>> ELSE Chunks(next, end, size))

-----------------------------------------------------------------------------
(* __set_fixmap on the slots, and the accesses through them.               *)
SetFixmap(m, s, page) == [m EXCEPT !.slot[s] = page]
ClearFixmap(m, s) == [m EXCEPT !.slot[s] = NoPage]
Bug(m, b) == IF b THEN [m EXCEPT !.bug = TRUE] ELSE m
Entry(m, s, i) == IF m.slot[s] = NoPage THEN None ELSE m.tab[m.slot[s]][i]
SetEntry(m, s, i, e) ==
    IF m.slot[s] = NoPage THEN Bug(m, TRUE) ELSE [m EXCEPT !.tab[m.slot[s]][i] = e]
(* early_pgtable_alloc and pgd_pgtable_alloc: a zeroed page; early, it is  *)
(* cleared through FIX_PTE, which must be free.                            *)
PgtableAlloc(m, l, early) ==
    LET page == Max(m.pool)
        m1 == [m EXCEPT !.pool = @ \ {page}, !.tab = (page :> EmptyTable(l)) @@ @]
    IN  IF m.pool = {} THEN [m |-> Bug(m, TRUE), page |-> NoPage]
        ELSE [m |-> IF early THEN ClearFixmap(SetFixmap(m1, Pte, page), Pte) ELSE m1, page |-> page]
(* What every level does with an entry that must lead to a table: BUG on a *)
(* section, a fresh table where there is none.                             *)
Populate(m, s, i, alloc) ==
    LET e == Entry(m, s, i)
    IN  Bind(PgtableAlloc(m, s + 1, alloc = "early"), LAMBDA a :
        IF e.k = "leaf" THEN Bug(m, TRUE)
        ELSE IF e = None THEN (IF alloc = "none" THEN Bug(m, TRUE) ELSE SetEntry(a.m, s, i, TableTo(a.page)))
        ELSE m)

-----------------------------------------------------------------------------
InitPte(m, pmd, addr, end, phys, prot) ==
    LET m1 == SetFixmap(m, 4, Entry(m, 3, pmd).to)
        old == m1.tab[m1.slot[4]]
        at == Index(4, addr)..(Index(4, addr) + ((end - addr) % Span) - 1)
        new == [j \in DOMAIN old |-> IF j \in at THEN Leaf(phys + j - Index(4, addr), prot) ELSE old[j]]
    IN Bug(ClearFixmap([m1 EXCEPT !.tab[m1.slot[4]] = new], 4), \E j \in at : ~SafeChange(old[j], new[j]))

ContProt(prot, addr, next, phys, size, flags) ==
    IF Aligned(addr, size) /\ Aligned(next, size) /\ Aligned(phys, size) /\ "nocont" \notin flags
    THEN [prot EXCEPT !.cont = TRUE] ELSE prot

(* The loops over the chunks cs of a range; off is phys less addr.         *)
RECURSIVE ContPteLoop(_, _, _, _, _, _)
ContPteLoop(m, i, cs, off, prot, flags) ==
    IF m.bug \/ cs = <<>> THEN m
    ELSE ContPteLoop(InitPte(m, i, cs[1][1], cs[1][2], cs[1][1] + off,
                             ContProt(prot, cs[1][1], cs[1][2], cs[1][1] + off, ContPtes, flags)),
                     i, Tail(cs), off, prot, flags)
AllocInitContPte(m, i, addr, end, phys, prot, alloc, flags) ==
    ContPteLoop(Populate(m, 3, i, alloc), i, Chunks(addr, end, ContPtes), phys - addr, prot, flags)

(* pmd_set_huge, pud_set_huge: nothing when the change is not safe.        *)
SetHuge(m, s, i, phys, prot) ==
    IF SafeChange(Entry(m, s, i), Leaf(phys, prot)) THEN SetEntry(m, s, i, Leaf(phys, prot)) ELSE m

(* One entry of a pmd or pud table: a block if it may be one, else what    *)
(* the next level down makes of it.                                        *)
Block(addr, next, phys, size, flags) ==
    Aligned(addr, size) /\ Aligned(next, size) /\ Aligned(phys, size) /\ "noblock" \notin flags
HugeChecked(m, s, i, phys, prot) ==
    LET m1 == SetHuge(m, s, i, phys, prot)
    IN Bug(m1, ~SafeChange(Entry(m, s, i), Entry(m1, s, i)))
TableChecked(old, m, s, i) == Bug(m, Entry(old, s, i) # None /\ Entry(old, s, i) # Entry(m, s, i))

RECURSIVE PmdLoop(_, _, _, _, _, _)
PmdLoop(m, cs, off, prot, alloc, flags) ==
    LET c == cs[1]
        i == Index(3, c[1])
    IN  IF m.bug \/ cs = <<>> THEN m
        ELSE PmdLoop(IF Block(c[1], c[2], c[1] + off, Section, flags) THEN HugeChecked(m, 3, i, c[1] + off, prot)
                     ELSE TableChecked(m, AllocInitContPte(m, i, c[1], c[2], c[1] + off, prot, alloc, flags), 3, i),
                     Tail(cs), off, prot, alloc, flags)
InitPmd(m, pud, addr, end, phys, prot, alloc, flags) ==
    ClearFixmap(PmdLoop(SetFixmap(m, 3, Entry(m, 2, pud).to), Chunks(addr, end, Size(3)), phys - addr, prot, alloc, flags), 3)

RECURSIVE ContPmdLoop(_, _, _, _, _, _, _)
ContPmdLoop(m, i, cs, off, prot, alloc, flags) ==
    IF m.bug \/ cs = <<>> THEN m
    ELSE ContPmdLoop(InitPmd(m, i, cs[1][1], cs[1][2], cs[1][1] + off,
                             ContProt(prot, cs[1][1], cs[1][2], cs[1][1] + off, ContPmds * Section, flags), alloc, flags),
                     i, Tail(cs), off, prot, alloc, flags)
AllocInitContPmd(m, i, addr, end, phys, prot, alloc, flags) ==
    ContPmdLoop(Populate(m, 2, i, alloc), i, Chunks(addr, end, ContPmds * Section), phys - addr, prot, alloc, flags)

RECURSIVE PudLoop(_, _, _, _, _, _)
PudLoop(m, cs, off, prot, alloc, flags) ==
    LET c == cs[1]
        i == Index(2, c[1])
    IN  IF m.bug \/ cs = <<>> THEN m
        ELSE PudLoop(IF Block(c[1], c[2], c[1] + off, Size(2), flags) THEN HugeChecked(m, 2, i, c[1] + off, prot)
                     ELSE TableChecked(m, AllocInitContPmd(m, i, c[1], c[2], c[1] + off, prot, alloc, flags), 2, i),
                     Tail(cs), off, prot, alloc, flags)
ThroughPud(m, i) == IF m.bug THEN m ELSE SetFixmap(m, 2, Entry(m, 1, i).to)
AllocInitPud(m, i, addr, end, phys, prot, alloc, flags) ==
    ClearFixmap(PudLoop(ThroughPud(Populate(m, 1, i, alloc), i), Chunks(addr, end, Size(2)), phys - addr, prot, alloc, flags), 2)

(* __create_pgd_mapping; the root is read and written through slot 1:      *)
(* FIX_PGD, held over the call in paging_init() and set for each write to  *)
(* swapper_pg_dir afterwards (set_swapper_pgd).                            *)
RECURSIVE PgdLoop(_, _, _, _, _, _)
PgdLoop(m, cs, off, prot, alloc, flags) ==
    IF m.bug \/ cs = <<>> THEN m
    ELSE PgdLoop(AllocInitPud(m, Index(1, cs[1][1]), cs[1][1], cs[1][2], cs[1][1] + off, prot, alloc, flags),
                 Tail(cs), off, prot, alloc, flags)
CreatePgdMapping(m, root, phys, virt, size, prot, alloc, flags) ==
    LET cs == Chunks(virt, (virt + size) % Span, Size(1))
    IN  IF m.slot[1] # NoPage THEN PgdLoop(m, cs, phys - virt, prot, alloc, flags)
        ELSE ClearFixmap(PgdLoop(SetFixmap(m, 1, root), cs, phys - virt, prot, alloc, flags), 1)

-----------------------------------------------------------------------------
(* The hardware's walk from a root.                                        *)
Nowhere == <<NoPage, "">>
Walk(m, root, va) ==
    LET e1 == m.tab[root][Index(1, va)]
    IN  Bind(IF e1.k = "table" THEN m.tab[e1.to][Index(2, va)] ELSE None, LAMBDA e2 :
    LET e3 == IF e2.k = "table" THEN m.tab[e2.to][Index(3, va)] ELSE None
        e4 == IF e3.k = "table" THEN m.tab[e3.to][Index(4, va)] ELSE None
        to(e, l) == <<e.to + (va % Size(l)), e.prot>>
    IN  CASE e2.k = "leaf" -> to(e2, 2) [] e3.k = "leaf" -> to(e3, 3) [] e4.k = "leaf" -> to(e4, 4)
          [] OTHER -> Nowhere)
Live(m) == {va \in 0..(Span - 1) : Walk(m, m.pgd, va) # Nowhere}
(* The TLBs may hold every translation there has been since the last       *)
(* invalidation of its address.                                            *)
Cached(m) == [m EXCEPT !.tlb = @ \union {<<va, Walk(m, m.pgd, va)>> : va \in Live(m)}]
(* flush_tlb_kernel_range: everything, past MAX_TLBI_OPS pages.            *)
FlushKernelRange(m, start, end) ==
    [m EXCEPT !.tlb = IF end - start > MaxTlbiOps THEN {} ELSE {t \in @ : ~(t[1] \in start..(end - 1))}]
Wanted(m, virt, size, phys, prot) ==
    [m EXCEPT !.want = [va \in DOMAIN @ \union {(virt + i) % Span : i \in 0..(size - 1)} |->
        IF (va - virt) % Span < size THEN <<phys + ((va - virt) % Span), prot>> ELSE @[va]]]
Unwanted(m, virt, size) == [m EXCEPT !.want = [va \in DOMAIN @ \ (virt..(virt + size - 1)) |-> @[va]]]
Map(m, root, phys, virt, size, prot, alloc, flags) ==
    Wanted(CreatePgdMapping(m, root, phys, virt, size, Plain(prot), alloc, flags), virt, size, phys, prot)

(* update_mapping_prot                                                     *)
(* A plausible slip: the TLBs are not told.                                *)
UpdateMappingProtUnflushed(m, phys, virt, size, prot) ==
    Map(m, m.pgd, phys, virt, size, prot, "none", {"nocont"})
UpdateMappingProt(m, phys, virt, size, prot) ==
    FlushKernelRange(Map(m, m.pgd, phys, virt, size, prot, "none", {"nocont"}), virt, virt + size)

-----------------------------------------------------------------------------
(* What the loader and the linker fixed: memory banks <<start, end>>, the  *)
(* physical page of _text, the pages of text, rodata, init text, init data *)
(* and data (init_pg_dir is their last), the device tree, the console.     *)
Conf == mm.conf
KernelVa == 0
Segment(i) == FoldLeft(LAMBDA s, j : s + Conf.seg[j], 0, [j \in 1..(i - 1) |-> j])
KernelPages == Segment(6)
Pa(off) == Conf.text + off
Virt(off) == KernelVa + off
PhysToVirt(pa) == PageOffset + pa - Conf.memstart
FixToVirt(idx) == FixTop - idx
FixFdt == FdtPages
FixEarlycon == FdtPages + 1
FixaddrStart == FixTop - (FdtPages + 2)
Rodata == Segment(2)
InitBegin == Segment(3)
InitEnd == Segment(5)
InitPgDir == Pa(KernelPages - 1)
(* Tables in the kernel image: swapper_pg_dir in rodata, bm_* in data.     *)
SwapperPgDir == Pa(InitBegin - 1)
BmPud == Pa(InitEnd)
BmPmd == Pa(InitEnd + 1)
BmPte == Pa(InitEnd + 2)

Init == \E c \in Confs :
    mm = [conf |-> c, at |-> "start", tab |-> <<>>, slot |-> [s \in 1..4 |-> NoPage], pgd |-> NoPage,
          pool |-> {}, tlb |-> {}, bug |-> FALSE, want |-> <<>>, io |-> Viomap, ios |-> <<>>, done |-> {}]

(* early_fixmap_init on the tables head.S left empty above the kernel.     *)
EarlyFixmapInit ==
    /\ mm.at = "start"
    /\ LET free == UNION {b[1]..(b[2] - 1) : b \in Range(Conf.banks)} \ Pa(0)..(Pa(KernelPages) - 1)
           tabs == [p \in {InitPgDir, SwapperPgDir, BmPud, BmPmd, BmPte} |->
                     CASE p \in {InitPgDir, SwapperPgDir} -> EmptyTable(1) [] p = BmPud -> EmptyTable(2)
                       [] p = BmPmd -> EmptyTable(3) [] OTHER -> EmptyTable(4)]
       IN mm' = [mm EXCEPT !.at = "fixmap", !.pgd = InitPgDir, !.pool = free, !.tab =
                   [tabs EXCEPT ![InitPgDir][Index(1, FixaddrStart)] = TableTo(BmPud),
                                ![BmPud][Index(2, FixaddrStart)] = TableTo(BmPmd),
                                ![BmPmd][Index(3, FixaddrStart)] = TableTo(BmPte)]]

(* fixmap_remap_fdt: the first block to read the size, then all of it.     *)
FixmapRemapFdt ==
    /\ mm.at = "fixmap"
    /\ LET base == FixToVirt(FixFdt)
           offset == Conf.fdt[1] % Section
           first == Map(mm, mm.pgd, RoundDown(Conf.fdt[1], Section), base, Section, Ro, "none", {"nocont"})
           size == Conf.fdt[2]
       IN
       Bind(IF size <= MaxFdt /\ offset + size > Section
            THEN Map(first, mm.pgd, RoundDown(Conf.fdt[1], Section), base, RoundUp(offset + size, Section), Ro, "none", {"nocont"})
            ELSE first, LAMBDA all :
       LET kept == IF size > MaxFdt THEN all ELSE [all EXCEPT !.pool = @ \ (Conf.fdt[1]..(Conf.fdt[1] + size - 1))]
       IN mm' = Cached([kept EXCEPT !.at = IF size > MaxFdt THEN "stuck" ELSE "fdt"]))
(* __fixmap_remap_console                                                  *)
FixmapRemapConsole ==
    /\ mm.at = "fdt"
    /\ mm' = Cached([Map(mm, mm.pgd, Conf.console, FixToVirt(FixEarlycon), 1, Dev, "none", {"nocont"}) EXCEPT !.at = "console"])

MapKernelSegment(m, from, to, prot, flags) ==
    IF to = from THEN m ELSE Map(m, SwapperPgDir, Pa(from), Virt(from), to - from, prot, "early", flags)
(* map_kernel; the fixmap's top entry is shared with the new tables.       *)
MapKernel(m) ==
    LET text == IF Conf.rodata = "off" THEN Rwx ELSE Rox
        m1 == MapKernelSegment(m, 0, Rodata, text, {})
        m2 == MapKernelSegment(m1, Rodata, InitBegin, Rw, {"nocont"})
        m3 == MapKernelSegment(m2, InitBegin, Segment(4), text, {})
        m4 == MapKernelSegment(m3, Segment(4), InitEnd, Rw, {})
    IN  Bind(MapKernelSegment(m4, InitEnd, KernelPages, Rw, {}), LAMBDA m5 :
    LET g == Index(1, FixaddrStart)
    IN  IF Entry(m5, 1, g) # None THEN Bug(m5, TRUE) ELSE SetEntry(m5, 1, g, m5.tab[m5.pgd][g]))
(* map_mem: the banks without the read-only kernel image, then its alias.  *)
LinearPieces ==
    LET k1 == Pa(0)
        k2 == Pa(InitBegin)
        cut(b) == IF b[2] <= k1 \/ b[1] >= k2 THEN <<b>>
                  ELSE (IF b[1] < k1 THEN <<<<b[1], k1>>>> ELSE <<>>) \o (IF b[2] > k2 THEN <<<<k2, b[2]>>>> ELSE <<>>)
    IN FlattenSeq([i \in DOMAIN Conf.banks |-> cut(Conf.banks[i])])
MapMemblock(m, start, end, flags) == Map(m, SwapperPgDir, start, PhysToVirt(start), end - start, Rw, "early", flags)
MapMem(m) ==
    LET flags == IF Conf.rodata = "full" THEN {"noblock", "nocont"} ELSE {}
        all == FoldLeft(LAMBDA n, b : MapMemblock(n, b[1], b[2], flags), m, LinearPieces)
    IN MapMemblock(all, Pa(0), Pa(InitBegin), {"nocont"})
PagingInit ==
    /\ mm.at = "console"
    /\ \E m \in {ClearFixmap(MapMem(MapKernel(SetFixmap(mm, 1, SwapperPgDir))), 1)} :
        mm' = Cached([m EXCEPT !.at = "paged", !.pgd = SwapperPgDir, !.pool = @ \union {InitPgDir},
                               !.tab = [p \in DOMAIN @ \ {InitPgDir} |-> @[p]]])

(* vmemmap_init: memory for the struct pages of each bank.                 *)
VmemmapOne(m, b) ==
    LET n == RoundUp(b[2] - b[1], PagesPerStruct) \div PagesPerStruct
        virt == Vmemmap + (b[1] - Conf.memstart) \div PagesPerStruct
        fits == {p \in m.pool : p..(p + n - 1) \subseteq m.pool}
        at == Max(fits)
    IN  IF fits = {} \/ (b[1] - Conf.memstart) % PagesPerStruct # 0 THEN Bug(m, TRUE)
        ELSE Map([m EXCEPT !.pool = @ \ (at..(at + n - 1))], m.pgd, at, virt, n, Rw, "early", {})
VmemmapInit ==
    /\ mm.at = "paged" /\ mm' = Cached([FoldLeft(VmemmapOne, mm, Conf.banks) EXCEPT !.at = "up"])

(* __ioremap of half pages <<phys, size>>: where it was put, -1 for NULL.  *)
Ioremap(r) ==
    /\ mm.at = "up" /\ Len(mm.ios) < MaxIo
    /\ LET pages == RoundUp(r[2], 2) \div 2
           m == Map(mm, mm.pgd, r[1] \div 2, mm.io, pages, Dev, "buddy", {})
       IN  mm' = IF mm.io + pages > Viomap + ViomapSize THEN [mm EXCEPT !.ios = Append(@, <<r, -1>>)]
                 ELSE Cached([m EXCEPT !.io = @ + RoundUp(pages, Section), !.ios = Append(@, <<r, (mm.io * 2) + (r[1] % 2)>>)])
(* mark_rodata_ro, mark_linear_text_alias_ro                               *)
MarkRodataRo ==
    /\ mm.at = "up" /\ "rodata" \notin mm.done
    /\ mm' = Cached([UpdateMappingProt(mm, Pa(Rodata), Virt(Rodata), InitBegin - Rodata, Ro) EXCEPT !.done = @ \union {"rodata"}])
MarkLinearTextAliasRo ==
    /\ mm.at = "up" /\ "alias" \notin mm.done
    /\ mm' = Cached([UpdateMappingProt(mm, Pa(0), PhysToVirt(Pa(0)), InitBegin, Ro) EXCEPT !.done = @ \union {"alias"}])

(* vunmap_page_range: blocks and pages cleared, bad entries too.           *)
VunmapPte(m, t, addr, end) ==
    [m EXCEPT !.tab[t] = [j \in DOMAIN @ |-> IF j \in Index(4, addr)..(Index(4, addr) + end - addr - 1) THEN None ELSE @[j]]]
VunmapPmd(m, t, addr, end) ==
    FoldLeft(LAMBDA n, c : LET e == n.tab[t][Index(3, c[1])]
                           IN CASE e.k = "leaf" -> [n EXCEPT !.tab[t][Index(3, c[1])] = None]
                                [] e.k = "table" -> VunmapPte(n, e.to, c[1], c[2]) [] OTHER -> n,
             m, Chunks(addr, end, Size(3)))
VunmapPud(m, t, addr, end) ==
    FoldLeft(LAMBDA n, c : LET e == n.tab[t][Index(2, c[1])]
                           IN CASE e.k = "leaf" -> [n EXCEPT !.tab[t][Index(2, c[1])] = None]
                                [] e.k = "table" -> VunmapPmd(n, e.to, c[1], c[2]) [] OTHER -> n,
             m, Chunks(addr, end, Size(2)))
VunmapPageRange(m, addr, end) ==
    FoldLeft(LAMBDA n, c : LET e == n.tab[n.pgd][Index(1, c[1])]
                           IN IF e.k = "table" THEN VunmapPud(n, e.to, c[1], c[2]) ELSE n,
             m, Chunks(addr, end, Size(1)))
UnmapKernelRange(m, addr, size) ==
    Unwanted(FlushKernelRange(VunmapPageRange(m, addr, addr + size), addr, addr + size), addr, size)
(* free_initmem                                                            *)
FreeInitmem ==
    /\ mm.at = "up" /\ "initmem" \notin mm.done
    /\ mm' = Cached([UnmapKernelRange([mm EXCEPT !.pool = @ \union Pa(InitBegin)..(Pa(InitEnd) - 1)], Virt(InitBegin), InitEnd - InitBegin)
                       EXCEPT !.done = @ \union {"initmem"}])

(* pmd_free_pte_page, of tables that map nothing.                          *)
FreeTable(m, t) == [m EXCEPT !.pool = @ \union {t}, !.tab = [p \in DOMAIN @ \ {t} |-> @[p]]]
FreePtePage(m, t, i) ==
    LET e == m.tab[t][i] IN IF e.k # "table" THEN m ELSE FreeTable([m EXCEPT !.tab[t][i] = None], e.to)
Vacant(m, t) == \A i \in DOMAIN m.tab[t] : m.tab[t][i] = None
FreeKernelTables ==
    /\ mm.at = "up" /\ "initmem" \in mm.done /\ "tables" \notin mm.done
    /\ LET t == mm.tab[mm.pgd][Index(1, Virt(InitBegin))].to
           i == Index(2, Virt(InitBegin))
           pmd == mm.tab[t][i].to
           vacant == {j \in 0..(Ptrs[3] - 1) : mm.tab[pmd][j].k = "table" /\ Vacant(mm, mm.tab[pmd][j].to)}
       IN  mm' = [FoldSet(LAMBDA j, n : FreePtePage(n, pmd, j), mm, vacant) EXCEPT !.done = @ \union {"tables"}]

Next ==
    \/ EarlyFixmapInit \/ FixmapRemapFdt \/ FixmapRemapConsole \/ PagingInit \/ VmemmapInit
    \/ \E r \in IoRanges : Ioremap(r)
    \/ MarkRodataRo \/ MarkLinearTextAliasRo \/ FreeInitmem \/ FreeKernelTables

-----------------------------------------------------------------------------
(* kern_addr_valid                                                         *)
PfnValid(p) == \E i \in DOMAIN Conf.banks : Conf.banks[i][1] <= p /\ p < Conf.banks[i][2]
KernAddrValid(va) ==
    LET e1 == mm.tab[mm.pgd][Index(1, va)]
        e2 == IF e1 = None THEN None ELSE mm.tab[e1.to][Index(2, va)]
        e3 == IF e2.k # "table" THEN None ELSE mm.tab[e2.to][Index(3, va)]
        e4 == IF e3.k # "table" THEN None ELSE mm.tab[e3.to][Index(4, va)]
    IN  CASE e1 = None -> FALSE [] e2 = None -> FALSE [] e2.k = "leaf" -> PfnValid(e2.to)
          [] e3 = None -> FALSE [] e3.k = "leaf" -> PfnValid(e3.to) [] e4 = None -> FALSE [] OTHER -> PfnValid(e4.to)

Reached(t) == {mm.tab[t][i].to : i \in {j \in DOMAIN mm.tab[t] : mm.tab[t][j].k = "table"}}
Links(t) == Cardinality({i \in DOMAIN mm.tab[t] : mm.tab[t][i].k = "table"})
Puds == Reached(mm.pgd)
Pmds == UNION {Reached(t) : t \in Puds}
Ptes == UNION {Reached(t) : t \in Pmds}
(* Contiguous entries stand in whole aligned groups that map one run.      *)
ContGroups(t, n, size) == \A i \in DOMAIN mm.tab[t] : mm.tab[t][i].cont =>
    LET g == RoundDown(i, n)
    IN  /\ mm.tab[t][g].to % (n * size) = 0
        /\ \A j \in 0..(n - 1) : mm.tab[t][g + j] = [mm.tab[t][g] EXCEPT !.to = @ + j * size]

(* The tables map exactly what the callers asked for, each page once:      *)
(* whatever mix of blocks, contiguous runs and pages the builder chose,    *)
(* up to the last page of the address space, without a BUG_ON.  No TLB     *)
(* keeps a translation that is gone or had more permission.  The tables    *)
(* form a tree of pages that are not free, the fixmap slots are empty when *)
(* no one builds, contiguous runs are whole, and kern_addr_valid() tells   *)
(* mapped memory.  Nothing is writable and executable unless rodata=off,   *)
(* no free page is executable, and once both aliases are sealed nothing    *)
(* writes to text or rodata (mmu.c).                                       *)
MmuExact ==
    mm.at \notin {"start", "stuck"} =>
        LET to == [va \in 0..(Span - 1) |-> Walk(mm, mm.pgd, va)]
            mapped == {va \in DOMAIN to : to[va] # Nowhere}
            sealed == Pa(0)..(Pa(InitBegin) - 1)
        IN  /\ ~mm.bug
            /\ mapped = DOMAIN mm.want /\ \A va \in mapped : to[va] = mm.want[va]
            /\ \A t \in mm.tlb : t[2] = to[t[1]]
            /\ \A s \in 1..4 : mm.slot[s] = NoPage
            /\ LET all == {mm.pgd} \union Puds \union Pmds \union Ptes
               IN  /\ all \subseteq DOMAIN mm.tab /\ all \intersect mm.pool = {}
                   /\ Cardinality(all) = 1 + FoldSet(LAMBDA t, n : n + Links(t), 0, all)
            /\ \A t \in Ptes : ContGroups(t, ContPtes, 1)
            /\ \A t \in Pmds : ContGroups(t, ContPmds, Section)
            /\ mm.at \in {"paged", "up"} => \A va \in DOMAIN to : KernAddrValid(va) = (va \in mapped /\ PfnValid(to[va][1]))
            /\ Conf.rodata # "off" => \A va \in mapped : ~(Writable(to[va][2]) /\ Exec(to[va][2]))
            /\ \A va \in mapped : to[va][1] \in mm.pool => ~Exec(to[va][2])
            /\ {"rodata", "alias"} \subseteq mm.done /\ Conf.rodata # "off" =>
                    \A va \in mapped : to[va][1] \in sealed => ~Writable(to[va][2])
            /\ \A i \in DOMAIN mm.ios :
                    LET r == mm.ios[i][1]
                    IN mm.ios[i][2] >= 0 => \A u \in 0..(r[2] - 1) :
                        to[(mm.ios[i][2] + u) \div 2] = <<(r[1] + u) \div 2, Dev>>

-----------------------------------------------------------------------------
(***************************************************************************)
(* One page table entry shared by the software, which changes it under the *)
(* page table lock, and the walkers of the CPUs, which set its access flag *)
(* and, with DBM, its dirty state at any time: the pte_* and ptep_*        *)
(* operations of asm/pgtable.h, mm/pgtable-generic.c and                   *)
(* ptep_set_access_flags() of arch/arm64/mm/fault.c.                       *)
(*                                                                         *)
(* A pte is the set of its attribute bits.  The software works by          *)
(* read and compare-and-exchange: pt.cur is the value it last read and     *)
(* pt.got the value it took out of the table.  pt.tlb holds the entries a  *)
(* CPU may have cached; pt.written and pt.touched are what the CPUs did to *)
(* the page that no one has been told yet.                                 *)
(***************************************************************************)
VARIABLE pt

Valid == "valid"
Af == "af"
Write == "write"      \* PTE_WRITE is PTE_DBM
Rdonly == "rdonly"
Dirty == "dirty"
ProtNone == "protnone"

pte_present(p) == p \intersect {Valid, ProtNone} # {}
pte_valid_young(p) == {Valid, Af} \subseteq p
pte_hw_dirty(p) == Write \in p /\ Rdonly \notin p
pte_dirty(p) == Dirty \in p \/ pte_hw_dirty(p)
pte_young(p) == Af \in p
pte_accessible(p) == pte_valid_young(p)
pte_wrprotect(p) == (p \ {Write}) \union {Rdonly}
pte_mkwrite(p) == (p \union {Write}) \ {Rdonly}
pte_mkdirty(p) == IF Write \in p THEN (p \union {Dirty}) \ {Rdonly} ELSE p \union {Dirty}
pte_mkold(p) == p \ {Af}
pte_mkyoung(p) == p \union {Af}
pmd_mknotpresent(p) == p \ {Valid}
(* A present entry's PTE_RDONLY belongs to the hardware.                   *)
pte_same(a, b) ==
    LET cmp(p) == IF pte_present(p) THEN p \ {Rdonly} ELSE p IN cmp(a) = cmp(b)
Modified == {Rdonly, ProtNone, Valid, Write}
pte_modify(p, prot) ==
    LET q == IF pte_hw_dirty(p) THEN pte_mkdirty(p) ELSE p
    IN (q \ Modified) \union (prot \intersect Modified)

(* The protections of a page: PAGE_SHARED, PAGE_READONLY, PAGE_NONE.       *)
Prots == {{Valid, Rdonly, Write}, {Valid, Rdonly}, {ProtNone, Rdonly}}
Fresh == {p \union a : p \in Prots, a \in {{}, {Af}}}

Idle == [op |-> "idle", entry |-> {}]
PteInit == \E p \in Fresh :
    pt = [pte |-> p, tlb |-> {}, do |-> Idle, last |-> Idle, cur |-> {}, got |-> {}, written |-> FALSE, touched |-> FALSE]

(* The CPUs: a walk that sets the access flag and fills a TLB; a store     *)
(* through a clean writable entry clears PTE_RDONLY in memory; one through *)
(* a cached dirty entry touches no memory.                                 *)
Walker ==
    /\ Valid \in pt.pte
    /\ pt' = [pt EXCEPT !.pte = pte_mkyoung(@), !.tlb = @ \union {pte_mkyoung(pt.pte)},
                        !.touched = @ \/ Af \notin pt.pte]
Store ==
    /\ {Valid, Write} \subseteq pt.pte
    /\ LET p == pte_mkyoung(pt.pte) \ {Rdonly}
       IN pt' = [pt EXCEPT !.pte = p, !.tlb = @ \union {p}, !.written = TRUE, !.touched = @ \/ Af \notin pt.pte]
StoreCached ==
    /\ \E e \in pt.tlb : pte_hw_dirty(e)
    /\ pt' = [pt EXCEPT !.written = TRUE]

-----------------------------------------------------------------------------
Begin(op, entry) == [op |-> op, entry |-> entry]
Done(s) == [s EXCEPT !.do = Idle, !.last = s.do, !.cur = {}]
(* What each loop would store for the value it has read.                   *)
SetAccessFlags(p, entry) ==
    LET e == entry \intersect {Rdonly, Af, Write, Dirty}
    IN (p \union (e \ {Rdonly})) \ (IF Rdonly \in e THEN {} ELSE {Rdonly})
SetWrprotect(p) == pte_wrprotect(IF pte_hw_dirty(p) THEN pte_mkdirty(p) ELSE p)
Stored(d, p) ==
    CASE d.op = "flags" -> SetAccessFlags(p, d.entry)
      [] d.op = "wrprotect" -> SetWrprotect(p)
      [] OTHER -> pte_mkold(p)
(* ptep_set_access_flags() gets an entry made from what the fault handler  *)
(* read before.                                                            *)
Start ==
    /\ pt.do.op = "idle" /\ pte_present(pt.pte)
    /\ \/ \E op \in {"wrprotect", "young", "youngflush"} : pt' = [pt EXCEPT !.do = Begin(op, {}), !.cur = pt.pte]
       \/ \E e \in {pte_mkyoung(pt.pte), pte_mkdirty(pte_mkyoung(pt.pte)), pte_mkwrite(pte_mkdirty(pte_mkyoung(pt.pte)))} :
            /\ Valid \in pt.pte
            /\ pt' = [pt EXCEPT !.do = Begin("fault", e)]
ReadFlags ==
    /\ pt.do.op = "fault"
    /\ pt' = IF pte_same(pt.pte, pt.do.entry) THEN Done(pt)
             ELSE [pt EXCEPT !.do.op = "flags", !.cur = pt.pte]
(* cmpxchg_relaxed(): the new value or another turn with what is there.    *)
Cmpxchg ==
    /\ pt.do.op \in {"flags", "wrprotect", "young", "youngflush"}
    /\ LET new == Stored(pt.do, pt.cur)
           set == Done([pt EXCEPT !.pte = new])
           young == pt.do.op \in {"young", "youngflush"} /\ pte_young(pt.cur)
       IN  IF pt.pte # pt.cur THEN pt' = [pt EXCEPT !.cur = pt.pte]
           ELSE \E flushed \in (CASE pt.do.op = "flags" -> {TRUE} [] pt.do.op = "youngflush" /\ young -> BOOLEAN [] OTHER -> {FALSE}) :
                pt' = [set EXCEPT !.tlb = IF flushed THEN {} ELSE @, !.touched = @ /\ ~young]
(* ptep_get_and_clear, pmdp_establish: one exchange; then the flush of     *)
(* ptep_clear_flush() and pmdp_invalidate(), or the commit of              *)
(* ptep_modify_prot_start().                                               *)
Exchange ==
    /\ pt.do.op = "idle" /\ pte_present(pt.pte)
    /\ \/ \E op \in {"clear", "modify"} : pt' = [pt EXCEPT !.do = Begin(op, {}), !.got = pt.pte, !.pte = {}]
       \/ pt' = [pt EXCEPT !.do = Begin("invalidate", {}), !.cur = pt.pte]
(* pmdp_invalidate() reads the entry before it exchanges it.               *)
Establish ==
    /\ pt.do.op = "invalidate"
    /\ pt' = [pt EXCEPT !.do.op = "clear", !.got = pt.pte, !.pte = pmd_mknotpresent(pt.cur)]
Flush ==
    /\ pt.do.op = "clear"
    /\ pt' = Done(IF pt.pte # {} \/ pte_accessible(pt.got) THEN [pt EXCEPT !.tlb = {}] ELSE pt)
Commit ==
    /\ pt.do.op = "modify"
    /\ \E prot \in Prots : pt' = Done([pt EXCEPT !.pte = pte_modify(pt.got, prot), !.got = {}])
(* set_pte_at() of another page into the empty entry.                      *)
SetPteAt ==
    /\ pt.do.op = "idle" /\ ~pte_present(pt.pte)
    /\ \E p \in Fresh :
        pt' = [pt EXCEPT !.pte = p, !.tlb = {}, !.last = Idle, !.got = {}, !.written = FALSE, !.touched = FALSE]

PteNext ==
    \/ Walker \/ Store \/ StoreCached
    \/ Start \/ ReadFlags \/ Cmpxchg \/ Exchange \/ Establish \/ Flush \/ Commit \/ SetPteAt

-----------------------------------------------------------------------------
(* Whatever the CPUs do between the software's read and its exchange, what *)
(* they did is not forgotten: a page that was written is dirty in the      *)
(* table or in the value taken out of it, a first access stays visible     *)
(* until it is reported, ptep_set_access_flags() ends no less permissive   *)
(* than it was asked to, a write-protected entry is read-only to the       *)
(* hardware too and stays so (asm/pgtable.h, fault.c).                     *)
PteExact ==
    /\ pt.written => pte_dirty(pt.pte) \/ pte_dirty(pt.got)
    /\ pt.touched => pte_young(pt.pte) \/ pte_young(pt.got)
    /\ Write \notin pt.pte /\ pt.pte # {} => Rdonly \in pt.pte
    /\ pt.last.op = "flags" /\ pt.do.op = "idle" =>
          {Af, Write, Dirty} \intersect pt.last.entry \subseteq pt.pte
    /\ pt.last.op = "wrprotect" /\ pt.do.op = "idle" => Write \notin pt.pte
=============================================================================
