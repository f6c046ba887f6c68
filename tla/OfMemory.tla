------------------------------ MODULE OfMemory ------------------------------
(***************************************************************************)
(* The memory map at boot, read from the flat device tree: drivers/of/     *)
(* fdt.c (chosen, root cells, memory nodes, reserved memory), drivers/of/  *)
(* of_reserved_mem.c and arch/arm64/core/init.c over memblock.             *)
(*                                                                         *)
(* om.mem and om.res are the addresses in memblock's memory and reserved   *)
(* lists; om.rmem is reserved_mem[].  om.conf is what the boot loader      *)
(* hands over, from which the device tree is built:                        *)
(*   mem     ranges <<base, size>> of the memory node                      *)
(*   usable, initrd, dtb, kernel   ranges, <<>> when absent                *)
(*   rsv     the header's memory reservations                              *)
(*   nodes   the children of /reserved-memory: [name, reg, size, align,    *)
(*           ranges, nomap, ok, phandle]; reg <<>>: a dynamic region       *)
(***************************************************************************)
EXTENDS Fdt

CONSTANTS Confs, AddrCells, SizeCells,
          PageSize, CacheLine, Top,     \* Top is 2^64
          PhysEnd, LinearSize, MemstartAlign, MaxRegions

VARIABLE om

ReservedMemory == 10
MemStr == <<4>>
Bytes(x, n) == FlattenSeq([i \in 1..n |-> [j \in 1..Word |-> (x \div 16 ^ (Word * (n - i) + Word - j)) % 16]])
RangeBytes(r) == Bytes(r[1], AddrCells) \o Bytes(r[2], SizeCells)
RangesBytes(rs) == FlattenSeq([i \in DOMAIN rs |-> RangeBytes(rs[i])])
If(b, q) == IF b THEN <<q>> ELSE <<>>
NodeOf(r) ==
    [n |-> r.name, c |-> <<>>,
     p |-> If(r.reg # <<>>, <<"reg", RangesBytes(r.reg)>>) \o If(r.size # 0, <<"size", Bytes(r.size, SizeCells)>>)
           \o If(r.align # 0, <<"alignment", Bytes(r.align, AddrCells)>>)
           \o If(r.ranges # <<>>, <<"alloc-ranges", RangesBytes(r.ranges)>>)
           \o If(r.nomap, <<"no-map", <<>>>>) \o If(~r.ok, <<"status", <<9, 0>>>>)
           \o If(r.phandle # 0, <<"phandle", Bytes(r.phandle, 1)>>)]
TreeOf(conf) ==
    LET cells == <<<<"#address-cells", Bytes(AddrCells, 1)>>, <<"#size-cells", Bytes(SizeCells, 1)>>>>
        chosen == If(conf.usable # <<>>, <<"linux,usable-memory-range", RangeBytes(conf.usable)>>)
                  \o If(conf.initrd # <<>>, <<"linux,initrd-start", Bytes(conf.initrd[1], AddrCells)>>)
                  \o If(conf.initrd # <<>>, <<"linux,initrd-end", Bytes(conf.initrd[1] + conf.initrd[2], AddrCells)>>)
    IN  [n |-> 0, p |-> cells,
         c |-> <<[n |-> Chosen, p |-> chosen, c |-> <<>>],
                 [n |-> 11, p |-> <<<<"device_type", Append(MemStr, 0)>>, <<"reg", RangesBytes(conf.mem)>>>>, c |-> <<>>],
                 [n |-> ReservedMemory, p |-> cells \o <<<<"ranges", <<>>>>>>,
                  c |-> [i \in DOMAIN conf.nodes |-> NodeOf(conf.nodes[i])]],
                 [n |-> 12, p |-> <<>>, c |-> <<[n |-> 13, p |-> <<<<"reg", Bytes(1, 2)>>>>, c |-> <<>>]>>]>>]

-----------------------------------------------------------------------------
(* memblock, by what its lists hold.  A range past the top is cut there.   *)
Addrs(base, size) == base..(IF base + size > Top THEN Top - 1 ELSE base + size - 1)
MemAdd(m, base, size) == [m EXCEPT !.mem = @ \union Addrs(base, size)]
MemRemove(m, base, size) == [m EXCEPT !.mem = @ \ Addrs(base, size)]
MemReserve(m, base, size) == [m EXCEPT !.res = @ \union Addrs(base, size)]
MemFree(m, base, size) == [m EXCEPT !.res = @ \ Addrs(base, size)]
StartOfDRAM(m) == IF m.mem = {} THEN 0 ELSE CHOOSE a \in m.mem : \A b \in m.mem : a <= b
EndOfDRAM(m) == IF m.mem = {} THEN 0 ELSE 1 + CHOOSE a \in m.mem : \A b \in m.mem : a >= b
(* memblock_alloc_base: the highest aligned free place below end, never in *)
(* the first page; 0 when there is none.                                   *)
AllocBase(m, size, align, end) ==
    LET fits == {b \in m.mem : /\ b >= PageSize /\ b % align = 0 /\ b + size <= end
                               /\ Addrs(b, size) \subseteq m.mem \ m.res}
    IN IF fits = {} THEN 0 ELSE CHOOSE b \in fits : \A c \in fits : c <= b

Val(f, o, name) == PropVal(f, GetProperty(f, o, name))
Has(f, o, name) == GetProperty(f, o, name) >= 0
Ranges(v) == [i \in 1..(NCells(v) \div (AddrCells + SizeCells)) |->
    LET at == (i - 1) * (AddrCells + SizeCells)
    IN <<ReadNumber(v, at, AddrCells), ReadNumber(v, at + AddrCells, SizeCells)>>]
RoundUp(x, n) == ((x + n - 1) \div n) * n
RoundDown(x, n) == (x \div n) * n

(* of_scan_flat_dt: every node with its depth, in order.                   *)
RECURSIVE ScanFrom(_, _, _)
ScanFrom(f, o, d) ==
    Bind(NextNode(f, o, d, TRUE), LAMBDA r :
       IF r.off < 0 \/ r.d < 0 THEN <<>> ELSE <<<<r.off, r.d>>>> \o ScanFrom(f, r.off, r.d))
Scan(f) == ScanFrom(f, -1, -1)

(* early_init_dt_add_memory_arch: whole pages inside the range.            *)
AddMemoryArch(m, base, size) ==
    LET lead == (PageSize - (base % PageSize)) % PageSize
    IN  IF size < PageSize - (base % PageSize) THEN m
        ELSE MemAdd(m, base + lead, RoundDown(size - lead, PageSize))
(* early_init_dt_scan_memory                                               *)
ScanMemory(m, f) ==
    LET nodes == SelectSeq(Scan(f), LAMBDA x : Has(f, x[1], "device_type") /\ CString(Val(f, x[1], "device_type")) = MemStr)
        regs(o) == IF Has(f, o, "linux,usable-memory") THEN Ranges(Val(f, o, "linux,usable-memory"))
                   ELSE IF Has(f, o, "reg") THEN Ranges(Val(f, o, "reg")) ELSE <<>>
        all == FlattenSeq([i \in DOMAIN nodes |-> regs(nodes[i][1])])
    IN FoldLeft(LAMBDA n, r : IF r[2] = 0 THEN n ELSE AddMemoryArch(n, r[1], r[2]), m, all)
(* early_init_dt_scan_chosen, early_init_dt_check_for_initrd               *)
ChosenNode(f) == LET c == SelectSeq(Scan(f), LAMBDA x : x[2] = 1 /\ GetName(f, x[1]) \in {Chosen, ChosenAt0})
                 IN IF c = <<>> THEN -1 ELSE c[1][1]
Initrd(f) ==
    LET o == ChosenNode(f)
    IN  IF o < 0 \/ ~Has(f, o, "linux,initrd-start") \/ ~Has(f, o, "linux,initrd-end") THEN <<0, 0>>
        ELSE LET s == ReadNumber(Val(f, o, "linux,initrd-start"), 0, NCells(Val(f, o, "linux,initrd-start")))
                 e == ReadNumber(Val(f, o, "linux,initrd-end"), 0, NCells(Val(f, o, "linux,initrd-end")))
             IN <<s, (e - s) % Top>>

(* fdt_enforce_memory_region and memblock_cap_memory_range                 *)
EnforceMemoryRegion(m, f) ==
    LET o == ChosenNode(f)
    IN
    Bind(IF o < 0 \/ GetName(f, o) # Chosen \/ ~Has(f, o, "linux,usable-memory-range") THEN <<0, 0>>
         ELSE Ranges(Val(f, o, "linux,usable-memory-range"))[1], LAMBDA r :
       IF r[2] = 0 THEN m
       ELSE [m EXCEPT !.mem = @ \intersect Addrs(r[1], r[2]), !.res = @ \intersect Addrs(r[1], r[2])])

(* arm64_memblock_init up to the reservations: memory the linear map can   *)
(* not cover is removed, the initrd put back.                              *)
ClipLinear(m, kernel) ==
    LET start == RoundDown(StartOfDRAM(m), MemstartAlign)
        kernel_end == kernel[1] + kernel[2]
        high == MemRemove(m, IF start + LinearSize > kernel_end THEN start + LinearSize ELSE kernel_end, Top)
        again == RoundUp(EndOfDRAM(high) - LinearSize, MemstartAlign)
    IN  IF start + LinearSize < EndOfDRAM(high) THEN [m |-> MemRemove(high, 0, again), start |-> again]
        ELSE [m |-> high, start |-> start]
AddInitrd(m, initrd) ==
    LET base == RoundDown(initrd[1], PageSize)
        size == RoundUp(initrd[2], PageSize)
    IN  IF initrd[2] = 0 \/ base < StartOfDRAM(m) \/ base + size > StartOfDRAM(m) + LinearSize THEN m
        ELSE MemReserve(MemAdd(MemRemove(m, base, size), base, size), base, size)

-----------------------------------------------------------------------------
(* Reserved memory                                                         *)
ReserveArch(m, base, size, nomap) == IF nomap THEN MemRemove(m, base, size) ELSE MemReserve(m, base, size)
(* early_init_fdt_scan_reserved_mem: the header's entries up to size 0.    *)
HeaderReserved(m, rsv) == FoldLeft(LAMBDA n, x : ReserveArch(n, x[1], x[2], FALSE), m, rsv)
SaveNode(m, o, name, base, size) ==
    IF Len(m.rmem) = MaxRegions THEN m
    ELSE [m EXCEPT !.rmem = Append(@, [node |-> o, name |-> name, base |-> base, size |-> size, phandle |-> 0])]
(* __reserved_mem_reserve_reg                                              *)
ReserveReg(m, f, o) ==
    LET rs == Ranges(Val(f, o, "reg"))
        each == FoldLeft(LAMBDA n, r : IF r[2] = 0 THEN n ELSE ReserveArch(n, r[1], r[2], Has(f, o, "no-map")), m, rs)
    IN  IF NCells(Val(f, o, "reg")) % (AddrCells + SizeCells) # 0 THEN m
        ELSE IF rs = <<>> THEN m ELSE SaveNode(each, o, GetName(f, o), rs[1][1], rs[1][2])
CheckRoot(f, o) ==
    /\ Has(f, o, "#size-cells") /\ Has(f, o, "#address-cells") /\ Has(f, o, "ranges")
    /\ ReadNumber(Val(f, o, "#size-cells"), 0, 1) = SizeCells
    /\ ReadNumber(Val(f, o, "#address-cells"), 0, 1) = AddrCells
(* __fdt_scan_reserved_mem, called on one node after another until it says *)
(* to stop.                                                                *)
ScanReserved(m, f) ==
    LET all == Scan(f)
        at == SelectInSeq(all, LAMBDA x : x[2] = 1 /\ GetName(f, x[1]) = ReservedMemory)
        after == SubSeq(all, at + 1, Len(all))
        end == SelectInSeq(after, LAMBDA x : x[2] < 2)
        under == IF end = 0 THEN after ELSE SubSeq(after, 1, end - 1)
        one(n, o) == IF ~FdtAvailable(f, o) THEN n
                     ELSE IF Has(f, o, "reg") THEN ReserveReg(n, f, o)
                     ELSE IF Has(f, o, "size") THEN SaveNode(n, o, GetName(f, o), 0, 0) ELSE n
    IN IF at = 0 \/ ~CheckRoot(f, all[at][1]) THEN m ELSE FoldLeft(LAMBDA n, x : one(n, x[1]), m, under)

(* early_init_dt_alloc_reserved_memory_arch: base 0 when it fails.         *)
(* A plausible slip: what lies below the window is not given back.         *)
AllocReservedArchKeep(m, size, align, start, end, nomap) ==
    LET base == AllocBase(m, size, IF align = 0 THEN CacheLine ELSE align, IF end = 0 THEN Top ELSE end)
        got == MemReserve(m, base, size)
    IN  IF base = 0 THEN [m |-> m, base |-> 0]
        ELSE IF base < start THEN [m |-> got, base |-> 0]
        ELSE [m |-> IF nomap THEN MemRemove(got, base, size) ELSE got, base |-> base]
AllocReservedArch(m, size, align, start, end, nomap) ==
    LET base == AllocBase(m, size, IF align = 0 THEN CacheLine ELSE align, IF end = 0 THEN Top ELSE end)
        got == MemReserve(m, base, size)
    IN  IF base = 0 THEN [m |-> m, base |-> 0]
        ELSE IF base < start THEN [m |-> MemFree(got, base, size), base |-> 0]
        ELSE [m |-> IF nomap THEN MemRemove(got, base, size) ELSE got, base |-> base]
(* __reserved_mem_alloc_size: the windows in order, or anywhere.           *)
RECURSIVE TryRanges(_, _, _, _, _)
TryRanges(m, size, align, rs, nomap) ==
    IF rs = <<>> THEN [m |-> m, base |-> 0]
    ELSE LET a == AllocReservedArch(m, size, align, rs[1][1], rs[1][1] + rs[1][2], nomap)
         IN IF a.base # 0 THEN a ELSE TryRanges(a.m, size, align, Tail(rs), nomap)
AllocSize(m, f, i) ==
    LET o == m.rmem[i].node
        size == ReadNumber(Val(f, o, "size"), 0, SizeCells)
        align == IF Has(f, o, "alignment") THEN ReadNumber(Val(f, o, "alignment"), 0, AddrCells) ELSE 0
        nomap == Has(f, o, "no-map")
    IN
    Bind(IF Has(f, o, "alloc-ranges") THEN TryRanges(m, size, align, Ranges(Val(f, o, "alloc-ranges")), nomap)
         ELSE AllocReservedArch(m, size, align, 0, 0, nomap), LAMBDA a :
        IF ~Has(f, o, "size") \/ a.base = 0 THEN (IF Has(f, o, "size") THEN a.m ELSE m)
        ELSE [a.m EXCEPT !.rmem[i].base = a.base, !.rmem[i].size = size])
(* fdt_init_reserved_mem, once the regions are sorted by base.             *)
RegionPhandle(f, o) ==
    LET ph == SelectSeq(<<"phandle", "linux,phandle">>, LAMBDA q : Has(f, o, q))
    IN IF ph = <<>> THEN 0 ELSE ReadNumber(Val(f, o, ph[1]), 0, NCells(Val(f, o, ph[1])))
RECURSIVE InitRegions(_, _, _)
InitRegions(m, f, i) ==
    LET k == [m EXCEPT !.rmem[i].phandle = RegionPhandle(f, m.rmem[i].node)]
    IN  IF i > Len(m.rmem) THEN m
        ELSE InitRegions(IF m.rmem[i].size = 0 THEN AllocSize(k, f, i) ELSE k, f, i + 1)
InitReserved(m, f) == InitRegions(m, f, 1)
(* sort: any order of the regions by base.                                 *)
Sorted(s) == {p \in Permutations(DOMAIN s) : \A i, j \in DOMAIN s : i < j => s[p[i]].base <= s[p[j]].base}
(* of_reserved_mem_lookup                                                  *)
ReservedLookup(m, name) == SelectInSeq(m.rmem, LAMBDA r : r.name = name)

-----------------------------------------------------------------------------
Init == \E conf \in Confs :
    om = [conf |-> conf, at |-> "start", mem |-> {}, res |-> {}, rmem |-> <<>>, initrd |-> <<0, 0>>, start |-> -1, low |-> {}]

(* setup_machine_fdt: the blob is reserved, then early_init_dt_scan.       *)
SetupMachineFdt ==
    /\ om.at = "start"
    /\ \E f \in {FlatTree(TreeOf(om.conf))} : \E m \in {ScanMemory(MemReserve(om, om.conf.dtb[1], om.conf.dtb[2]), f)} :
        om' = [m EXCEPT !.at = "scanned", !.initrd = Initrd(f)]

(* arm64_memblock_init                                                     *)
Arm64MemblockInit ==
    /\ om.at = "scanned" /\ om.mem # {}
    /\ \E f \in {FlatTree(TreeOf(om.conf))} :
       \E c \in {ClipLinear(MemRemove(EnforceMemoryRegion(om, f), PhysEnd, Top), om.conf.kernel)} :
       \E k \in {MemReserve(AddInitrd(c.m, om.initrd), om.conf.kernel[1], om.conf.kernel[2])} :
       \E r \in {ScanReserved(HeaderReserved(k, om.conf.rsv), f)} :
       \E p \in Sorted(r.rmem) :
        om' = [InitReserved([r EXCEPT !.rmem = [i \in DOMAIN p |-> r.rmem[p[i]]]], f)
                 EXCEPT !.at = "done", !.start = c.start, !.low = c.m.mem]
Next == SetupMachineFdt \/ Arm64MemblockInit

-----------------------------------------------------------------------------
NodesOf(conf) == SelectSeq(conf.nodes, LAMBDA r : r.ok)
Saved(r) == om.rmem[ReservedLookup(om, r.name)]
Static(r) == UNION {Addrs(r.reg[i][1], r.reg[i][2]) : i \in {j \in DOMAIN r.reg : r.reg[j][2] > 0}}
WholePages(r) == {a \in Addrs(r[1], r[2]) : /\ RoundDown(a, PageSize) >= r[1]
                                            /\ RoundDown(a, PageSize) + PageSize <= r[1] + r[2]}
StaticAll == UNION {Static(r) : r \in Range(NodesOf(om.conf))}
(* A region of the same size, kept from every other use, that a dynamic    *)
(* node could have had.                                                    *)
CouldFit(r) == \E b \in om.low :
    /\ b >= PageSize /\ b % (IF r.align = 0 THEN CacheLine ELSE r.align) = 0
    /\ Addrs(b, r.size) \subseteq om.mem \ om.res
    /\ r.ranges = <<>> \/ \E i \in DOMAIN r.ranges : b >= r.ranges[i][1] /\ b + r.size <= r.ranges[i][1] + r.ranges[i][2]

(* When the memory map is set up: memory is the whole pages of the memory  *)
(* nodes (early_init_dt_add_memory_arch) inside what is usable, physically *)
(* addressable and in the linear map, plus the initrd; the blob, the       *)
(* kernel, the header's reservations and every fixed reserved node are     *)
(* reserved or, for no-map nodes, not memory; and every dynamic node has   *)
(* memory of its own, aligned and in one of its windows, or there is none  *)
(* left that would do (of_reserved_mem.c), whatever order the regions were *)
(* sorted in.                                                              *)
MemoryExact ==
    LET conf == om.conf
        raw == UNION {WholePages(r) : r \in Range(conf.mem)}
        usable == IF conf.usable = <<>> THEN raw ELSE raw \intersect Addrs(conf.usable[1], conf.usable[2])
        linear == om.start..(om.start + LinearSize - 1)
        dyn == SelectSeq(NodesOf(conf), LAMBDA r : r.reg = <<>>)
        own(r) == Addrs(Saved(r).base, Saved(r).size)
        kept == UNION {Addrs(x[1], x[2]) : x \in Range(conf.rsv) \union {conf.kernel}}
        nomap == UNION {Static(r) : r \in {x \in Range(NodesOf(conf)) : x.nomap}}
    IN  /\ om.at = "scanned" => om.mem = raw
        /\ om.at = "done" =>
            /\ om.start % MemstartAlign = 0
            /\ om.low = {a \in usable : a < PhysEnd} \intersect linear
            /\ kept \subseteq om.res
            /\ Addrs(conf.dtb[1], conf.dtb[2]) \intersect usable \subseteq om.res
            /\ StaticAll \subseteq om.res \union nomap /\ nomap \intersect om.mem = {}
            /\ \A i \in DOMAIN dyn : ReservedLookup(om, dyn[i].name) # 0 =>
                LET r == dyn[i]
                    s == Saved(r)
                IN  /\ s.phandle = r.phandle
                    /\ IF s.size = 0 THEN ~CouldFit(r)
                       ELSE /\ s.size = r.size /\ s.base % (IF r.align = 0 THEN CacheLine ELSE r.align) = 0
                            /\ r.ranges # <<>> => \E w \in Range(r.ranges) :
                                                    s.base >= w[1] /\ s.base + s.size <= w[1] + w[2]
                            /\ own(r) \intersect om.mem = IF r.nomap THEN {} ELSE own(r)
                            /\ own(r) \subseteq om.res
                            /\ own(r) \intersect (kept \union StaticAll) = {}
                            /\ \A j \in DOMAIN dyn : j # i /\ Saved(dyn[j]).size # 0 => own(dyn[j]) \intersect own(r) = {}
            (* Nothing else is reserved.                                   *)
            /\ om.res \subseteq kept \union StaticAll \union Addrs(conf.dtb[1], conf.dtb[2])
                    \union UNION {Addrs(om.rmem[i].base, om.rmem[i].size) : i \in DOMAIN om.rmem}
                    \union Addrs(RoundDown(om.initrd[1], PageSize), RoundUp(om.initrd[2], PageSize))

=============================================================================
