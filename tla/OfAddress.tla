----------------------------- MODULE OfAddress -----------------------------
(***************************************************************************)
(* Translation of addresses from device tree buses to the CPU:             *)
(* drivers/of/address.c over the unflattened tree and fdt_address.c over   *)
(* the flat one.                                                           *)
(*                                                                         *)
(* The state is a chain of buses under the root, with one device at its    *)
(* end: as buses write it in a .dts (ba.buses, ba.regs), and as the device *)
(* tree that encodes it in cells.  A bus is                                *)
(*   [kind, na, ns, ranges, dma, coherent]                                           *)
(* with ranges and dma either <<"none">>, <<"some", entries>>, where an    *)
(* entry [f, c, p, s] maps space f, child addresses c..c+s-1, to p.  The   *)
(* space f is 1 (I/O) or 2 (memory).                                       *)
(***************************************************************************)
EXTENDS Fdt

CONSTANTS RootBuses,    \* the buses the root may be
          Buses,        \* those that may be under it
          Regs,         \* the "reg" a device may have: a sequence of [f, a, s]
          MaxBuses, MaxAddr

VARIABLE ba

U64 == 16 ^ (2 * Word)
BAD == -1
PciStr == <<4>>
IsaNode == 2
IoFlag == 1
MemFlag == 2
MaxAddrCells == 4

-----------------------------------------------------------------------------
(* Cells                                                                   *)
CellBytes(x) == [i \in 1..Word |-> (x \div 16 ^ (Word - i)) % 16]
RECURSIVE NumberBytes(_, _)
NumberBytes(x, n) ==
    IF n = 0 THEN <<>> ELSE NumberBytes(x \div 16 ^ Word, n - 1) \o CellBytes(x % 16 ^ Word)
(* of_read_number into a u64: the high cells fall off.                     *)
OfReadNumber(v, i, n) == ReadNumber(v, i, n) % U64
CellsOf(v, i, n) == SubSeq(v, i * Word + 1, (i + n) * Word)
FirstCell(v) == ReadNumber(v, 0, 1)

(* The bus translators.  A bus is named by its kind.                       *)
MatchBus(node, n) ==
    IF IsType(node, n, PciStr) THEN "pci" ELSE IF NameEq(node, n, IsaNode) THEN "isa" ELSE "default"
CountCells(node, kind, dev) ==
    CASE kind = "pci" -> <<3, 2>>
      [] kind = "isa" -> <<2, 1>>
      [] OTHER -> <<NCellsUp(node, dev, "#address-cells"), NCellsUp(node, dev, "#size-cells")>>
BusOf(node, dev) == MatchBus(node, node[dev].parent)
BusCells(node, dev) == CountCells(node, BusOf(node, dev), dev)
CheckAddrCount(na) == na > 0 /\ na <= MaxAddrCells
CheckCounts(na, ns) == CheckAddrCount(na) /\ ns > 0
(* The high cell of a PCI address: the space in bits 24-25, here above the *)
(* low digit, and the register number below.                               *)
SpaceFlag(ss) == IF ss = 0 THEN 0 ELSE IF ss = 1 THEN IoFlag ELSE MemFlag
PciFlags(addr) == SpaceFlag((FirstCell(addr) \div 16) % 4)
GetFlags(kind, addr) ==
    CASE kind = "pci" -> PciFlags(addr)
      [] kind = "isa" -> IF FirstCell(addr) % 2 = 1 THEN IoFlag ELSE MemFlag
      [] OTHER -> MemFlag
(* map: the offset of the address into a range, or BAD.                    *)
OffsetIn(da, cp, s) == IF da < cp \/ da >= (cp + s) % U64 THEN BAD ELSE da - cp
MapCells(addr, range, skip, na, ns, pna) ==
    OffsetIn(OfReadNumber(addr, skip, na - skip), OfReadNumber(range, skip, na - skip),
             OfReadNumber(range, na + pna, ns))
BusMap(kind, addr, range, na, ns, pna) ==
    CASE kind = "pci" -> IF PciFlags(addr) # PciFlags(range) THEN BAD ELSE MapCells(addr, range, 1, na, ns, pna)
      [] kind = "isa" -> IF FirstCell(addr) % 2 # FirstCell(range) % 2 THEN BAD
                         ELSE MapCells(addr, range, 1, na, ns, pna)
      [] OTHER -> MapCells(addr, range, 0, na, ns, pna)
(* translate: the offset is added to the address, in at most two cells.    *)
AddCells(addr, offset, na) ==
    LET a == (OfReadNumber(addr, 0, na) + offset) % U64
    IN IF na = 1 THEN CellBytes(a % 16 ^ Word) ELSE NumberBytes(a, na)
BusTranslate(kind, addr, offset, na) ==
    IF kind = "default" THEN AddCells(addr, offset, na)
    ELSE CellsOf(addr, 0, 1) \o AddCells(CellsOf(addr, 1, na - 1), offset, na - 1)

RECURSIVE WalkRanges(_, _, _, _, _, _)
WalkRanges(kind, addr, ranges, na, ns, pna) ==
    IF NCells(ranges) < na + pna + ns THEN <<BAD, <<>>>>
    ELSE Bind(BusMap(kind, addr, ranges, na, ns, pna), LAMBDA o :
            IF o # BAD THEN <<o, CellsOf(ranges, na, pna)>>
            ELSE WalkRanges(kind, addr, SubSeq(ranges, (na + pna + ns) * Word + 1, Len(ranges)), na, ns, pna))
(* of_translate_one, fdt_translate_one: <<>> when it fails.                *)
TranslateOne(kind, pkind, has, ranges, addr, na, ns, pna) ==
    IF ~has THEN <<>>
    ELSE IF ranges = <<>>
    THEN BusTranslate(pkind, [i \in 1..(pna * Word) |-> 0], OfReadNumber(addr, 0, na), pna)
    ELSE LET w == WalkRanges(kind, addr, ranges, na, ns, pna)
         IN IF w[1] = BAD THEN <<>> ELSE BusTranslate(pkind, w[2], w[1], pna)

(* __of_translate_address: addr is in the cells of the bus dev is on.      *)
RECURSIVE TranslateUp(_, _, _, _, _, _)
TranslateUp(node, dev, kind, c, addr, rprop) ==
    LET pkind == BusOf(node, dev)
        pc == BusCells(node, dev)
        has == HasProp(node, dev, rprop)
    IN  IF addr = <<>> THEN BAD
        ELSE IF node[dev].parent = NULL THEN OfReadNumber(addr, 0, c[1])
        ELSE IF ~CheckCounts(pc[1], pc[2]) THEN BAD
        ELSE TranslateUp(node, node[dev].parent, pkind, pc,
                         TranslateOne(kind, pkind, has, IF has THEN GetProp(node, dev, rprop) ELSE <<>>,
                                      addr, c[1], c[2], pc[1]), rprop)
TranslateAddress(node, dev, addr, rprop) ==
    LET c == BusCells(node, dev)
    IN  IF node[dev].parent = NULL \/ ~CheckCounts(c[1], c[2]) THEN BAD
        ELSE TranslateUp(node, node[dev].parent, BusOf(node, dev), c, CellsOf(addr, 0, c[1]), rprop)

(* of_get_address, of_get_pci_address: [addr, size, flags], or no address. *)
NoAddress == [addr |-> <<>>, size |-> 0, flags |-> 0]
OnesOf(node, dev) ==
    Bind(BusCells(node, dev), LAMBDA c :
    LET kind == BusOf(node, dev)
        name == IF kind = "pci" THEN "assigned-addresses" ELSE "reg"
        v == IF HasProp(node, dev, name) THEN GetProp(node, dev, name) ELSE <<>>
        one == c[1] + c[2]
    IN  IF ~CheckAddrCount(c[1]) THEN <<>>
        ELSE [i \in 1..(NCells(v) \div one) |->
                LET e == CellsOf(v, (i - 1) * one, one)
                IN [addr |-> e, size |-> OfReadNumber(e, c[1], c[2]), flags |-> GetFlags(kind, e)]])
GetAddress(node, dev, index) ==
    Bind(OnesOf(node, dev), LAMBDA a :
       IF node[dev].parent = NULL \/ index >= Len(a) THEN NoAddress ELSE a[index + 1])
GetPciAddress(node, dev, bar) ==
    Bind(OnesOf(node, dev), LAMBDA a :
       LET i == SelectInSeq(a, LAMBDA e : FirstCell(e.addr) % 16 = bar)
       IN IF BusOf(node, dev) # "pci" \/ i = 0 THEN NoAddress ELSE a[i])

(* of_address_to_resource: [start, end], BAD when there is none; I/O       *)
(* addresses stop the kernel ("Now not support ioport").                   *)
NoResource == [start |-> BAD, end |-> BAD]
AddressToResource(node, dev, a) ==
    Bind(TranslateAddress(node, dev, a.addr, "ranges"), LAMBDA t :
        IF a.addr = <<>> \/ a.flags # MemFlag \/ t = BAD THEN NoResource
        ELSE [start |-> t, end |-> t + a.size - 1])
OfAddressToResource(node, dev, index) == AddressToResource(node, dev, GetAddress(node, dev, index))
FindMatchingNodeByAddress(node, from, table, base) ==
    FirstOr(SelectSeq(AllFrom(node, from),
                      LAMBDA n : MatchNode(node, n, table) # 0 /\ OfAddressToResource(node, n, 0).start = base))

(* of_pci_range_parser_one: the ranges of a PCI bus, those that continue   *)
(* one another taken as one.                                               *)
ParseRange(node, bus, v, pna) ==
    [flags |-> PciFlags(v), pci |-> OfReadNumber(v, 1, 2),
     cpu |-> TranslateAddress(node, bus, SubSeq(v, 3 * Word + 1, Len(v)), "ranges"),
     size |-> OfReadNumber(v, pna + 3, 2)]
RECURSIVE ParseRanges(_, _, _, _, _)
ParseRanges(node, bus, v, pna, out) ==
    IF NCells(v) < pna + 5 THEN out
    ELSE Bind(ParseRange(node, bus, v, pna), LAMBDA r :
         LET rest == SubSeq(v, (pna + 5) * Word + 1, Len(v))
             last == Last(out)
         IN  IF out # <<>> /\ r.flags = last.flags /\ r.pci = last.pci + last.size /\ r.cpu = last.cpu + last.size
             THEN ParseRanges(node, bus, rest, pna, Front(out) \o <<[last EXCEPT !.size = @ + r.size]>>)
             ELSE ParseRanges(node, bus, rest, pna, Append(out, r)))
PciRanges(node, bus) ==
    IF ~HasProp(node, bus, "ranges") THEN <<>>
    ELSE ParseRanges(node, bus, GetProp(node, bus, "ranges"), NCellsUp(node, bus, "#address-cells"), <<>>)

(* of_dma_get_range: the first non-empty dma-ranges above the device.      *)
RECURSIVE DmaNode(_, _)
DmaNode(node, n) ==
    LET up == node[n].parent
    IN  IF up = NULL \/ ~HasProp(node, up, "dma-ranges") THEN <<NULL, n>>
        ELSE IF GetProp(node, up, "dma-ranges") # <<>> THEN <<up, n>>
        ELSE DmaNode(node, up)
NoDma == [e |-> ENODEV, dma |-> 0, cpu |-> 0, size |-> 0]
DmaGetRange(node, np) ==
    LET at == DmaNode(node, np)
        v == GetProp(node, at[1], "dma-ranges")
        na == NCellsUp(node, at[2], "#address-cells")
    IN  Bind(TranslateAddress(node, np, v, "dma-ranges"), LAMBDA paddr :
        IF at[1] = NULL THEN NoDma
        ELSE IF paddr = BAD THEN [NoDma EXCEPT !.e = EINVAL]
        ELSE [e |-> 0, dma |-> OfReadNumber(v, 0, na), cpu |-> paddr,
              size |-> OfReadNumber(v, na + NCellsUp(node, at[1], "#address-cells"),
                                    NCellsUp(node, at[2], "#size-cells"))])
RECURSIVE DmaIsCoherent(_, _)
DmaIsCoherent(node, n) == n # NULL /\ (HasProp(node, n, "dma-coherent") \/ DmaIsCoherent(node, node[n].parent))

(* fdt_translate_address: the default bus only; a bus without its own cell *)
(* counts has those of the root.                                           *)
FdtCells(f, o, root) ==
    LET g(name, d) == LET p == GetProperty(f, o, name) IN IF p < 0 THEN d ELSE ReadNumber(PropVal(f, p), 0, 1)
    IN <<g("#address-cells", root[1]), g("#size-cells", root[2])>>
RECURSIVE FdtUp(_, _, _, _, _)
FdtUp(f, o, root, c, addr) ==
    LET parent == ParentOffset(f, o)
        p == GetProperty(f, o, "ranges")
    IN  Bind(FdtCells(f, parent, root), LAMBDA pc :
        IF addr = <<>> THEN BAD
        ELSE IF parent < 0 THEN OfReadNumber(addr, 0, c[1])
        ELSE IF ~CheckCounts(pc[1], pc[2]) THEN BAD
        ELSE FdtUp(f, parent, root, pc,
                   TranslateOne("default", "default", p >= 0, IF p >= 0 THEN PropVal(f, p) ELSE <<>>,
                                addr, c[1], c[2], pc[1])))
FdtTranslateFrom(f, bus, root, c, reg) ==
    IF reg < 0 \/ bus < 0 \/ ~CheckCounts(c[1], c[2]) THEN BAD
    ELSE FdtUp(f, bus, root, c, CellsOf(PropVal(f, reg), 0, c[1]))
FdtTranslateAddress(f, o) ==
    LET root == FdtCells(f, 0, <<1, 1>>)
        bus == ParentOffset(f, o)
    IN FdtTranslateFrom(f, bus, root, FdtCells(f, bus, root), GetProperty(f, o, "reg"))

-----------------------------------------------------------------------------
(* The chain of buses, grown one bus at a time, and its device tree.       *)
AddressInit == \E b \in RootBuses, r \in Regs : ba = [buses |-> <<b>>, regs |-> r]
(* An empty ranges under a PCI or ISA bus would lose the space.            *)
AddBus(b) ==
    /\ Len(ba.buses) <= MaxBuses
    /\ <<"some", <<>>>> \in {b.ranges, b.dma} => b.kind = "default" /\ Last(ba.buses).kind = "default"
    /\ ba' = [ba EXCEPT !.buses = Append(@, b)]
AddressNext == \E b \in Buses : AddBus(b)

EncAddr(b, f, a) ==
    CASE b.kind = "pci" -> CellBytes(16 * f) \o NumberBytes(a, 2)
      [] b.kind = "isa" -> CellBytes(f % 2) \o NumberBytes(a, 1)
      [] OTHER -> NumberBytes(a, b.na)
EncRanges(b, up, r) ==
    FlattenSeq([i \in DOMAIN r |-> EncAddr(b, r[i].f, r[i].c) \o EncAddr(up, r[i].f, r[i].p) \o NumberBytes(r[i].s, b.ns)])
BusProps(k) ==
    LET b == ba.buses[k]
        ranges(name, r) == IF k = 1 \/ r[1] = "none" THEN <<>> ELSE <<<<name, EncRanges(b, ba.buses[k - 1], r[2])>>>>
    IN  <<<<"#address-cells", CellBytes(b.na)>>, <<"#size-cells", CellBytes(b.ns)>>>>
        \o (IF b.kind = "pci" THEN <<<<"device_type", Append(PciStr, 0)>>>> ELSE <<>>)
        \o ranges("ranges", b.ranges) \o ranges("dma-ranges", b.dma)
        \o (IF b.coherent THEN <<<<"dma-coherent", <<>>>>>> ELSE <<>>)
Device ==
    LET b == Last(ba.buses)
        v == FlattenSeq([i \in DOMAIN ba.regs |->
                EncAddr(b, ba.regs[i].f, ba.regs[i].a) \o NumberBytes(ba.regs[i].s, b.ns)])
    IN [n |-> 1, p |-> <<<<IF b.kind = "pci" THEN "assigned-addresses" ELSE "reg", v>>>>, c |-> <<>>]
RECURSIVE ChainFrom(_)
ChainFrom(k) ==
    [n |-> IF k = 1 THEN 0 ELSE IF ba.buses[k].kind = "isa" THEN IsaNode ELSE 3, p |-> BusProps(k),
     c |-> <<IF k = Len(ba.buses) THEN Device ELSE ChainFrom(k + 1)>>]

(* What the chain says: address x of space f on bus k, as the CPU sees it, *)
(* through the ranges or the dma ranges.                                   *)
RECURSIVE CpuAddress(_, _, _, _)
CpuAddress(which, k, f, x) ==
    LET r == ba.buses[k][which]
        fits == {i \in DOMAIN r[2] : /\ ba.buses[k].kind = "default" \/ r[2][i].f = f
                                     /\ x \in r[2][i].c..(r[2][i].c + r[2][i].s - 1)}
        first == r[2][CHOOSE i \in fits : \A j \in fits : i <= j]
    IN  IF k = 1 THEN x
        ELSE IF r[1] = "none" THEN BAD
        ELSE IF r[2] = <<>> THEN CpuAddress(which, k - 1, f, x)
        ELSE IF fits = {} THEN BAD
        ELSE CpuAddress(which, k - 1, first.f, x - first.c + first.p)
(* No address crosses a bus whose addresses have no size.                  *)
Expected(which, k, f, x) ==
    IF \E j \in 1..k : ba.buses[j].ns = 0 THEN BAD ELSE CpuAddress(which, k, f, x)

(* The bytes a range or a list of parsed PCI ranges maps.                  *)
Span(f, pci, cpu, n) == {<<f, pci + i, cpu + i>> : i \in 0..(n - 1)}
Spans(rs) == UNION {Span(rs[i].flags, rs[i].pci, rs[i].cpu, rs[i].size) : i \in DOMAIN rs}

TranslationExact(node, dev, top) ==
    /\ \A f \in {IoFlag, MemFlag}, x \in 0..MaxAddr, which \in {"ranges", "dma"} :
        TranslateAddress(node, dev, EncAddr(ba.buses[top], f, x), IF which = "ranges" THEN which ELSE "dma-ranges")
            = Expected(which, top, f, x)
    /\ \A i \in 0..Len(ba.regs) :
        LET want == IF i = Len(ba.regs) THEN [f |-> 0, a |-> 0, s |-> 0] ELSE ba.regs[i + 1]
            mem == ba.buses[top].kind = "default" \/ want.f = MemFlag
            t == Expected("ranges", top, want.f, want.a)
        IN OfAddressToResource(node, dev, i) =
            IF i = Len(ba.regs) \/ ~mem \/ t = BAD THEN NoResource ELSE [start |-> t, end |-> t + want.s - 1]

PciExact(node, bus, top) ==
    LET b == ba.buses[top]
        all == UNION {Span(b.ranges[2][i].f, b.ranges[2][i].c,
                           Expected("ranges", top - 1, b.ranges[2][i].f, b.ranges[2][i].p), b.ranges[2][i].s)
                      : i \in DOMAIN b.ranges[2]}
    IN  Bind(PciRanges(node, bus), LAMBDA got :
        b.kind = "pci" /\ b.ranges[1] # "none" =>
        /\ \A i \in DOMAIN b.ranges[2] : Expected("ranges", top - 1, b.ranges[2][i].f, b.ranges[2][i].p) # BAD
            => Spans(got) = all
        /\ \A i \in 1..(Len(got) - 1) :
            \/ got[i].flags # got[i + 1].flags
            \/ got[i].pci + got[i].size # got[i + 1].pci
            \/ got[i].cpu + got[i].size # got[i + 1].cpu)

DmaExact(node, dev, top) ==
    LET filled == {k \in 2..top : ba.buses[k].dma[1] # "none" /\ ba.buses[k].dma[2] # <<>>}
        at == CHOOSE k \in filled : \A j \in filled : j <= k
        first == ba.buses[at].dma[2][1]
        cut == \E k \in 2..top : ba.buses[k].dma[1] = "none" /\ (filled = {} \/ k > at)
    IN  /\ DmaIsCoherent(node, dev) = \E b \in Range(ba.buses) : b.coherent
        /\ filled = {} \/ cut => DmaGetRange(node, dev) = NoDma
        /\ filled # {} /\ ~cut /\ at = top =>
            LET t == Expected("dma", top, first.f, first.c)
            IN DmaGetRange(node, dev) =
                IF t = BAD THEN [NoDma EXCEPT !.e = EINVAL]
                ELSE [e |-> 0, dma |-> IF ba.buses[top].kind = "default" THEN first.c ELSE first.c % U64,
                      cpu |-> t, size |-> first.s]

(* Wherever a device sits, an address of its bus becomes the address that  *)
(* the ranges of the buses above it compose to, and nothing when a bus has *)
(* no ranges, no matching one or no sizes, for any mix of bus kinds and    *)
(* cell counts (of_translate_one, __of_translate_address); resources, PCI  *)
(* ranges and DMA ranges follow, and the translation made on the flat tree *)
(* before it is unflattened agrees (fdt_translate_address).                *)
AddressesExact ==
    \E t \in {ChainFrom(1)} : \E f \in {FlatTree(t)} : \E node \in {Unflatten(f)} :
        LET top == Len(ba.buses)
            dev == top + 1
        IN  /\ TranslationExact(node, dev, top)
            /\ top > 1 => PciExact(node, top, top)
            /\ DmaExact(node, dev, top)
            /\ ba.regs # <<>> /\ (\A b \in Range(ba.buses) : b.kind = "default") =>
                FdtTranslateAddress(f, AllNodes(f)[dev]) = Expected("ranges", top, MemFlag, ba.regs[1].a)
            /\ \A bar \in 0..1 : GetPciAddress(node, dev, bar) =
                IF ba.buses[top].kind = "pci" /\ bar = 0 /\ ba.regs # <<>> THEN GetAddress(node, dev, 0) ELSE NoAddress
            /\ \A x \in 0..MaxAddr :
                FindMatchingNodeByAddress(node, NULL, <<[c |-> AnyStr, t |-> AnyStr, n |-> <<1>>]>>, x)
                    = IF OfAddressToResource(node, dev, 0).start = x THEN dev ELSE NULL
=============================================================================
