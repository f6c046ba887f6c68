---------------------------- MODULE MCBootMemory ----------------------------
(***************************************************************************)
(* The memory of a booting machine in one instance: memblock, twice, the   *)
(* memory map the device tree gives it, the kernel's page tables and the   *)
(* bits of one page table entry.  part says which of them moves and never  *)
(* changes.                                                                *)
(***************************************************************************)
EXTENDS Integers, Sequences

CONSTANT Nomap

VARIABLES part,
          memory, reserved, current_limit, bottom_up,  \* "memblock", "map"
          inner                                            \* the others

memblock == <<memory, reserved, current_limit, bottom_up>>
vars == <<part, memblock, inner>>

-----------------------------------------------------------------------------
\* Five addresses, arrays of three regions, both directions and a limit.
Block == INSTANCE Memblock WITH
    Word <- 6, PageSize <- 1, MaxRegions <- 3, FlagBits <- {},
    Aligns <- {1, 2}, AllocSizes <- {1, 2}, Limits <- {3}, Directions <- {TRUE, FALSE}

\* Four addresses and a flag, also compared with the map they implement.
Small == INSTANCE Memblock WITH
    Word <- 5, PageSize <- 1, MaxRegions <- 3, FlagBits <- {Nomap},
    Aligns <- {1}, AllocSizes <- {1}, Limits <- {}, Directions <- {}

ASSUME Block!MemblockConstants /\ Small!MemblockConstants

-----------------------------------------------------------------------------
\* Device trees: one, two or three banks, around the kernel, over the end of
\* the linear map, with and without a usable range and an initrd, and three
\* reserved nodes: fixed or disabled, dynamic with windows, dynamic.
Reserve(name, reg, size, align, ranges, nomap, ok, ph) ==
    [name |-> name, reg |-> reg, size |-> size, align |-> align, ranges |-> ranges,
     nomap |-> nomap, ok |-> ok, phandle |-> ph]
FixedNodes == {Reserve(1, <<<<16, 3>>>>, 0, 0, <<>>, FALSE, TRUE, 1),
               Reserve(1, <<<<16, 3>>, <<20, 2>>>>, 0, 0, <<>>, TRUE, TRUE, 0),
               Reserve(1, <<<<18, 2>>>>, 0, 0, <<>>, FALSE, FALSE, 0)}
WindowNodes == {Reserve(2, <<>>, size, align, ranges, nomap, TRUE, 2) :
                  size \in {2, 5}, align \in {0, 4}, nomap \in BOOLEAN,
                  ranges \in {<<>>, <<<<20, 4>>, <<10, 8>>>>}}
OtherNodes == {Reserve(3, <<>>, 4, 0, <<>>, FALSE, TRUE, 3),
               Reserve(3, <<>>, 3, 2, <<<<2, 20>>>>, TRUE, TRUE, 0)}
OneBank == <<<<3, 22>>>>
ThreeBanks == <<<<4, 8>>, <<13, 10>>, <<38, 8>>>>
Machine(mem, kernel, usable, initrd, nodes) ==
    [mem |-> mem, kernel |-> kernel, usable |-> usable, initrd |-> initrd, nodes |-> nodes,
     dtb |-> <<14, 1>>, rsv |-> <<<<13, 1>>>>]
Machines == {Machine(m[1], m[2], m[3], i, <<a, b, c>>) :
    m \in {<<OneBank, <<8, 4>>, <<>>>>, <<OneBank, <<8, 4>>, <<6, 18>>>>,
           <<ThreeBanks, <<8, 4>>, <<>>>>, <<ThreeBanks, <<40, 4>>, <<>>>>},
    i \in {<<>>, <<20, 3>>, <<24, 4>>}, a \in FixedNodes, b \in WindowNodes, c \in OtherNodes}

Dt == INSTANCE OfMemory WITH
    om <- inner, Confs <- Machines, Word <- 1, Header <- 2,
    Base <- [n \in 0..14 |-> IF n = 9 THEN 4 ELSE n], AddrCells <- 2, SizeCells <- 2,
    PageSize <- 4, CacheLine <- 2, Top <- 256, PhysEnd <- 64, LinearSize <- 32,
    MemstartAlign <- 4, MaxRegions <- 3

-----------------------------------------------------------------------------
\* Kernel images of five segments, aligned and not, in one or three banks.
Image(banks, memstart, text, seg, fdt, rodata) ==
    [banks |-> banks, memstart |-> memstart, text |-> text, seg |-> seg, fdt |-> fdt,
     console |-> 600, rodata |-> rodata]
Images ==
    {Image(<<<<32, 128>>>>, 32, 40, seg, fdt, rodata) :
        seg \in {<<8, 4, 2, 2, 8>>, <<5, 3, 2, 6, 4>>, <<16, 2, 0, 8, 16>>},
        fdt \in {<<96, 5>>, <<101, 8>>, <<70, 9>>}, rodata \in {"off", "on", "full"}}
    \cup {Image(<<<<64, 80>>, <<88, 104>>, <<256, 320>>>>, 64, 72, seg, <<257, 3>>, rodata) :
        seg \in {<<4, 4, 3, 1, 9>>, <<8, 8, 8, 4, 4>>}, rodata \in {"off", "on", "full"}}

Tables == INSTANCE Mmu WITH
    mm <- inner, pt <- inner, Confs <- Images, Ptrs <- <<4, 4, 4, 8>>, ContPtes <- 2, ContPmds <- 2,
    MaxTlbiOps <- 8, PageOffset <- 256, Vmemmap <- 224, Viomap <- 192, ViomapSize <- 32,
    FixTop <- 184, FdtPages <- 16, MaxFdt <- 8, PagesPerStruct <- 8,
    IoRanges <- {<<1217, 3>>, <<1280, 64>>}, MaxIo <- 2

-----------------------------------------------------------------------------
NoMemblock == memory = 0 /\ reserved = 0 /\ current_limit = 0 /\ bottom_up = 0

Init == \/ part = "memblock" /\ Block!Init /\ inner = 0
        \/ part = "map" /\ Small!Init /\ inner = 0
        \/ part = "tree" /\ NoMemblock /\ Dt!Init
        \/ part = "tables" /\ NoMemblock /\ Tables!Init
        \/ part = "pte" /\ NoMemblock /\ Tables!PteInit

Next == /\ \/ part = "memblock" /\ Block!Next /\ UNCHANGED inner
           \/ part = "map" /\ Small!Next /\ UNCHANGED inner
           \/ part = "tree" /\ Dt!Next /\ UNCHANGED memblock
           \/ part = "tables" /\ Tables!Next /\ UNCHANGED memblock
           \/ part = "pte" /\ Tables!PteNext /\ UNCHANGED memblock
        /\ UNCHANGED part

Spec == Init /\ [][Next]_vars

-----------------------------------------------------------------------------
(* memblock.c: sorted, disjoint, bounded and minimal arrays, and a running *)
(* total that agrees with them; the iterators, the binary search and the   *)
(* search for a free range agree with their reference definitions.         *)
RegionsExact ==
    /\ part = "memblock" => /\ Block!TypeOK /\ Block!TotalExact /\ Block!MappedMinimal
                            /\ Block!FreeRangesExact /\ Block!SearchExact /\ Block!FindExact
    /\ part = "map" => /\ Small!TypeOK /\ Small!TotalExact /\ Small!MappedMinimal
                       /\ Small!FreeRangesExact /\ Small!SearchExact /\ Small!FindExact

(* memblock.c: the arrays implement the map from addresses to attributes.  *)
ImplementsMap ==
    /\ part = "map" => Small!Map!Init
    /\ [][part = "map" => [Small!Map!Next]_Small!Map!vars]_vars

(* init.c, of_reserved_mem.c: the memory map and the reservations are what *)
(* the device tree asks for.                                               *)
MemoryExact == part = "tree" => Dt!MemoryExact

(* mmu.c: the tables map exactly what was asked for, with the asked        *)
(* permissions, no table is lost or shared, and no stale translation is    *)
(* left; pgtable.h: the helpers change what they are for.                  *)
TablesExact == /\ part = "tables" => Tables!MmuExact
               /\ part = "pte" => Tables!PteExact
=============================================================================
