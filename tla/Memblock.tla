------------------------------ MODULE Memblock ------------------------------
(***************************************************************************)
(* The boot memory allocator of lib/base/src/memblock.c: two bounded       *)
(* arrays of regions, "memory" and "reserved", kept sorted and disjoint,   *)
(* the allocator that searches the one for space the other leaves free,    *)
(* and the iterators and searches the kernel uses on them.                 *)
(*                                                                         *)
(* An array is [regions, total]; the dummy region of size zero that the    *)
(* code keeps in an empty array is the empty sequence here, and counts as  *)
(* one region wherever the code compares cnt with max.                     *)
(***************************************************************************)
EXTENDS Integers, Sequences, SequencesExt

CONSTANTS Word,        \* size of the address space: phys_addr_t counts modulo Word
          PageSize,    \* PAGE_SIZE
          MaxRegions,  \* INIT_MEMBLOCK_REGIONS
          FlagBits,    \* the bits of enum memblock_flags callers mark
          Nomap,       \* MEMBLOCK_NOMAP
          Aligns,      \* alignments callers ask for
          AllocSizes,  \* sizes callers ask for
          Limits,      \* values callers give memblock_set_current_limit
          Directions   \* values callers give memblock_set_bottom_up

MemblockConstants ==
    /\ Word \in Nat \ {0, 1}
    /\ PageSize \in Nat \ {0}
    /\ MaxRegions \in Nat \ {0}
    /\ \A a \in Aligns : a \in Nat \ {0} /\ Word % a = 0
    /\ AllocSizes \subseteq 1..(Word - 1)
    /\ Limits \subseteq 0..(Word - 1)
    /\ Directions \subseteq BOOLEAN

VARIABLES memory, reserved, current_limit, bottom_up

vars == <<memory, reserved, current_limit, bottom_up>>

PhysAddrMax == Word - 1

NONE == {}                                       \* MEMBLOCK_NONE

Empty == [regions |-> <<>>, total |-> 0]

Init == /\ memory = Empty
        /\ reserved = Empty
        /\ bottom_up = FALSE
        /\ current_limit = PhysAddrMax

-----------------------------------------------------------------------------
(* Arrays of regions                                                       *)

Lower(a, b) == IF a < b THEN a ELSE b

Upper(a, b) == IF a < b THEN b ELSE a

Clamp(x, lo, hi) == Lower(Upper(x, lo), hi)

Region(base, end, flags) == [base |-> base, size |-> end - base, flags |-> flags]

End(r) == r.base + r.size

Cnt(type) == IF type.regions = <<>> THEN 1 ELSE Len(type.regions)

Sizes(regions) == FoldSeq(LAMBDA r, sum : sum + r.size, 0, regions)

\* Every operation returns the array and whether it succeeded.
Done(type) == [ok |-> TRUE, type |-> type]

NoMem(type) == [ok |-> FALSE, type |-> type]

CapSize(base, size) == Lower(size, PhysAddrMax - base)

\* Mutated form: merges what touches, whatever its flags.
MergeAnyFlags(regions) ==
    FoldLeft(LAMBDA out, r :
                IF out # <<>> /\ End(Last(out)) = r.base
                THEN Append(Front(out), Region(Last(out).base, End(r), r.flags))
                ELSE Append(out, r),
             <<>>, regions)

\* Neighbours that touch and have the same flags become one region.
MergeRegions(regions) ==
    FoldLeft(LAMBDA out, r :
                IF out # <<>> /\ End(Last(out)) = r.base /\ Last(out).flags = r.flags
                THEN Append(Front(out), Region(Last(out).base, End(r), r.flags))
                ELSE Append(out, r),
             <<>>, regions)

\* The regions with the parts of [base, end) that none of them covers put in
\* between (both passes of memblock_add_range: the first one only counts).
FillGaps(regions, base, end, flags) ==
    LET before == SelectSeq(regions, LAMBDA r : r.base < end)
        after  == SelectSeq(regions, LAMBDA r : r.base >= end)
        Visit(acc, r) ==
            IF End(r) <= acc.base
            THEN [acc EXCEPT !.out = Append(@, r)]
            ELSE [base |-> Lower(End(r), end),
                  out  |-> acc.out \o (IF r.base > acc.base
                                       THEN <<Region(acc.base, r.base, flags)>>
                                       ELSE <<>>) \o <<r>>]
        filled == FoldLeft(Visit, [base |-> base, out |-> <<>>], before)
    IN  filled.out \o (IF filled.base < end
                       THEN <<Region(filled.base, end, flags)>>
                       ELSE <<>>) \o after

AddRange(type, base, size, flags) ==
    LET capped == CapSize(base, size)
        filled == FillGaps(type.regions, base, base + capped, flags)
    IN  IF capped = 0 THEN Done(type)
        ELSE IF type.regions = <<>>
             THEN Done([regions |-> <<Region(base, base + capped, flags)>>, total |-> capped])
        ELSE IF Len(filled) = Len(type.regions) THEN Done(type)
        ELSE IF Len(filled) > MaxRegions THEN NoMem(type)
        ELSE Done([regions |-> MergeRegions(filled),
                   total   |-> type.total + Sizes(filled) - Sizes(type.regions)])

\* r cut at lo and at hi.
Cut(r, lo, hi) ==
    LET l == Clamp(lo, r.base, End(r))
        h == Clamp(hi, r.base, End(r))
    IN  SelectSeq(<<Region(r.base, l, r.flags), Region(l, h, r.flags), Region(h, End(r), r.flags)>>,
                  LAMBDA piece : piece.size > 0)

\* No region crosses the bounds of the range afterwards.
IsolateRange(type, base, size) ==
    LET capped == CapSize(base, size)
        pieces == [i \in DOMAIN type.regions |-> Cut(type.regions[i], base, base + capped)]
    IN  IF capped = 0 THEN Done(type)
        ELSE IF Cnt(type) + 2 > MaxRegions THEN NoMem(type)
        ELSE Done([type EXCEPT !.regions = FlattenSeq(pieces)])

\* The regions start_rgn <= i < end_rgn of an isolated range.
Isolated(r, base, size) ==
    base <= r.base /\ r.base < base + CapSize(base, size)

\* memblock_remove_region for every region that is not to be kept.
KeepRegions(type, Keep(_)) ==
    LET kept == SelectSeq(type.regions, Keep)
    IN  [regions |-> kept,
         total   |-> type.total - (Sizes(type.regions) - Sizes(kept))]

\* Mutated form: total_size is left alone.
RemoveRangeKeepsTotal(type, base, size) ==
    LET isolated == IsolateRange(type, base, size)
    IN  IF isolated.ok
        THEN Done([isolated.type EXCEPT
                     !.regions = SelectSeq(@, LAMBDA r : ~Isolated(r, base, size))])
        ELSE isolated

RemoveRange(type, base, size) ==
    LET isolated == IsolateRange(type, base, size)
    IN  IF isolated.ok
        THEN Done(KeepRegions(isolated.type, LAMBDA r : ~Isolated(r, base, size)))
        ELSE isolated

\* Sets (or clears) one flag of the regions in the range, then merges.
SetClrFlag(type, base, size, set, flag) ==
    LET isolated == IsolateRange(type, base, size)
        Flip(r) == IF ~Isolated(r, base, size) THEN r
                   ELSE [r EXCEPT !.flags = IF set THEN @ \cup {flag} ELSE @ \ {flag}]
        flipped == [i \in DOMAIN isolated.type.regions |-> Flip(isolated.type.regions[i])]
    IN  IF isolated.ok
        THEN Done([isolated.type EXCEPT !.regions = MergeRegions(flipped)])
        ELSE isolated

-----------------------------------------------------------------------------
(* Iterating over the free ranges                                          *)

\* The area before the b-th reservation (b = 0 .. cnt).
GapStart(res, b) == IF b = 0 THEN 0 ELSE End(res[b])

GapEnd(res, b) == IF b < Len(res) THEN res[b + 1].base ELSE PhysAddrMax

FreePart(m, res, b) == [start |-> Upper(m.base, GapStart(res, b)),
                        end   |-> Lower(End(m), GapEnd(res, b))]

\* All ranges for_each_free_mem_range visits from the pair of indices on;
\* the region or the gap that ends first is advanced.
RECURSIVE FreeFrom(_, _, _, _, _)
FreeFrom(flags, mem, res, a, b) ==
    LET m == mem[a + 1]
        NextRegion == FreeFrom(flags, mem, res, a + 1, b)
        NextGap    == FreeFrom(flags, mem, res, a, b + 1)
    IN  IF a >= Len(mem) THEN <<>>
        ELSE IF flags # m.flags \/ b > Len(res) THEN NextRegion
        ELSE IF GapStart(res, b) >= End(m) THEN NextRegion
        ELSE IF m.base >= GapEnd(res, b) THEN NextGap
        ELSE <<FreePart(m, res, b)>>
             \o (IF End(m) <= GapEnd(res, b) THEN NextRegion ELSE NextGap)

\* The same from the top down.
RECURSIVE FreeFromRev(_, _, _, _, _)
FreeFromRev(flags, mem, res, a, b) ==
    LET m == mem[a + 1]
        NextRegion == FreeFromRev(flags, mem, res, a - 1, b)
        NextGap    == FreeFromRev(flags, mem, res, a, b - 1)
    IN  IF a < 0 THEN <<>>
        ELSE IF flags # m.flags \/ b < 0 THEN NextRegion
        ELSE IF GapEnd(res, b) <= m.base THEN NextRegion
        ELSE IF End(m) <= GapStart(res, b) THEN NextGap
        ELSE <<FreePart(m, res, b)>>
             \o (IF m.base >= GapStart(res, b) THEN NextRegion ELSE NextGap)

FreeRanges(flags, mem, res) == FreeFrom(flags, mem.regions, res.regions, 0, 0)

FreeRangesRev(flags, mem, res) ==
    FreeFromRev(flags, mem.regions, res.regions,
                Len(mem.regions) - 1, Len(res.regions))

\* The index of the region that holds addr (binary search), or -1.
RECURSIVE SearchBetween(_, _, _, _)
SearchBetween(regions, addr, left, right) ==
    LET mid == (left + right) \div 2
        r   == regions[mid + 1]
        Continue(l, h) == IF l < h THEN SearchBetween(regions, addr, l, h) ELSE -1
    IN  IF addr < r.base THEN Continue(left, mid)
        ELSE IF addr >= End(r) THEN Continue(mid + 1, right)
        ELSE mid

Search(type, addr) ==
    IF type.regions = <<>> THEN -1
    ELSE SearchBetween(type.regions, addr, 0, Len(type.regions))

-----------------------------------------------------------------------------
(* The allocator                                                           *)

RoundUp(x, align) == (((x + align - 1) \div align) * align) % Word

RoundDown(x, align) == (x \div align) * align

\* The first candidate that fits, 0 if there is none.
FirstFit(ranges, Cand(_), Fits(_)) ==
    LET fitting == SelectSeq(ranges, Fits)
    IN  IF fitting = <<>> THEN 0 ELSE Cand(Head(fitting))

FindBottomUp(start, end, size, align, flags) ==
    LET Low(r)  == Clamp(r.start, start, end)
        High(r) == Clamp(r.end, start, end)
        Cand(r) == RoundUp(Low(r), align)
        Fits(r) == Cand(r) < High(r) /\ High(r) - Cand(r) >= size
    IN  FirstFit(FreeRanges(flags, memory, reserved), Cand, Fits)

FindTopDown(start, end, size, align, flags) ==
    LET Low(r)  == Clamp(r.start, start, end)
        High(r) == Clamp(r.end, start, end)
        Cand(r) == RoundDown(High(r) - size, align)
        Fits(r) == High(r) >= size /\ Cand(r) >= Low(r)
    IN  FirstFit(FreeRangesRev(flags, memory, reserved), Cand, Fits)

\* An end of zero (MEMBLOCK_ALLOC_ACCESSIBLE) means current_limit; the first
\* page is never allocated.
FindInRange(size, align, start, end, flags) ==
    LET low  == Upper(start, PageSize)
        high == Upper(low, IF end = 0 THEN current_limit ELSE end)
        bottom == IF bottom_up THEN FindBottomUp(low, high, size, align, flags) ELSE 0
    IN  IF bottom # 0 THEN bottom ELSE FindTopDown(low, high, size, align, flags)

\* The reservation of what was found; it fails when nothing was found or the
\* array of reservations is full.
Claim(found, size) ==
    IF found = 0 THEN NoMem(reserved) ELSE AddRange(reserved, found, size, NONE)

AllocBase(size, align, max, flags) ==
    /\ reserved' = Claim(FindInRange(size, align, 0, max, flags), size).type
    /\ UNCHANGED <<memory, current_limit, bottom_up>>

\* The lower bound is only a preference: it is dropped when nothing is found.
AllocInternal(size, align, min, max) ==
    LET limit == Lower(max, current_limit)
        Try(m) == Claim(FindInRange(size, align, m, limit, NONE), size)
    IN  /\ reserved' = IF Try(min).ok THEN Try(min).type ELSE Try(0).type
        /\ UNCHANGED <<memory, current_limit, bottom_up>>

-----------------------------------------------------------------------------
(* The operations                                                          *)

Add(base, size) ==
    /\ memory' = AddRange(memory, base, size, NONE).type
    /\ UNCHANGED <<reserved, current_limit, bottom_up>>

RemoveMemory(base, size) ==
    /\ memory' = RemoveRange(memory, base, size).type
    /\ UNCHANGED <<reserved, current_limit, bottom_up>>

Reserve(base, size) ==
    /\ reserved' = AddRange(reserved, base, size, NONE).type
    /\ UNCHANGED <<memory, current_limit, bottom_up>>

Free(base, size) ==
    /\ reserved' = RemoveRange(reserved, base, size).type
    /\ UNCHANGED <<memory, current_limit, bottom_up>>

MarkOrClear(base, size, set, flag) ==
    /\ memory' = SetClrFlag(memory, base, size, set, flag).type
    /\ UNCHANGED <<reserved, current_limit, bottom_up>>

\* The address below which the first limit bytes of memory lie.
FindMaxAddr(limit) ==
    LET Below(i) == Sizes(SubSeq(memory.regions, 1, i - 1))
        holding == {i \in DOMAIN memory.regions :
                       limit - Below(i) <= memory.regions[i].size}
    IN  IF holding = {} THEN PhysAddrMax
        ELSE memory.regions[Min(holding)].base + limit - Below(Min(holding))

EnforceMemoryLimit(limit) ==
    LET max == FindMaxAddr(limit) IN
    /\ limit # 0 /\ max # PhysAddrMax
    /\ memory' = RemoveRange(memory, max, PhysAddrMax).type
    /\ reserved' = RemoveRange(reserved, max, PhysAddrMax).type
    /\ UNCHANGED <<current_limit, bottom_up>>

\* Memory outside the range goes unless it is marked NOMAP, then the
\* reservations below and above the range; the failure of any step is not
\* reported, and that of the first ends the call.
Capped(base, size) ==
    LET isolated == IsolateRange(memory, base, size)
        Keep(r)  == Isolated(r, base, size) \/ Nomap \in r.flags
        below    == RemoveRange(reserved, 0, base).type
    IN  IF size = 0 \/ ~isolated.ok THEN [memory |-> memory, reserved |-> reserved]
        ELSE [memory   |-> KeepRegions(isolated.type, Keep),
              reserved |-> RemoveRange(below, (base + size) % Word, PhysAddrMax).type]

CapMemoryRange(base, size) ==
    /\ memory' = Capped(base, size).memory
    /\ reserved' = Capped(base, size).reserved
    /\ UNCHANGED <<current_limit, bottom_up>>

MemLimitRemoveMap(limit) ==
    LET max == FindMaxAddr(limit) IN
    limit # 0 /\ max # PhysAddrMax /\ CapMemoryRange(0, max)

SetCurrentLimit(limit) ==
    /\ current_limit' = limit
    /\ UNCHANGED <<memory, reserved, bottom_up>>

SetBottomUp(enable) ==
    /\ bottom_up' = enable
    /\ UNCHANGED <<memory, reserved, current_limit>>

\* Regions shrink to aligned bounds or vanish; only those that vanish are
\* taken out of total_size.
TrimMemory(align) ==
    LET Trim(r) == Region(RoundUp(r.base, align), RoundDown(End(r), align), r.flags)
        kept == SelectSeq(memory.regions, LAMBDA r : Trim(r).size > 0)
    IN  /\ memory' = [regions |-> [i \in DOMAIN kept |-> Trim(kept[i])],
                      total   |-> memory.total - (Sizes(memory.regions) - Sizes(kept))]
        /\ UNCHANGED <<reserved, current_limit, bottom_up>>

Bases == 0..PhysAddrMax

Lengths == 0..PhysAddrMax

\* Non-empty ranges within the address space, and the open-ended ones that
\* callers make with ULLONG_MAX.
Ranges == {r \in Bases \X (Lengths \ {0}) :
              r[1] < PhysAddrMax /\ (r[1] + r[2] <= PhysAddrMax \/ r[2] = PhysAddrMax)}

Next ==
    \/ \E r \in Ranges :
          \/ Add(r[1], r[2])
          \/ RemoveMemory(r[1], r[2])
          \/ Reserve(r[1], r[2])
          \/ Free(r[1], r[2])
          \/ \E set \in BOOLEAN, flag \in FlagBits : MarkOrClear(r[1], r[2], set, flag)
          \/ r[1] + r[2] <= PhysAddrMax /\ CapMemoryRange(r[1], r[2])
    \/ \E size \in AllocSizes, align \in Aligns, max \in {0} \cup Limits :
          \/ \E flags \in SUBSET FlagBits : AllocBase(size, align, max, flags)
          \/ \E min \in {0} \cup Limits : AllocInternal(size, align, min, max)
    \/ \E limit \in Lengths : EnforceMemoryLimit(limit) \/ MemLimitRemoveMap(limit)
    \/ \E limit \in Limits : SetCurrentLimit(limit)
    \/ \E enable \in Directions : SetBottomUp(enable)

Spec == Init /\ [][Next]_vars

\* With memblock_trim_memory, which the kernel does not call.
SpecTrim == Init /\ [][Next \/ \E align \in Aligns : TrimMemory(align)]_vars

-----------------------------------------------------------------------------
(* Properties                                                              *)

WellFormed(type) ==
    LET rs == type.regions IN
    /\ Len(rs) <= MaxRegions
    /\ \A i \in DOMAIN rs : /\ rs[i].base \in Bases /\ rs[i].size \in 1..PhysAddrMax
                            /\ End(rs[i]) <= PhysAddrMax
                            /\ rs[i].flags \subseteq FlagBits
    /\ \A i \in 1..(Len(rs) - 1) : End(rs[i]) <= rs[i + 1].base

\* Both arrays stay within their bound, sorted, without empty or overlapping
\* regions: BUG_ON in memblock_insert_region and memblock_merge_regions never
\* fires and the binary search is entitled to halve.
TypeOK == /\ WellFormed(memory) /\ WellFormed(reserved)
          /\ current_limit \in Limits \cup {PhysAddrMax}
          /\ bottom_up \in BOOLEAN

\* total_size, which is only ever adjusted, is the sum of the sizes, whatever
\* was split, merged or removed (memblock_phys_mem_size, and the WARN_ON of
\* memblock_remove_region and memblock_add_range).
TotalExact == /\ memory.total = Sizes(memory.regions)
              /\ reserved.total = Sizes(reserved.regions)

Minimal(type) ==
    \A i \in 1..(Len(type.regions) - 1) :
        LET r == type.regions[i]
            s == type.regions[i + 1]
        IN  End(r) = s.base => r.flags # s.flags

\* Adjacent reservations are always merged, and so are adjacent regions of
\* memory the kernel maps, although memblock_remove_range never merges what it
\* split: an allocation never fails for a boundary inside free memory.
MappedMinimal ==
    /\ Minimal(reserved)
    /\ \A i \in 1..(Len(memory.regions) - 1) :
          LET r == memory.regions[i]
              s == memory.regions[i + 1]
          IN  End(r) = s.base /\ r.flags = s.flags => Nomap \in r.flags

FlagsAt(a) == {r.flags : r \in {r \in Range(memory.regions) : r.base <= a /\ a < End(r)}}

Covered(type) == {a \in 0..(PhysAddrMax - 1) :
                    \E r \in Range(type.regions) : r.base <= a /\ a < End(r)}

FreeAddrs == {a \in 0..(PhysAddrMax - 1) : FlagsAt(a) = {NONE}} \ Covered(reserved)

\* The two-index walks of __next_mem_range and __next_mem_range_rev visit
\* exactly the maximal free ranges, in order and in reverse order.
FreeRangesExact ==
    LET runs == {r \in [start : Bases, end : Bases] :
                    /\ r.start < r.end
                    /\ r.start..(r.end - 1) \subseteq FreeAddrs
                    /\ r.start - 1 \notin FreeAddrs /\ r.end \notin FreeAddrs}
        walk == FreeRanges(NONE, memory, reserved)
    IN  /\ Range(walk) = runs
        /\ \A i \in 1..(Len(walk) - 1) : walk[i].end < walk[i + 1].start
        /\ FreeRangesRev(NONE, memory, reserved) = Reverse(walk)

\* What the allocator finds is aligned, free, above the first page, below the
\* limit, and the highest such address (the lowest in bottom-up mode); it finds
\* nothing only when there is none.
FindExact ==
    \A size \in 1..PhysAddrMax, align \in Aligns,
       start \in {0} \cup Limits, end \in {0} \cup Limits :
        LET low  == Upper(start, PageSize)
            high == IF end = 0 THEN current_limit ELSE end
            fits == {c \in low..(high - size) :
                        c % align = 0 /\ c..(c + size - 1) \subseteq FreeAddrs}
        IN  FindInRange(size, align, start, end, NONE)
              = IF fits = {} THEN 0 ELSE IF bottom_up THEN Min(fits) ELSE Max(fits)

\* memblock_search finds the region of every address that has one, in either
\* array, and nothing for the others.
SearchExact ==
    \A type \in {memory, reserved}, a \in Bases :
        LET i == Search(type, a)
        IN  IF a \in Covered(type)
            THEN i # -1 /\ type.regions[i + 1].base <= a /\ a < End(type.regions[i + 1])
            ELSE i = -1

\* Seen as a map from addresses to flags and a set of reserved addresses,
\* every call does what it says or, when an array is full, nothing: splitting,
\* merging and the order of the steps never show.
Map == INSTANCE MemblockSpec WITH
          Top <- PhysAddrMax,
          mem <- [a \in 0..(PhysAddrMax - 1) |-> FlagsAt(a)],
          res <- Covered(reserved)

ImplementsMap == Map!Spec

\* Stated by the WARN_ON of memblock_remove_region: an array that becomes empty
\* has no total size left.
NoTotalWhenEmpty == memory.regions = <<>> => memory.total = 0
=============================================================================
