------------------------------- MODULE MCCore -------------------------------
(***************************************************************************)
(* What every part of the kernel is built from, in one instance: the page  *)
(* and object allocators and the data structures of lib/.  part says which *)
(* of them moves and never changes.                                        *)
(***************************************************************************)
EXTENDS PageAlloc

CONSTANTS None, Null, Poison,
          IdaWaits    \* the calls of ida_alloc_range() that may have to start over

VARIABLES part,
          slab, node, cpu_slab, held, op, close,  \* "slab"
          inner                                       \* the others but "pages"

slabs == <<slab, node, cpu_slab, held, op, close>>
allVars == <<part, vars, slabs, inner>>

-----------------------------------------------------------------------------
\* A block of the largest order, and a page of another zone whose buddy is a
\* reserved page that is released later.
TwoZones == << <<"Normal", 4, 8>>, <<"DMA", 8, 9>> >>
OneZone == << <<"Normal", 2, 6>> >>

\* Two CPUs and three slabs of two objects.
Slab == INSTANCE Slab WITH
    Cpus <- {"c1", "c2"}, Slabs <- {"s1", "s2", "s3"}, Objs <- {"o1", "o2"},
    MinPartial <- 1, MaxHeld <- 6

\* Caches that can be shared, caches that cannot, and sizes of up to, at and
\* beyond the largest block.
Request(size, align, f) ==
    [size |-> size, align |-> align, hwalign |-> "hwalign" \in f, dma |-> "dma" \in f,
     poison |-> "poison" \in f, ctor |-> "ctor" \in f]
Caches == INSTANCE SlabCaches WITH
    sc <- inner, Cpus <- {"c1", "c2"}, PoolSize <- 2, MaxUsers <- 3,
    Requests <- {Request(20, 0, {}), Request(24, 8, {}), Request(24, 0, {"ctor"}),
                 Request(24, 0, {"poison"}), Request(24, 0, {"dma"}), Request(40, 0, {"hwalign"}),
                 Request(60, 32, {}), Request(9000, 0, {}), Request(5000000, 0, {}),
                 Request(9500000, 0, {})}

-----------------------------------------------------------------------------
\* Nodes of two slots and three levels, both kinds of array, an allocation
\* that has to wait.
Array == INSTANCE XArray WITH
    xs <- inner, ChunkShift <- 1, Bits <- 3, Keys <- {0, 5}, Ranges <- {<<2, 3>>},
    Waiters <- {"alloc"}, Values <- TRUE, Tracks <- BOOLEAN, MaxStored <- 2

\* Nodes of four slots, entries over parts of a node, a node and several.
WideArray == INSTANCE XArray WITH
    xs <- inner, ChunkShift <- 2, Bits <- 5, Keys <- {1, 6},
    Ranges <- {<<4, 7>>, <<5, 6>>, <<4, 5>>, <<0, 15>>},
    Waiters <- {"range"}, Values <- FALSE, Tracks <- {FALSE}, MaxStored <- 2

\* Nodes of two slots, and bitmaps of four ids, of which two fit a value entry;
\* the last bitmap is cut.
Radix == INSTANCE RadixTree WITH
    rt <- inner, ChunkShift <- 1, Bits <- 4, Keys <- {0, 1, 6}, Base <- 1, IntMax <- 7, MaxStored <- 3,
    ida <- inner, IdaBits <- 4, ValBits <- 2, Word <- 3, Waits <- IdaWaits, Spans <- {<<0, 11>>, <<2, 4>>, <<7, 8>>, <<4, 4>>}, MaxIds <- 5

-----------------------------------------------------------------------------
Rb == INSTANCE RbTree WITH rb <- inner, Keys <- 1 .. 7, Replaceable <- {3}

Linked == INSTANCE Lists WITH
    ls <- inner, Heads <- {"h1", "h2"}, Entries <- {"e1", "e2", "e3", "e4"},
    Key <- [e \in {"e1", "e2", "e3", "e4"} |-> CASE e = "e2" -> 0 [] e = "e4" -> 2 [] OTHER -> 1],
    MaxLevels <- 2, Arrays <- UNION {[1 .. n -> 0 .. 2] : n \in 0 .. 5},
    hl <- inner, HNodes <- {"n1", "n2", "n3"}, Producers <- {"p1", "p2"},
    Batches <- {<<"n1">>, <<"n2">>, <<"n3">>, <<"n1", "n2">>}

\* Maps of up to two and a half words.
Maps == INSTANCE Bitmaps WITH
    bm <- inner, W <- 2, Sizes <- {1, 2, 4, 5}, Chunk <- 1, Digit <- 1, Parsed <- {}, Listed <- {}

\* A map of three bits read from text: digits, groups, and lists of ranges.
ParsedText == UNION {[1 .. k -> {0, 1, Maps!Comma, Maps!Space, Maps!Nul, Maps!Other}] : k \in 0 .. 5}
Items == [a : {0, 2, 10}, b : {0, 2, 10}, used : {0}, group : {-1}]
         \cup [a : {0, 2, 10}, b : {0, 2, 10}, used : {0, 1, 2}, group : {0, 1, 2}]
Read == INSTANCE Bitmaps WITH
    bm <- inner, W <- 4, Sizes <- {3}, Chunk <- 2, Digit <- 1,
    Parsed <- {t \in ParsedText :
                 /\ t = <<>> \/ Maps!Trim(t) = <<>> \/ t[Len(t)] # Maps!Comma
                 /\ \A i \in DOMAIN t : i < Len(t) => t[i] # Maps!Nul},
    Listed <- {<<i>> : i \in Items} \cup {<<i, j>> : i, j \in Items}

\* The days of 1957 to 2002, and times of four bits.
Time == INSTANCE Clock WITH
    tc <- inner, FirstDay <- -4500, LastDay <- 12000, Offsets <- {-3600, 3600}, Seconds <- {0, 86399},
    SecBits <- 4, Nsec <- 3
-----------------------------------------------------------------------------
NoPages == /\ area = 0 /\ nr_free = 0 /\ managed = 0 /\ lock = 0 /\ page = 0 /\ pcp = 0
           /\ count = 0 /\ boot = 0 /\ reserved = 0 /\ owned = 0 /\ cpu = 0 /\ bad = 0
NoSlab == slab = 0 /\ node = 0 /\ cpu_slab = 0 /\ held = 0 /\ op = 0 /\ close = 0

AnyInit == \/ part = "pages" /\ Init /\ NoSlab /\ inner = 0
           \/ part = "slab" /\ NoPages /\ Slab!Init /\ inner = 0
           \/ /\ NoPages
              /\ NoSlab
              /\ \/ part = "caches" /\ Caches!Init
                 \/ part = "array" /\ Array!Init
                 \/ part = "wide" /\ WideArray!Init
                 \/ part = "radix" /\ Radix!Init
                 \/ part = "ids" /\ Radix!IdaInit
                 \/ part = "rb" /\ Rb!Init
                 \/ part = "list" /\ Linked!Init
                 \/ part = "hlist" /\ Linked!HInit
                 \/ part = "maps" /\ Maps!Init
                 \/ part = "read" /\ Read!Init
                 \/ part = "clock" /\ Time!Init

Structures == \/ part = "caches" /\ Caches!Next
              \/ part = "array" /\ Array!Next
              \/ part = "wide" /\ WideArray!Next
              \/ part = "radix" /\ Radix!Next
              \/ part = "ids" /\ Radix!IdaNext
              \/ part = "rb" /\ Rb!Next
              \/ part = "list" /\ Linked!Next
              \/ part = "hlist" /\ Linked!HNext
              \/ part = "maps" /\ Maps!Next
              \/ part = "read" /\ Read!Next
              \/ part = "clock" /\ Time!Next

\* Creating caches ends at the bound on their users, counting days at the last.
MayStop == part \in {"caches", "clock"} /\ UNCHANGED inner

AnyNext == /\ \/ part = "pages" /\ Next /\ UNCHANGED <<slabs, inner>>
              \/ part = "slab" /\ Slab!Next /\ UNCHANGED <<vars, inner>>
              \/ (Structures \/ MayStop) /\ UNCHANGED <<vars, slabs>>
           /\ UNCHANGED part

AnySpec == AnyInit /\ [][AnyNext]_allVars

\* One component alone.
PagesSpec == part = "pages" /\ AnyInit /\ [][AnyNext]_allVars
IdsSpec == part = "ids" /\ AnyInit /\ [][AnyNext]_allVars

-----------------------------------------------------------------------------
(* page_alloc.c: every page is in one place, never handed out twice, never *)
(* lost, however blocks are split, merged, cached and drained, and none    *)
(* fails a check when it is allocated or freed.                            *)
PagesConserved == part = "pages" => Conservation /\ NothingBad

(* page_alloc.c: no two free buddies are left unmerged, blocks stay in     *)
(* their zone, and the struct pages and counters say what the lists hold.  *)
PagesMerged == part = "pages" => Coalesced /\ BooksExact

(* slab.c: however allocation, remote frees, takeovers of free lists and   *)
(* flushes interleave, every object is in exactly one place, and           *)
(* kmem_cache_close() reports slabs left over exactly when a caller still  *)
(* has an object.                                                          *)
ObjectsConserved == part = "slab" => Slab!ObjectsConserved /\ Slab!CloseExact

(* slab.c: a slab is on the partial list exactly when it has free objects  *)
(* and belongs to no CPU, empty slabs beyond MIN_PARTIAL go back, and no   *)
(* set of CPUs waits for one another.                                      *)
SlabsPlaced == part = "slab" => Slab!SlabsPlaced /\ Slab!EmptySlabsBounded /\ Slab!NoLockCycle

(* slab.c, slab_common.c: a cache that users share gives each what it      *)
(* asked for, lives as long as it has users, also when creating it fails   *)
(* half way, and kmalloc() finds one that is large enough for every size.  *)
CachesOK == part = "caches" => Caches!CachesOK

(* xarray.c, radix-tree.c, idr.c: the trees are the maps from indices to   *)
(* entries and the sets of ids that the completed calls make them, for     *)
(* loads, marks and searches alike, also when a call had to wait and start *)
(* over, and their counts and mark bits agree with what is below them.     *)
IndexExact == /\ part = "array" => Array!XaExact /\ Array!TreeExact
              /\ part = "wide" => WideArray!XaExact /\ WideArray!TreeExact
              /\ part = "radix" => Radix!RadixExact
              /\ part = "ids" => Radix!IdaExact

(* rbtree.c, list_sort.c, sort.c, llist.c and the list headers: the trees  *)
(* are balanced and in order, each list is, walked either way, the         *)
(* sequence its calls made of it, sorting permutes into order, and entries *)
(* that several producers push at once are each taken once.                *)
OrderExact == /\ part = "rb" => Rb!RbExact
              /\ part = "list" => Linked!ListsExact
              /\ part = "hlist" => Linked!HListsExact

(* bitmap.c, find_bit.c: every operation on words does to the bits of the  *)
(* map what it does to the set it stands for, and a map read from text is  *)
(* the set the text describes.  timeconv.c, time.c: a day is converted to  *)
(* its date and back, and times are added, compared and split without      *)
(* leaving their range.                                                    *)
WordsExact == /\ part = "maps" => Maps!BitmapsExact
              /\ part = "read" => Read!BitmapsExact
              /\ part = "clock" => Time!ClockExact
=============================================================================
