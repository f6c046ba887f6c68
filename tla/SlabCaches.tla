----------------------------- MODULE SlabCaches -----------------------------
(***************************************************************************)
(* The caches of mm/slab.c as a whole: how kmem_cache_create lays objects  *)
(* out, shares a cache between users and gives every CPU its structure,    *)
(* how kmem_cache_destroy undoes it, and which cache kmalloc takes.  All   *)
(* of it runs under slub_lock.  Sizes are in bytes, as on arm64 with pages *)
(* of 4 KiB.                                                               *)
(***************************************************************************)
EXTENDS Integers, Sequences, FiniteSets, FiniteSetsExt, SequencesExt

CONSTANTS Cpus,      \* the online CPUs
          Requests,  \* what users ask of kmem_cache_create: size, align, flags, ctor
          PoolSize,  \* NR_KMEM_CACHE_CPU
          MaxUsers   \* bound: caches in use, by create calls

VARIABLE sc  \* list: slab_caches; pool: kmem_cache_cpu_free, by CPU;
             \* size_index: the table; up: slab_state

PageShift == 12
PageSize == 4096
MAX_ORDER == 11
SlubMaxOrder == 1      \* DEFAULT_MAX_ORDER
Pointer == 8
CacheLine == 64
KmallocMin == 128      \* KMALLOC_MIN_SIZE, ARCH_KMALLOC_MINALIGN
KmallocShiftLow == 7

Align(x, a) == ((x + a - 1) \div a) * a
Fls(n) == CHOOSE k \in 0..31 : n < 2^k /\ (k = 0 \/ n >= 2^(k - 1))

-----------------------------------------------------------------------------
(* The layout of a slab                                                    *)

\* slab_order: the first order from min on that holds enough objects and wastes
\* little, or one more than max_order.
SlabOrder(size, min_objects, max_order, fract) ==
    LET start == Max({0, Fls(min_objects * size - 1) - PageShift})
        Fits(o) == /\ PageSize * 2^o >= min_objects * size
                   /\ (PageSize * 2^o) % size <= (PageSize * 2^o) \div fract
        good == {o \in start..max_order : Fits(o)}
    IN  IF good # {} THEN Min(good) ELSE Max({start, max_order + 1})

\* calculate_order: fewer objects and more waste are accepted step by step.
CalculateOrder(size) ==
    LET tries == << <<4, 8>>, <<4, 4>>, <<2, 8>>, <<2, 4>>, <<1, 1>> >>
        Order(t) == SlabOrder(size, t[1], SlubMaxOrder, t[2])
        good == {i \in DOMAIN tries : Order(tries[i]) <= SlubMaxOrder}
        last == SlabOrder(size, 1, MAX_ORDER, 1)
    IN  IF good # {} THEN Order(tries[Min(good)])
        ELSE IF last <= MAX_ORDER THEN last ELSE -1

CalculateAlignment(hwalign, align, size) ==
    IF hwalign /\ size > CacheLine \div 2 THEN Max({align, CacheLine})
    ELSE IF align < Pointer THEN Pointer ELSE Align(align, Pointer)

\* The free pointer follows the object if the object must not be written over.
Offset(r, size) == IF r.poison \/ r.ctor THEN size ELSE 0

\* calculate_sizes and the fields that kmem_cache_open sets
CalculateSizes(r) ==
    LET inuse == Align(r.size, Pointer)
        offset == Offset(r, inuse)
        whole == IF r.poison \/ r.ctor THEN inuse + Pointer ELSE inuse
        size == Align(whole, CalculateAlignment(r.hwalign, r.align, r.size))
        order == CalculateOrder(size)
    IN  [size |-> size, objsize |-> r.size, inuse |-> inuse, offset |-> offset,
         order |-> order, objects |-> IF order < 0 THEN 0 ELSE (PageSize * 2^order) \div size,
         dma |-> r.dma, poison |-> r.poison, ctor |-> r.ctor, refcount |-> 1,
         cpu_slab |-> [c \in Cpus |-> "null"], cpu_objsize |-> [c \in Cpus |-> r.size],
         users |-> <<r>>]

-----------------------------------------------------------------------------
(* The structures of the CPUs                                              *)

\* alloc_kmem_cache_cpus takes from the pool of a CPU, or from kmalloc when the
\* pool is empty.  Without memory the CPUs in NoHeap get none, and what was
\* taken goes back.
AllocKmemCacheCpus(s, pool, NoHeap) ==
    LET from == [c \in Cpus |-> IF pool[c] > 0 THEN "pool" ELSE "heap"]
        ok == \A c \in NoHeap : from[c] = "pool"
    IN  [ok |-> ok, s |-> [s EXCEPT !.cpu_slab = from],
         pool |-> [c \in Cpus |-> IF ok /\ from[c] = "pool" THEN pool[c] - 1 ELSE pool[c]]]

\* Mutated form: structures from the pool are not put back.
FreeKmemCacheCpusHeap(s, pool) == pool

\* free_kmem_cache_cpus, free_kmem_cache_cpu
FreeKmemCacheCpus(s, pool) ==
    [c \in Cpus |-> IF s.cpu_slab[c] = "pool" THEN pool[c] + 1 ELSE pool[c]]

-----------------------------------------------------------------------------
(* Creation and destruction                                                *)

SlabUnmergeable(s) == s.poison \/ s.ctor \/ s.refcount < 0

\* find_mergeable: whether request r can be served by cache s
Mergeable(s, r) ==
    LET align == CalculateAlignment(r.hwalign, r.align, Align(r.size, Pointer))
        size == Align(Align(r.size, Pointer), align)
    IN  /\ ~SlabUnmergeable(s) /\ size <= s.size /\ r.dma = s.dma
        /\ s.size % align = 0 /\ s.size - size < Pointer

\* The first cache of the list that will do, or 0
FindMergeable(r) ==
    LET good == {i \in DOMAIN sc.list : Mergeable(sc.list[i], r)}
    IN  IF r.poison \/ r.ctor \/ good = {} THEN 0 ELSE Min(good)

\* kmem_cache_create for a cache that is shared
CreateMerged(r) ==
    LET i == FindMergeable(r)
        s == sc.list[i]
        objsize == Max({s.objsize, r.size})
    IN  /\ i # 0
        /\ sc' = [sc EXCEPT !.list[i] =
             [s EXCEPT !.refcount = @ + 1, !.objsize = objsize,
                       !.cpu_objsize = [c \in Cpus |-> objsize],
                       !.inuse = Max({@, Align(r.size, Pointer)}),
                       !.users = Append(@, r)]]

\* ... and for a new one; NoHeap is where kmalloc fails.
CreateNew(r, NoHeap) ==
    /\ FindMergeable(r) = 0
    /\ \E s \in {CalculateSizes(r)} : \E a \in {AllocKmemCacheCpus(s, sc.pool, NoHeap)} :
         IF s.objects # 0 /\ a.ok
         THEN sc' = [sc EXCEPT !.list = <<a.s>> \o @, !.pool = a.pool]
         ELSE UNCHANGED sc

Users == FoldSeq(LAMBDA s, n : n + Len(s.users), 0, sc.list)

KmemCacheCreate(r) ==
    /\ sc.up /\ Users < MaxUsers
    /\ CreateMerged(r) \/ \E NoHeap \in SUBSET Cpus : CreateNew(r, NoHeap)

\* kmem_cache_destroy by one of the users of cache i
KmemCacheDestroy(i, u) ==
    LET s == [sc.list[i] EXCEPT !.refcount = @ - 1, !.users = RemoveAt(@, u)]
    IN  /\ sc.up
        /\ sc' = IF s.refcount = 0
                 THEN [sc EXCEPT !.list = RemoveAt(@, i), !.pool = FreeKmemCacheCpus(s, sc.pool)]
                 ELSE [sc EXCEPT !.list[i] = s]

-----------------------------------------------------------------------------
(* kmalloc                                                                 *)

\* size_index, for sizes in steps of 8; 0-based as in the source
SizeIndexTable ==
    << 3, 4, 5, 5, 6, 6, 6, 6, 1, 1, 1, 1, 7, 7, 7, 7, 2, 2, 2, 2, 2, 2, 2, 2 >>

\* kmem_cache_init: entries below the smallest cache go to that cache.
PatchSizeIndex(table) ==
    [k \in DOMAIN table |-> IF 8 * k < KmallocMin THEN KmallocShiftLow ELSE table[k]]

\* The kmalloc caches that kmem_cache_init creates, by index: their object size
KmallocCaches ==
    [i \in (IF KmallocMin <= 64 THEN {1} ELSE {}) \cup (IF KmallocMin <= 128 THEN {2} ELSE {})
           \cup KmallocShiftLow..(PageShift - 1) |->
       CASE i = 1 -> 96 [] i = 2 -> 192 [] OTHER -> 2^i]

\* get_slab
GetSlab(size) == IF size <= 192 THEN sc.size_index[(size - 1) \div 8 + 1] ELSE Fls(size - 1)

\* kmalloc_index, for a size known at compile time
KmallocIndex(size) ==
    CASE size <= KmallocMin -> KmallocShiftLow
      [] size > KmallocMin /\ size > 64 /\ size <= 96 -> 1
      [] size > KmallocMin /\ size > 128 /\ size <= 192 -> 2
      [] OTHER -> Max({3, Fls(size - 1)})

KmallocRequest(size) ==
    [size |-> size, align |-> KmallocMin, hwalign |-> FALSE, dma |-> FALSE,
     poison |-> FALSE, ctor |-> FALSE]

-----------------------------------------------------------------------------
Down == [list |-> <<>>, pool |-> [c \in Cpus |-> 0], size_index |-> SizeIndexTable, up |-> FALSE]

Init == sc = Down

\* kmem_cache_init: init_alloc_cpu fills the pools.  The kmalloc caches, which
\* it takes from them, are left out of the list.
KmemCacheInit ==
    /\ ~sc.up
    /\ sc' = [sc EXCEPT !.pool = [c \in Cpus |-> PoolSize], !.up = TRUE,
                        !.size_index = PatchSizeIndex(@)]

Next ==
    \/ KmemCacheInit
    \/ \E r \in Requests : KmemCacheCreate(r)
    \/ \E i \in DOMAIN sc.list : \E u \in DOMAIN sc.list[i].users : KmemCacheDestroy(i, u)

-----------------------------------------------------------------------------
(* Properties                                                              *)

\* Sharing never gives a user less than it asked for: its object fits, is
\* aligned as asked, is of the right memory, and a user whose objects must
\* survive being free is alone and has the free pointer behind the object.
UsersServed ==
    \A i \in DOMAIN sc.list : LET s == sc.list[i] IN \A u \in DOMAIN s.users :
        LET r == s.users[u] IN
        /\ r.size <= s.objsize /\ s.objsize <= s.size /\ s.inuse <= s.size
        /\ \A c \in Cpus : s.cpu_objsize[c] = s.objsize
        /\ s.size % CalculateAlignment(r.hwalign, r.align, r.size) = 0
        /\ s.dma = r.dma
        /\ r.poison \/ r.ctor => /\ Len(s.users) = 1
                                 /\ s.offset >= r.size /\ s.offset + Pointer <= s.size

\* Every cache has room for an object in a block the page allocator has, unless
\* a single object is larger than any such block.
SlabsFit ==
    \A i \in DOMAIN sc.list : LET s == sc.list[i] IN
        /\ s.objects >= 1 /\ s.objects * s.size <= PageSize * 2^s.order
        /\ s.size <= PageSize * 2^(MAX_ORDER - 1) => s.order < MAX_ORDER

\* A cache lives as long as it has users, and the structures of the CPUs are
\* neither lost nor in two caches, also when creating a cache fails half way.
CachesBalanced ==
    /\ \A i \in DOMAIN sc.list : sc.list[i].refcount = Len(sc.list[i].users) /\ sc.list[i].refcount > 0
    /\ sc.up => \A c \in Cpus :
         sc.pool[c] + Cardinality({i \in DOMAIN sc.list : sc.list[i].cpu_slab[c] = "pool"}) = PoolSize

\* kmalloc finds a cache that exists and is large enough for every size up to
\* half a page, the same one whether the size is known at compile time or not,
\* and each of these caches can be made, with objects aligned for DMA.
KmallocFits ==
    sc.up /\ sc.list = <<>> =>
        /\ \A size \in 1..(PageSize \div 2) : LET i == GetSlab(size) IN
               i \in DOMAIN KmallocCaches /\ KmallocCaches[i] >= size /\ KmallocIndex(size) = i
        /\ \A i \in DOMAIN KmallocCaches : LET s == CalculateSizes(KmallocRequest(KmallocCaches[i])) IN
               /\ s.objects >= 1 /\ s.order < MAX_ORDER
               /\ s.size >= KmallocCaches[i] /\ s.size % KmallocMin = 0

CachesOK == UsersServed /\ SlabsFit /\ CachesBalanced /\ KmallocFits
=============================================================================
