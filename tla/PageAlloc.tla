------------------------------ MODULE PageAlloc ------------------------------
(***************************************************************************)
(* The page allocator of mm/page_alloc.c: the buddy system of each zone    *)
(* under zone->lock, the per-CPU lists of single pages in front of it, the *)
(* release of the boot memory into it, and page reference counts.          *)
(*                                                                         *)
(* Free lists and per-CPU lists are sets: which page is first in a list,   *)
(* that is which end a page was added to, is left open.  What a CPU does   *)
(* under zone->lock or to its own list with interrupts off is one step     *)
(* where no other CPU can tell; the loops that take single pages from or   *)
(* to a per-CPU list go page by page.                                      *)
(*                                                                         *)
(* A CPU that runs out of pages drains the lists of the others.  Nothing   *)
(* in the code keeps their owners out meanwhile (Exclusive = FALSE); what  *)
(* holds if something did is checked with Exclusive = TRUE.                *)
(***************************************************************************)
EXTENDS Integers, FiniteSets, Sequences

CONSTANTS Cpus,       \* the online CPUs, positive numbers
          MaxOrder,   \* MAX_ORDER
          Ranges,     \* free memory at boot: a sequence of <<zone, start, end>>
          Reserved,   \* reserved pages that are released later (ZONE_NORMAL)
          Batch, High,  \* pcp->batch and pcp->high
          MaxRef,     \* bound: references to one page
          MaxOwned,   \* bound: blocks in use at a time
          Exclusive   \* owners keep away from a list that is being drained

Normal == "Normal"
RangePages(r) == r[2]..(r[3] - 1)
Pages == Reserved \cup UNION {RangePages(Ranges[i]) : i \in DOMAIN Ranges}
Zones == {Normal} \cup {Ranges[i][1] : i \in DOMAIN Ranges}
Orders == 0..(MaxOrder - 1)

ZoneOf == [p \in Pages |->
             IF p \in Reserved THEN Normal
             ELSE Ranges[CHOOSE i \in DOMAIN Ranges : p \in RangePages(Ranges[i])][1]]

\* pageset_set_batch gives six batches, or none and a batch of one.
ASSUME PageAllocConstants ==
    /\ Pages \subseteq Nat \ {0}
    /\ Batch \in Nat \ {0} /\ (High >= Batch \/ (High = 0 /\ Batch = 1))

VARIABLES area,     \* zone->free_area[order].free_list, by zone and order
          nr_free,  \* zone->free_area[order].nr_free
          managed,  \* zone->managed_pages
          lock,     \* the CPU that holds zone->lock, or 0
          page,     \* struct page: reference count, buddy and compound state
          pcp,      \* the pages on a CPU's list, by CPU and zone
          count,    \* pcp->count
          boot,     \* what memblock_free_all has still to release
          reserved, \* the pages with PG_reserved set
          owned,    \* blocks in use: <<first page, order>>
          cpu,      \* per CPU: position and locals
          bad       \* pages that failed a check, and 0 for a list overrun

zones == <<area, nr_free, lock>>
lists == <<pcp, count>>
vars == <<zones, managed, page, lists, boot, reserved, owned, cpu, bad>>

Pow(o) == 2^o
Block(p, o) == p..(p + Pow(o) - 1)
Align(p, o) == p - (p % Pow(o))

\* order: of the free block the page heads (PageBuddy), or -1
\* head: of the compound page it is a tail of, or 0;  compound: its order
FreshPage(ref) == [ref |-> ref, order |-> -1, head |-> 0, compound |-> 0]

Idle == [pc |-> "idle", zone |-> Normal, order |-> 0, n |-> 0, list |-> {},
         victim |-> 0, train |-> FALSE]

BootCpu == CHOOSE c \in Cpus : \A d \in Cpus : c <= d

\* free_area_init_node: every page is initialised with one reference.
Init ==
    /\ area = [z \in Zones |-> [o \in Orders |-> {}]]
    /\ nr_free = [z \in Zones |-> [o \in Orders |-> 0]]
    /\ managed = [z \in Zones |-> 0]
    /\ lock = [z \in Zones |-> 0]
    /\ page = [p \in Pages |-> FreshPage(1)]
    /\ pcp = [c \in Cpus |-> [z \in Zones |-> {}]]
    /\ count = [c \in Cpus |-> [z \in Zones |-> 0]]
    /\ boot = Ranges
    /\ reserved = Reserved
    /\ owned = {}
    /\ cpu = [c \in Cpus |-> Idle]
    /\ bad = {}

At(c, pc) == cpu[c].pc = pc
Become(c, r) == cpu' = [cpu EXCEPT ![c] = r]

-----------------------------------------------------------------------------
(* The buddy system                                                        *)

FindBuddyPfn(p, o) == IF (p \div Pow(o)) % 2 = 0 THEN p + Pow(o) ELSE p - Pow(o)

\* pfn_valid_within, PageBuddy, the order and the zone.
PageIsBuddy(p, o) ==
    LET b == FindBuddyPfn(p, o)
    IN  b \in Pages /\ page[b].order = o /\ ZoneOf[b] = ZoneOf[p]

\* Mutated form: merging stops after the first buddy.
MergedOrderOnce(p, o) ==
    IF o < MaxOrder - 1 /\ PageIsBuddy(p, o) THEN o + 1 ELSE o

\* The order at which the merging loop ends: up to it every buddy was free.
MergedOrder(p, o) ==
    CHOOSE k \in o..(MaxOrder - 1) :
        /\ \A j \in o..(k - 1) : PageIsBuddy(Align(p, j), j)
        /\ k = MaxOrder - 1 \/ ~PageIsBuddy(Align(p, k), k)

\* __free_one_page: the buddies leave their lists, the merged block enters one.
FreeOnePage(p, o) ==
    LET z == ZoneOf[p]
        k == MergedOrder(p, o)
        merged == {FindBuddyPfn(Align(p, j), j) : j \in o..(k - 1)}
        first == Align(p, k)
    IN  /\ area' = [area EXCEPT ![z] = [j \in Orders |->
             (@[j] \ (IF j < k THEN merged ELSE {})) \cup (IF j = k THEN {first} ELSE {})]]
        /\ nr_free' = [nr_free EXCEPT ![z] = [j \in Orders |->
             IF j \in o..(k - 1) THEN @[j] - 1 ELSE IF j = k THEN @[j] + 1 ELSE @[j]]]
        /\ page' = [q \in Pages |->
             IF q = first THEN [page[q] EXCEPT !.order = k]
             ELSE IF q \in merged THEN [page[q] EXCEPT !.order = -1] ELSE page[q]]

\* What __rmqueue_smallest finds first: the smallest sufficient order.
Fits(z, o) == {k \in o..(MaxOrder - 1) : area[z][k] # {}}

Smallest(z, o) == CHOOSE k \in Fits(z, o) : \A j \in Fits(z, o) : k <= j

\* Mutated form: the split starts one order too high.
ExpandShort(p, low, high) == {<<p + Pow(h), h>> : h \in (low + 1)..(high - 1)}

\* expand: the upper halves of the block that is split.
Expand(p, low, high) == {<<p + Pow(h), h>> : h \in low..(high - 1)}

\* __rmqueue_smallest, p being first in its list: the lists ...
TakeBlock(z, o, p) ==
    LET k == Smallest(z, o)
        halves == Expand(p, o, k)
        Halves(j) == {h[1] : h \in {x \in halves : x[2] = j}}
    IN  /\ area' = [area EXCEPT ![z] = [j \in Orders |->
             (IF j = k THEN @[j] \ {p} ELSE @[j]) \cup Halves(j)]]
        /\ nr_free' = [nr_free EXCEPT ![z] = [j \in Orders |->
             IF j = k THEN @[j] - 1 ELSE @[j] + Cardinality(Halves(j))]]

\* ... and the struct pages.
Taken(z, o, p) ==
    LET halves == Expand(p, o, Smallest(z, o))
    IN  [q \in Pages |->
           IF q = p THEN [page[q] EXCEPT !.order = -1]
           ELSE IF \E h \in halves : h[1] = q
                THEN [page[q] EXCEPT !.order = CHOOSE h \in Orders : <<q, h>> \in halves]
           ELSE page[q]]

-----------------------------------------------------------------------------
(* Checks and preparation                                                  *)

\* page_expected_state
ExpectedState(r) == r.ref = 0 /\ r.order = -1

\* check_new_page: the flags looked at include the one of a compound head.
CheckNewPages(pg, p, o) ==
    {q \in Block(p, o) : ~ExpectedState(pg[q]) \/ pg[q].compound # 0}

\* prep_new_page and, for more than one page, prep_compound_page
PrepNewPage(pg, p, o) ==
    [q \in Pages |->
       IF q = p THEN [pg[q] EXCEPT !.ref = 1, !.compound = o]
       ELSE IF q \in Block(p, o) THEN [pg[q] EXCEPT !.ref = 0, !.head = p]
       ELSE pg[q]]

\* free_pages_prepare of a block whose last reference is dropped
FreePagesPrepare(pg, p, o) ==
    [q \in Pages |-> IF q \in Block(p, o)
                     THEN [pg[q] EXCEPT !.ref = IF q = p THEN 0 ELSE @,
                                        !.head = 0, !.compound = 0]
                     ELSE pg[q]]

\* What it finds wrong.
FreePagesCheck(pg, p, o) ==
    LET compound == pg[p].compound # 0
    IN  {q \in Block(p, o) :
           \/ q = p /\ (pg[p].order # -1 \/ pg[p].head # 0)
           \/ q = p /\ compound /\ pg[p].compound # o
           \/ q # p /\ ~ExpectedState(pg[q])
           \/ q # p /\ compound /\ pg[q].head # p}

-----------------------------------------------------------------------------
(* Allocation                                                              *)

Enter(o) == IF o = 0 THEN "pcplist" ELSE "rmqueue"

\* __alloc_pages
AllocPages(c, z, o) ==
    /\ boot = <<>> /\ At(c, "idle")
    /\ Cardinality(owned) < MaxOwned
    /\ Become(c, [Idle EXCEPT !.pc = Enter(o), !.zone = z, !.order = o])
    /\ UNCHANGED <<zones, managed, page, lists, boot, reserved, owned, bad>>

\* The new block is given out, or kept out of use if it looks wrong.
Deliver(c, pg, p, o) ==
    LET wrong == CheckNewPages(pg, p, o)
    IN  /\ page' = IF wrong = {} THEN PrepNewPage(pg, p, o) ELSE pg
        /\ owned' = IF wrong = {} THEN owned \cup {<<p, o>>} ELSE owned
        /\ cpu' = IF wrong = {} THEN [cpu EXCEPT ![c] = Idle] ELSE cpu
        /\ bad' = bad \cup wrong

\* Another CPU takes pages off the list of c.
Drained(c, z) ==
    \E d \in Cpus \ {c} : At(d, "take") /\ cpu[d].victim = c /\ cpu[d].zone = z

Unmolested(c) == Exclusive => ~Drained(c, cpu[c].zone)

\* __rmqueue_pcplist takes a page from the list ...
PcplistTake(c) ==
    LET z == cpu[c].zone
    IN  /\ At(c, "pcplist") /\ Unmolested(c)
        /\ \E p \in pcp[c][z] :
             /\ pcp' = [pcp EXCEPT ![c][z] = @ \ {p}]
             /\ count' = [count EXCEPT ![c][z] = @ - 1]
             /\ Deliver(c, page, p, 0)
        /\ UNCHANGED <<zones, managed, boot, reserved>>

\* ... or fills the empty list first, under zone->lock.
PcplistRefill(c) ==
    LET z == cpu[c].zone
    IN  /\ At(c, "pcplist") /\ Unmolested(c)
        /\ pcp[c][z] = {} /\ lock[z] = 0
        /\ lock' = [lock EXCEPT ![z] = c]
        /\ Become(c, [cpu[c] EXCEPT !.pc = "bulk", !.n = Batch])
        /\ UNCHANGED <<area, nr_free, managed, page, lists, boot, reserved, owned, bad>>

\* rmqueue_bulk
RmqueueBulk(c) ==
    LET z == cpu[c].zone
    IN  /\ At(c, "bulk") /\ cpu[c].n > 0 /\ Fits(z, 0) # {}
        /\ \E p \in area[z][Smallest(z, 0)] :
             /\ TakeBlock(z, 0, p)
             /\ page' = Taken(z, 0, p)
             /\ pcp' = [pcp EXCEPT ![c][z] = @ \cup {p}]
        /\ Become(c, [cpu[c] EXCEPT !.n = @ - 1])
        /\ UNCHANGED <<lock, managed, count, boot, reserved, owned, bad>>

\* spin_unlock at the end of rmqueue_bulk
BulkUnlock(z) == [lock EXCEPT ![z] = 0]

\* What rmqueue_bulk returns
Alloced(c) == Batch - cpu[c].n

\* count is brought up to date when the lock has been dropped.
RmqueueBulkDone(c) ==
    LET z == cpu[c].zone
    IN  /\ At(c, "bulk") /\ (cpu[c].n = 0 \/ Fits(z, 0) = {})
        /\ lock' = BulkUnlock(z)
        /\ count' = [count EXCEPT ![c][z] = @ + Alloced(c)]
        /\ Become(c, [cpu[c] EXCEPT !.n = 0,
                                    !.pc = IF pcp[c][z] = {} THEN "drain" ELSE "pcplist"])
        /\ UNCHANGED <<area, nr_free, managed, page, pcp, boot, reserved, owned, bad>>

\* rmqueue of a larger block
RmqueueBlock(c) ==
    LET z == cpu[c].zone
        o == cpu[c].order
    IN  /\ At(c, "rmqueue") /\ lock[z] = 0 /\ Fits(z, o) # {}
        /\ \E p \in area[z][Smallest(z, o)] :
             TakeBlock(z, o, p) /\ Deliver(c, Taken(z, o, p), p, o)
        /\ UNCHANGED <<lock, managed, lists, boot, reserved>>

RmqueueFails(c) ==
    LET z == cpu[c].zone
    IN  /\ At(c, "rmqueue") /\ lock[z] = 0 /\ Fits(z, cpu[c].order) = {}
        /\ Become(c, [cpu[c] EXCEPT !.pc = "drain"])
        /\ UNCHANGED <<zones, managed, page, lists, boot, reserved, owned, bad>>

\* The CPU is in the middle of an operation on its own list.
OnOwnList(c) == At(c, "bulk") \/ (At(c, "take") /\ cpu[c].victim = c)

\* The CPUs that get_page_from_freelist has still to visit.
ToDrain(c) == {d \in Cpus \ {c} : d > cpu[c].victim}

\* drain_pages_zone for the next CPU: count is read here.
DrainPagesZone(c) ==
    LET z == cpu[c].zone
        d == CHOOSE x \in ToDrain(c) : \A y \in ToDrain(c) : x <= y
    IN  /\ At(c, "drain") /\ ToDrain(c) # {}
        /\ Exclusive => ~Drained(d, z) /\ ~(OnOwnList(d) /\ cpu[d].zone = z)
        /\ Become(c, [cpu[c] EXCEPT !.victim = d, !.n = count[d][z],
                                    !.train = count[d][z] # 0,
                                    !.pc = IF count[d][z] # 0 THEN "take" ELSE "drain"])
        /\ UNCHANGED <<zones, managed, page, lists, boot, reserved, owned, bad>>

\* All are drained: only what the last one had decides whether to try again.
DrainDone(c) ==
    /\ At(c, "drain") /\ ToDrain(c) = {}
    /\ Become(c, IF cpu[c].train
                 THEN [Idle EXCEPT !.pc = Enter(cpu[c].order), !.zone = cpu[c].zone,
                                   !.order = cpu[c].order]
                 ELSE Idle)
    /\ UNCHANGED <<zones, managed, page, lists, boot, reserved, owned, bad>>

-----------------------------------------------------------------------------
(* Release                                                                 *)

\* free_pcppages_bulk takes n pages off the list of the victim; when the list
\* is shorter than that, it takes the list head for a page.
BulkTake(c) ==
    LET z == cpu[c].zone
        v == cpu[c].victim
    IN  /\ At(c, "take") /\ cpu[c].n > 0
        /\ count' = [count EXCEPT ![v][z] = @ - 1]
        /\ IF pcp[v][z] = {}
           THEN bad' = bad \cup {0} /\ UNCHANGED pcp /\ Become(c, [cpu[c] EXCEPT !.n = @ - 1])
           ELSE \E p \in pcp[v][z] :
                  /\ pcp' = [pcp EXCEPT ![v][z] = @ \ {p}]
                  /\ Become(c, [cpu[c] EXCEPT !.n = @ - 1, !.list = @ \cup {p}])
                  /\ UNCHANGED bad
        /\ UNCHANGED <<zones, managed, page, boot, reserved, owned>>

\* The pages that were taken go to the buddy system under zone->lock.
BulkFree(c) ==
    LET z == cpu[c].zone
        after == IF cpu[c].victim = c THEN Idle ELSE [cpu[c] EXCEPT !.pc = "drain", !.list = {}]
    IN  /\ At(c, "take") /\ cpu[c].n = 0
        /\ lock[z] \in {0, c}
        /\ \E p \in cpu[c].list :
             /\ FreeOnePage(p, 0)
             /\ IF cpu[c].list = {p}
                THEN lock' = [lock EXCEPT ![z] = 0] /\ Become(c, after)
                ELSE /\ lock' = [lock EXCEPT ![z] = c]
                     /\ Become(c, [cpu[c] EXCEPT !.list = @ \ {p}])
        /\ UNCHANGED <<managed, lists, boot, reserved, owned, bad>>

\* The last reference is dropped: checks, then free_the_page takes the block to
\* the per-CPU list or to the buddy system.
FreeThePage(c, pg, p, o) ==
    LET wrong == FreePagesCheck(pg, p, o)
    IN  /\ bad' = bad \cup wrong
        /\ page' = IF wrong = {} THEN FreePagesPrepare(pg, p, o) ELSE [pg EXCEPT ![p].ref = 0]
        /\ Become(c, IF wrong = {}
                     THEN [Idle EXCEPT !.pc = IF o = 0 THEN "commit" ELSE "free_one",
                                       !.zone = ZoneOf[p], !.order = o,
                                       !.list = {p}, !.victim = c]
                     ELSE Idle)

\* When free_unref_page_commit gives a batch back
PcpFull(n) == n >= High

\* free_unref_page_commit
FreeUnrefCommit(c) ==
    LET z == cpu[c].zone
    IN  /\ At(c, "commit") /\ Unmolested(c)
        /\ pcp' = [pcp EXCEPT ![c][z] = @ \cup cpu[c].list]
        /\ count' = [count EXCEPT ![c][z] = @ + 1]
        /\ Become(c, IF PcpFull(count'[c][z])
                     THEN [cpu[c] EXCEPT !.pc = "take", !.n = Batch, !.list = {}]
                     ELSE Idle)
        /\ UNCHANGED <<zones, managed, page, boot, reserved, owned, bad>>

\* __free_pages_ok
FreePagesOk(c) ==
    /\ At(c, "free_one") /\ lock[cpu[c].zone] = 0
    /\ \E p \in cpu[c].list : FreeOnePage(p, cpu[c].order)
    /\ Become(c, Idle)
    /\ UNCHANGED <<lock, managed, lists, boot, reserved, owned, bad>>

\* __free_pages and put_page: the last reference frees.
PutPage(c, p, o) ==
    /\ At(c, "idle") /\ <<p, o>> \in owned
    /\ IF page[p].ref = 1
       THEN owned' = owned \ {<<p, o>>} /\ FreeThePage(c, page, p, o)
       ELSE page' = [page EXCEPT ![p].ref = @ - 1] /\ UNCHANGED <<owned, cpu, bad>>
    /\ UNCHANGED <<zones, managed, lists, boot, reserved>>

GetPage(p, o) ==
    /\ <<p, o>> \in owned /\ page[p].ref < MaxRef
    /\ page' = [page EXCEPT ![p].ref = @ + 1]
    /\ UNCHANGED <<zones, managed, lists, boot, reserved, owned, cpu, bad>>

\* __free_pages_memory: the largest aligned block that starts here and fits.
BootOrder(start, end) ==
    CHOOSE o \in Orders : /\ start % Pow(o) = 0 /\ start + Pow(o) <= end
                          /\ \A k \in Orders : start % Pow(k) = 0 /\ start + Pow(k) <= end => k <= o

\* memblock_free_all and __free_pages_boot_core, a block at a time
FreePagesBoot ==
    LET r == Head(boot)
        o == BootOrder(r[2], r[3])
        rest == <<r[1], r[2] + Pow(o), r[3]>>
        counted == [q \in Pages |-> IF q \in Block(r[2], o)
                                    THEN [page[q] EXCEPT !.ref = IF q = r[2] THEN 1 ELSE 0]
                                    ELSE page[q]]
    IN  /\ boot # <<>> /\ At(BootCpu, "idle")
        /\ boot' = (IF rest[2] < rest[3] THEN <<rest>> ELSE <<>>) \o Tail(boot)
        /\ managed' = [managed EXCEPT ![r[1]] = @ + Pow(o)]
        /\ FreeThePage(BootCpu, counted, r[2], o)
        /\ UNCHANGED <<zones, lists, reserved, owned>>

\* free_reserved_area, once the boot is over
FreeReservedPage(c, p) ==
    /\ boot = <<>> /\ At(c, "idle") /\ p \in reserved
    /\ reserved' = reserved \ {p}
    /\ managed' = [managed EXCEPT ![ZoneOf[p]] = @ + 1]
    /\ FreeThePage(c, page, p, 0)
    /\ UNCHANGED <<zones, lists, boot, owned>>

-----------------------------------------------------------------------------
Next ==
    \/ FreePagesBoot
    \/ \E c \in Cpus :
         \/ \E z \in Zones, o \in Orders : AllocPages(c, z, o)
         \/ PcplistTake(c) \/ PcplistRefill(c) \/ RmqueueBulk(c) \/ RmqueueBulkDone(c)
         \/ RmqueueBlock(c) \/ RmqueueFails(c)
         \/ DrainPagesZone(c) \/ DrainDone(c)
         \/ BulkTake(c) \/ BulkFree(c) \/ FreeUnrefCommit(c) \/ FreePagesOk(c)
         \/ \E p \in Pages, o \in Orders : PutPage(c, p, o)
         \/ \E p \in Pages : FreeReservedPage(c, p)
    \/ \E p \in Pages, o \in Orders : GetPage(p, o)

Spec == Init /\ [][Next]_vars

-----------------------------------------------------------------------------
(* Properties                                                              *)

\* What a CPU has in hand: a block on its way back, or pages of a drained list.
InFlightOrder(c) == IF At(c, "free_one") THEN cpu[c].order ELSE 0

\* Where a page may be: a free list, a per-CPU list, in hand, or in use.
Places ==
    UNION {{<<"area", z, p, o>> : p \in area[z][o]} : z \in Zones, o \in Orders}
    \cup UNION {{<<"pcp", c, p, 0>> : p \in pcp[c][z]} : c \in Cpus, z \in Zones}
    \cup UNION {{<<"cpu", c, p, InFlightOrder(c)>> : p \in cpu[c].list} : c \in Cpus}
    \cup {<<"owned", 0, b[1], b[2]>> : b \in owned}

\* The pages that were released to the allocator.
Released == Pages \ (reserved \cup UNION {RangePages(boot[i]) : i \in DOMAIN boot})

\* Every page is in one place: never handed out twice, never lost, however
\* blocks are split, merged, cached and drained.
Conservation ==
    \A q \in Released :
        Cardinality({b \in Places : q \in Block(b[3], b[4])}) = 1

\* The buddy system is fully merged: no two free buddies of one zone, unless
\* they are of the largest order.  Blocks are aligned and stay in their zone.
Coalesced ==
    \A z \in Zones : \A o \in Orders : \A p \in area[z][o] :
        /\ p % Pow(o) = 0
        /\ \A q \in Block(p, o) : q \in Pages /\ ZoneOf[q] = z
        /\ o < MaxOrder - 1 => FindBuddyPfn(p, o) \notin area[z][o]

\* What the struct pages say is what the lists hold: PageBuddy and the order,
\* nr_free, and count except while its owner fills it.  zone->lock is with a
\* CPU that is in a loop under it.
BooksExact ==
    /\ \A z \in Zones : lock[z] # 0 =>
         LET r == cpu[lock[z]] IN r.zone = z /\ (r.pc = "bulk" \/ (r.pc = "take" /\ r.list # {}))
    /\ \A p \in Pages : \A o \in Orders : page[p].order = o <=> p \in area[ZoneOf[p]][o]
    /\ \A z \in Zones : \A o \in Orders : nr_free[z][o] = Cardinality(area[z][o])
    /\ \A z \in Zones : managed[z] = Cardinality({q \in Released : ZoneOf[q] = z})
    /\ \A c \in Cpus : \A z \in Zones :
         ~(At(c, "bulk") /\ cpu[c].zone = z) => count[c][z] = Cardinality(pcp[c][z])

\* No page fails a check when it is allocated or freed, and no list is taken
\* from beyond its end.
NothingBad == bad = {}
=============================================================================
