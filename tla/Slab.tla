-------------------------------- MODULE Slab --------------------------------
(***************************************************************************)
(* One cache of the slab allocator of mm/slab.c, used by several CPUs: the *)
(* lockless free list of each CPU, the free list of each slab under the    *)
(* slab's lock bit, and the list of partial slabs under n->list_lock, from *)
(* the opening of the cache to kmem_cache_close.                           *)
(*                                                                         *)
(* A free list is a set: which object is first in it is left open.  An     *)
(* operation runs with the interrupts of its CPU off, so that a CPU is in  *)
(* one operation at a time; it can be delayed wherever it takes a lock or  *)
(* lets another CPU see a slab.  list_lock is held over several steps only *)
(* in get_partial_node, which tries the locks of slabs while it has it.    *)
(***************************************************************************)
EXTENDS Integers, FiniteSets, Sequences

CONSTANTS Cpus,        \* the online CPUs
          Slabs,       \* the blocks of pages the page allocator can give
          Objs,        \* the places for an object in a slab
          MinPartial,  \* MIN_PARTIAL
          MaxHeld,     \* bound: objects in use at a time
          None         \* NULL, and a free lock

Objects == Slabs \X Objs
Of(p) == {p} \X Objs
SlabOf(o) == o[1]
Count == Cardinality(Objs)    \* s->objects

VARIABLES slab,     \* struct page: PageSlab, lock bit, frozen, inuse, freelist
          node,     \* struct kmem_cache_node: partial, nr_partial, nr_slabs, list_lock
          cpu_slab, \* struct kmem_cache_cpu: page and freelist
          held,     \* the objects that callers have
          op,       \* the operation a CPU is in: position and locals
          close     \* kmem_cache_close: its phase, the CPUs it waits for, its result

vars == <<slab, node, cpu_slab, held, op, close>>

FreePage == [is |-> FALSE, lock |-> None, frozen |-> FALSE, inuse |-> 0, freelist |-> {}]

\* discard: the slab is given back when it is unlocked
\* after: where the operation goes on when it is done with the slab
Idle == [pc |-> "idle", page |-> None, x |-> None, scan |-> <<>>,
         discard |-> FALSE, after |-> "idle"]

\* kmem_cache_open, with init_kmem_cache_node and init_kmem_cache_cpu
Init ==
    /\ slab = [p \in Slabs |-> FreePage]
    /\ node = [partial |-> <<>>, nr_partial |-> 0, nr_slabs |-> 0, list_lock |-> None]
    /\ cpu_slab = [c \in Cpus |-> [page |-> None, freelist |-> {}]]
    /\ held = {}
    /\ op = [c \in Cpus |-> Idle]
    /\ close = [phase |-> "open", wait |-> {}, ret |-> 0]

At(c, pc) == op[c].pc = pc
Become(c, r) == op' = [op EXCEPT ![c] = r]

\* slab_lock and slab_trylock succeed
Unlocked(p) == slab[p].lock = None
ListUnlocked == node.list_lock = None

-----------------------------------------------------------------------------
(* Slabs and the partial list                                              *)

Partial == {node.partial[i] : i \in DOMAIN node.partial}

\* What unfreeze_slab does with the slab; nr_partial is read without the lock.
AfterUnfreeze(s) ==
    IF s.inuse # 0 THEN IF s.freelist # {} THEN "add_partial" ELSE "unlock"
    ELSE IF node.nr_partial < MinPartial THEN "add_partial_tail" ELSE "unlock"

\* deactivate_slab of a CPU that has locked its slab, up to the point where
\* unfreeze_slab has chosen; a slab that is not kept is discarded.
Deactivate(c, locked, after) ==
    LET p == cpu_slab[c].page
        s == [locked EXCEPT !.freelist = @ \cup cpu_slab[c].freelist,
                            !.inuse = @ - Cardinality(cpu_slab[c].freelist),
                            !.frozen = FALSE]
        pc == AfterUnfreeze(s)
    IN  /\ slab' = [slab EXCEPT ![p] = s]
        /\ cpu_slab' = [cpu_slab EXCEPT ![c] = [page |-> None, freelist |-> {}]]
        /\ Become(c, [Idle EXCEPT !.pc = pc, !.page = p, !.after = after,
                                  !.discard = s.inuse = 0 /\ pc = "unlock"])

\* add_partial and add_partial_tail
AddPartial(c) ==
    /\ op[c].pc \in {"add_partial", "add_partial_tail"} /\ ListUnlocked
    /\ node' = [node EXCEPT !.nr_partial = @ + 1,
                            !.partial = IF At(c, "add_partial") THEN <<op[c].page>> \o @
                                        ELSE Append(@, op[c].page)]
    /\ Become(c, [op[c] EXCEPT !.pc = "unlock"])
    /\ UNCHANGED <<slab, cpu_slab, held, close>>

\* list_del: the others close up.
Without(list, p) ==
    IF \A i \in DOMAIN list : list[i] # p THEN list
    ELSE LET k == CHOOSE i \in DOMAIN list : list[i] = p
         IN  [i \in 1..(Len(list) - 1) |-> IF i < k THEN list[i] ELSE list[i + 1]]

\* remove_partial
RemovePartial(c) ==
    /\ At(c, "remove_partial") /\ ListUnlocked
    /\ node' = [node EXCEPT !.nr_partial = @ - 1, !.partial = Without(@, op[c].page)]
    /\ Become(c, [op[c] EXCEPT !.pc = "unlock"])
    /\ UNCHANGED <<slab, cpu_slab, held, close>>

\* slab_unlock at the end of unfreeze_slab and of __slab_free
SlabUnlock(c) ==
    /\ At(c, "unlock")
    /\ slab' = [slab EXCEPT ![op[c].page].lock = None]
    /\ Become(c, IF op[c].discard THEN [op[c] EXCEPT !.pc = "discard"]
                 ELSE [Idle EXCEPT !.pc = op[c].after])
    /\ UNCHANGED <<node, cpu_slab, held, close>>

\* discard_slab, __free_slab
DiscardSlab(c) ==
    /\ At(c, "discard")
    /\ node' = [node EXCEPT !.nr_slabs = @ - 1]
    /\ slab' = [slab EXCEPT ![op[c].page] = FreePage]
    /\ Become(c, [Idle EXCEPT !.pc = op[c].after])
    /\ UNCHANGED <<cpu_slab, held, close>>

-----------------------------------------------------------------------------
(* Allocation                                                              *)

\* slab_alloc, from the list of the CPU
SlabAlloc(c) ==
    /\ close.phase = "open" /\ At(c, "idle") /\ Cardinality(held) < MaxHeld
    /\ \E o \in cpu_slab[c].freelist :
         /\ held' = held \cup {o}
         /\ cpu_slab' = [cpu_slab EXCEPT ![c].freelist = @ \ {o}]
    /\ UNCHANGED <<slab, node, op, close>>

\* __slab_alloc begins
SlabAllocSlow(c) ==
    /\ close.phase = "open" /\ At(c, "idle") /\ Cardinality(held) < MaxHeld
    /\ cpu_slab[c].freelist = {}
    /\ Become(c, [Idle EXCEPT !.pc = IF cpu_slab[c].page = None THEN "get_partial" ELSE "load"])
    /\ UNCHANGED <<slab, node, cpu_slab, held, close>>

\* Mutated form: inuse counts only the object that is returned.
LoadFreelistInuse(c, p, o) ==
    /\ cpu_slab' = [cpu_slab EXCEPT ![c] = [page |-> p, freelist |-> slab[p].freelist \ {o}]]
    /\ slab' = [slab EXCEPT ![p].inuse = @ + 1, ![p].freelist = {}, ![p].lock = None]

\* load_freelist: the CPU takes over the whole free list, as if it were in use.
LoadFreelist(c, p, o) ==
    /\ cpu_slab' = [cpu_slab EXCEPT ![c] = [page |-> p, freelist |-> slab[p].freelist \ {o}]]
    /\ slab' = [slab EXCEPT ![p].inuse = Count, ![p].freelist = {}, ![p].lock = None]

\* slab_lock of the CPU's slab; then its free list is loaded, or if it has
\* none another slab is looked for.
LoadCpuSlab(c) ==
    LET p == cpu_slab[c].page
    IN  /\ At(c, "load") /\ slab[p].lock \in {None, c}
        /\ IF slab[p].freelist # {}
           THEN /\ \E o \in slab[p].freelist : LoadFreelist(c, p, o) /\ held' = held \cup {o}
                /\ Become(c, Idle)
           ELSE /\ Deactivate(c, [slab[p] EXCEPT !.lock = c], "get_partial")
                /\ UNCHANGED held
        /\ UNCHANGED <<node, close>>

\* get_partial_node looks at nr_partial without the lock ...
GetPartial(c) ==
    /\ At(c, "get_partial")
    /\ Become(c, [Idle EXCEPT !.pc = IF node.nr_partial = 0 THEN "new_slab" ELSE "list_lock"])
    /\ UNCHANGED <<slab, node, cpu_slab, held, close>>

\* ... and takes it to go through the list.
ListLock(c) ==
    /\ At(c, "list_lock") /\ ListUnlocked
    /\ node' = [node EXCEPT !.list_lock = c]
    /\ Become(c, [Idle EXCEPT !.pc = "scan", !.scan = node.partial])
    /\ UNCHANGED <<slab, cpu_slab, held, close>>

\* A slab whose lock is taken is passed over.
TryNext(c) == TRUE

\* lock_and_freeze_slab for the next slab of the list
LockAndFreezeSlab(c) ==
    LET p == Head(op[c].scan)
    IN  /\ At(c, "scan") /\ op[c].scan # <<>> /\ TryNext(c)
        /\ IF Unlocked(p)
           THEN /\ slab' = [slab EXCEPT ![p].lock = c, ![p].frozen = TRUE]
                /\ node' = [node EXCEPT !.nr_partial = @ - 1, !.partial = Without(@, p),
                                        !.list_lock = None]
                /\ cpu_slab' = [cpu_slab EXCEPT ![c].page = p]
                /\ Become(c, [Idle EXCEPT !.pc = "load"])
           ELSE /\ Become(c, [op[c] EXCEPT !.scan = Tail(@)])
                /\ UNCHANGED <<slab, node, cpu_slab>>
        /\ UNCHANGED <<held, close>>

NoPartial(c) ==
    /\ At(c, "scan") /\ op[c].scan = <<>>
    /\ node' = [node EXCEPT !.list_lock = None]
    /\ Become(c, [Idle EXCEPT !.pc = "new_slab"])
    /\ UNCHANGED <<slab, cpu_slab, held, close>>

\* new_slab, locked and frozen before any other CPU can know of it.  The CPU
\* has no slab here (SlabsPlaced): its interrupts stayed off.
NewSlab(c) ==
    /\ At(c, "new_slab")
    /\ \E p \in Slabs :
         /\ ~slab[p].is
         /\ slab' = [slab EXCEPT ![p] = [is |-> TRUE, lock |-> c, frozen |-> TRUE,
                                         inuse |-> 0, freelist |-> Of(p)]]
         /\ cpu_slab' = [cpu_slab EXCEPT ![c].page = p]
    /\ node' = [node EXCEPT !.nr_slabs = @ + 1]
    /\ Become(c, [Idle EXCEPT !.pc = "load"])
    /\ UNCHANGED <<held, close>>

\* allocate_slab fails
NoMemory(c) ==
    /\ At(c, "new_slab") /\ \A p \in Slabs : slab[p].is
    /\ Become(c, Idle)
    /\ UNCHANGED <<slab, node, cpu_slab, held, close>>

-----------------------------------------------------------------------------
(* Release                                                                 *)

\* slab_free: to the list of the CPU if the object is from its slab
SlabFree(c, o) ==
    /\ close.phase = "open" /\ At(c, "idle") /\ o \in held
    /\ held' = held \ {o}
    /\ IF SlabOf(o) = cpu_slab[c].page
       THEN cpu_slab' = [cpu_slab EXCEPT ![c].freelist = @ \cup {o}] /\ UNCHANGED op
       ELSE Become(c, [Idle EXCEPT !.pc = "free", !.page = SlabOf(o), !.x = o]) /\ UNCHANGED cpu_slab
    /\ UNCHANGED <<slab, node, close>>

\* Mutated form: the frozen flag of the slab is not looked at.
AfterFreeThawed(s, prior) ==
    CASE s.inuse = 0 -> IF prior # {} THEN "remove_partial" ELSE "unlock"
      [] s.inuse # 0 /\ prior = {} -> "add_partial_tail"
      [] OTHER -> "unlock"

\* What __slab_free does with the slab, and whether it discards it.
AfterFree(s, prior) ==
    CASE s.frozen -> "unlock"
      [] ~s.frozen /\ s.inuse = 0 -> IF prior # {} THEN "remove_partial" ELSE "unlock"
      [] ~s.frozen /\ s.inuse # 0 /\ prior = {} -> "add_partial_tail"
      [] OTHER -> "unlock"

\* __slab_free under the lock of the slab
SlabFreeSlow(c) ==
    LET p == op[c].page
        s == [slab[p] EXCEPT !.lock = c, !.freelist = @ \cup {op[c].x}, !.inuse = @ - 1]
    IN  /\ At(c, "free") /\ Unlocked(p)
        /\ slab' = [slab EXCEPT ![p] = s]
        /\ Become(c, [Idle EXCEPT !.pc = AfterFree(s, slab[p].freelist), !.page = p,
                                  !.discard = ~s.frozen /\ s.inuse = 0])
        /\ UNCHANGED <<node, cpu_slab, held, close>>

-----------------------------------------------------------------------------
(* Closing                                                                 *)

\* kmem_cache_close: flush_all.  The last user is done with the cache.
CloseBegin ==
    /\ close.phase = "open" /\ \A c \in Cpus : At(c, "idle")
    /\ close' = [close EXCEPT !.phase = "flush", !.wait = Cpus]
    /\ UNCHANGED <<slab, node, cpu_slab, held, op>>

\* flush_cpu_slab, called on every CPU
FlushCpuSlab(c) ==
    LET p == cpu_slab[c].page
    IN  /\ c \in close.wait /\ At(c, "idle")
        /\ close' = [close EXCEPT !.wait = @ \ {c}]
        /\ IF p = None THEN UNCHANGED <<slab, cpu_slab, op>>
           ELSE Unlocked(p) /\ Deactivate(c, [slab[p] EXCEPT !.lock = c], "idle")
        /\ UNCHANGED <<node, held>>

InUse(list) == SelectSeq(list, LAMBDA p : slab[p].inuse # 0)

\* free_list: the empty slabs of the partial list are discarded.
FreeList ==
    LET kept == InUse(node.partial)
        freed == {p \in Partial : slab[p].inuse = 0}
    IN  /\ node' = [node EXCEPT !.partial = kept,
                                !.nr_partial = @ - Len(kept),
                                !.nr_slabs = @ - Cardinality(freed)]
        /\ slab' = [p \in Slabs |-> IF p \in freed THEN FreePage ELSE slab[p]]

CloseEnd ==
    /\ close.phase = "flush" /\ close.wait = {} /\ \A c \in Cpus : At(c, "idle")
    /\ FreeList
    /\ close' = [close EXCEPT !.phase = "closed", !.ret = IF node'.nr_slabs # 0 THEN 1 ELSE 0]
    /\ UNCHANGED <<cpu_slab, held, op>>

\* The structure is freed; nothing follows.
Closed == close.phase = "closed" /\ UNCHANGED vars

-----------------------------------------------------------------------------
\* A step of an operation that has begun
Continue(c) ==
    \/ LoadCpuSlab(c) \/ GetPartial(c) \/ ListLock(c) \/ LockAndFreezeSlab(c) \/ NoPartial(c)
    \/ NewSlab(c) \/ NoMemory(c) \/ SlabFreeSlow(c) \/ AddPartial(c) \/ RemovePartial(c)
    \/ SlabUnlock(c) \/ DiscardSlab(c)

Next ==
    \/ \E c \in Cpus :
         \/ SlabAlloc(c) \/ SlabAllocSlow(c) \/ Continue(c) \/ FlushCpuSlab(c)
         \/ \E o \in held : SlabFree(c, o)
    \/ CloseBegin \/ CloseEnd \/ Closed

Spec == Init /\ [][Next]_vars

-----------------------------------------------------------------------------
(* Properties                                                              *)

\* Where an object can be: on the list of its slab, with a caller, on the list
\* of a CPU, or on its way back.
Places(o) ==
    (IF o \in slab[SlabOf(o)].freelist THEN {<<"slab", None>>} ELSE {})
    \cup (IF o \in held THEN {<<"caller", None>>} ELSE {})
    \cup {<<"list", c>> : c \in {d \in Cpus : o \in cpu_slab[d].freelist}}
    \cup {<<"free", c>> : c \in {d \in Cpus : op[d].x = o}}

\* Every object of a slab is in exactly one place, and a slab that went back to
\* the page allocator has none: no object is handed out twice or lost however
\* allocation, remote frees, takeovers of free lists and flushes interleave.
ObjectsConserved ==
    \A o \in Objects : Cardinality(Places(o)) = IF slab[SlabOf(o)].is THEN 1 ELSE 0

Busy(p) == slab[p].lock # None \/ \E c \in Cpus : op[c].page = p /\ At(c, "discard")

\* A slab is on the partial list exactly when it has free objects and belongs
\* to no CPU, is frozen exactly when it belongs to a CPU, and the counters
\* agree with it, whenever nobody is in the middle of changing that slab.  A
\* CPU that asks for a new slab has none.
SlabsPlaced ==
    /\ node.nr_slabs = Cardinality({p \in Slabs : slab[p].is})
    /\ \A c \in Cpus : At(c, "new_slab") => cpu_slab[c].page = None
    /\ \A p \in Slabs : slab[p].is =>
         /\ slab[p].inuse = Count - Cardinality(slab[p].freelist)
         /\ slab[p].frozen <=> \E c \in Cpus : cpu_slab[c].page = p
    /\ close.phase # "closed" =>
         /\ node.nr_partial = Len(node.partial) /\ Len(node.partial) = Cardinality(Partial)
         /\ \A p \in Slabs : slab[p].is /\ ~Busy(p) =>
              (p \in Partial <=> ~slab[p].frozen /\ slab[p].freelist # {})
    /\ \A p \in Partial : slab[p].is /\ ~slab[p].frozen

\* Empty slabs are kept up to MIN_PARTIAL only: beyond it, a slab that gets
\* empty while off the CPUs goes back, up to the CPUs that looked at
\* nr_partial at the same time.
EmptySlabsBounded ==
    Cardinality({p \in Partial : slab[p].inuse = 0}) <= MinPartial + Cardinality(Cpus) - 1

\* The locks of slabs and list_lock are taken in both orders, and no set of CPUs
\* ever waits for one another: one that is in an operation can go on.
NoLockCycle ==
    (\E c \in Cpus : ~At(c, "idle")) => \E c \in Cpus : ENABLED Continue(c)

\* kmem_cache_close reports slabs left over exactly when a caller still has an
\* object: nothing of an unused cache is leaked, whichever CPU had which slab.
CloseExact ==
    close.phase = "closed" => (close.ret = 0 <=> held = {})
=============================================================================
