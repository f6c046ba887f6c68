----------------------------- MODULE RadixTree -----------------------------
(***************************************************************************)
(* The radix tree and the IDR on top of it: kernel/lib/radix-tree.c, the   *)
(* iterators of kernel/include/rtochius/radix-tree.h and the idr_ part of  *)
(* kernel/lib/idr.c.  The calls run under their user's lock, one at a      *)
(* time.                                                                   *)
(*                                                                         *)
(* A radix_tree_root is a struct xarray and its nodes are xa_nodes, so the *)
(* representation is the one of XArrayOps: a tree is [head, marks, track,  *)
(* nodes], where track says that it is an IDR (ROOT_IS_IDR) and marks are  *)
(* the root's tags; tag 0 of an IDR is IDR_FREE.  A slot is a pair of a    *)
(* node, or NULL for the root, and an offset.                              *)
(*                                                                         *)
(*   t     the tree                                                        *)
(*   next  idr_next                                                        *)
(*   map   what the completed calls mean: index -> its item and its tags   *)
(*   ok    whether the last call returned what the map says                *)
(***************************************************************************)
EXTENDS XArrayOps, FiniteSetsExt

CONSTANTS Keys,      \* the indices and ids used
          Base,      \* idr_base
          IntMax,    \* INT_MAX
          MaxStored  \* bound on the items stored

VARIABLE rt

Tree(t)         == [xa |-> t]
Parent(t, n)    == t.nodes[n].parent
SlotOf(t, n, o) == IF n = NULL THEN t.head ELSE t.nodes[n].slots[o]
SetSlot(t, n, o, e) == PutSlot(Tree(t), n, o, e).xa
Descend(n, i)   == GetOffset(i, n)
NodeTag(t, n, tag, o) == IF n = NULL THEN tag \in t.marks ELSE o \in t.nodes[n].marks[tag]
NodeTagSet(t, n, tag, o)   == SetMarkUp(Tree(t), n, o, tag).xa
NodeTagClear(t, n, tag, o) == ClearMarkUp(Tree(t), n, o, tag).xa
NextBit(t, n, tag, from) ==
    LET set == {o \in t.nodes[n].marks[tag] : o >= from}
    IN  IF set = {} THEN ChunkSize ELSE Min(set)
Dropped(t, n) == FreeNode(Tree(t), n).xa

RadixNode(n, parent, o, count, values) ==
    n :> [offset |-> o, parent |-> parent, count |-> count, nr |-> values,
          slots |-> [q \in Offsets |-> NULL], marks |-> [m \in Marks |-> {}]]

-----------------------------------------------------------------------------
(* Growing and shrinking.  An operation that may need nodes takes how many *)
(* the slab gives, mem, and returns [t, mem, err, node, o, i].             *)
Out(t, mem, err, n, o, i) ==
    [t |-> t, mem |-> mem, err |-> err, node |-> n, o |-> o, i |-> i]

RootTags(t, n) ==
    IF t.track
    THEN [t EXCEPT !.nodes[n].marks[FreeMark] =
                       IF FreeMark \in t.marks THEN Offsets ELSE Offsets \ {0},
                   !.marks = @ \cup {FreeMark}]
    ELSE [t EXCEPT !.nodes[n].marks = [m \in Marks |-> IF m \in t.marks THEN {0} ELSE {}]]

RECURSIVE ExtendLoop(_, _, _, _)
ExtendLoop(t, mem, shift, maxshift) ==
    IF shift > maxshift THEN Out(t, mem, "ok", NULL, 0, shift)
    ELSE IF mem = 0 THEN Out(t, mem, "ENOMEM", NULL, 0, shift)
    ELSE LET n == <<"node", shift, 0>>
             u == RootTags([t EXCEPT !.nodes = RadixNode(n, NULL, 0, 1, 0) @@ @], n)
             v == IF IsNode(t.head) THEN [u EXCEPT !.nodes[t.head].parent = n]
                  ELSE [u EXCEPT !.nodes[n].nr = Truth(IsValue(t.head))]
         IN  ExtendLoop([v EXCEPT !.nodes[n].slots[0] = t.head, !.head = n],
                        mem - 1, shift + ChunkShift, maxshift)

RECURSIVE MaxShift(_, _)
MaxShift(i, shift) ==
    IF i > ChunkSize * 2^shift - 1 THEN MaxShift(i, shift + ChunkShift) ELSE shift
Extend(t, mem, i, shift) ==
    IF t.head = NULL /\ (~t.track \/ FreeMark \in t.marks)
    THEN Out(t, mem, "ok", NULL, 0, MaxShift(i, shift) + ChunkShift)
    ELSE ExtendLoop(t, mem, shift, MaxShift(i, shift))

RECURSIVE ShrinkRoot(_)
ShrinkRoot(t) ==
    LET n == t.head
        c == t.nodes[n].slots[0]
        u == IF IsNode(c) THEN [t EXCEPT !.nodes[c].parent = NULL, !.head = c]
             ELSE [t EXCEPT !.head = c]
        v == IF t.track /\ 0 \notin t.nodes[n].marks[FreeMark]
             THEN [u EXCEPT !.marks = @ \ {FreeMark}] ELSE u
    IN  IF \/ ~IsNode(n) \/ t.nodes[n].count # 1 \/ c = NULL
           \/ (NodeShift(n) = 0 /\ t.track)
        THEN t ELSE ShrinkRoot(Dropped(v, n))

(* delete_node                                                             *)
RECURSIVE DeleteUp(_, _)
DeleteUp(t, n) ==
    IF t.nodes[n].count # 0 THEN IF t.head = n THEN ShrinkRoot(t) ELSE t
    ELSE IF Parent(t, n) = NULL
    THEN Dropped([t EXCEPT !.head = NULL, !.marks = IF t.track THEN @ ELSE {}], n)
    ELSE LET p == Parent(t, n)
             u == [SetSlot(t, p, t.nodes[n].offset, NULL) EXCEPT !.nodes[p].count = @ - 1]
         IN  DeleteUp(Dropped(u, n), p)

(* __radix_tree_create                                                     *)
AddChild(t, n, o, shift, i, free) ==
    LET c == <<"node", shift, i \div (ChunkSize * 2^shift)>>
        u == SetSlot([t EXCEPT !.nodes = RadixNode(c, n, o, 0, 0) @@ @], n, o, c)
        v == IF n = NULL THEN u ELSE [u EXCEPT !.nodes[n].count = @ + 1]
    IN  IF free THEN [v EXCEPT !.nodes[c].marks[FreeMark] = Offsets] ELSE v

RECURSIVE CreateLoop(_, _, _, _, _, _)
CreateLoop(t, mem, shift, n, o, i) ==
    LET child == SlotOf(t, n, o)
        down(u, m) == LET c == SlotOf(u, n, o)
                      IN  CreateLoop(u, m, shift - ChunkShift, c, Descend(c, i), i)
    IN  IF shift = 0 \/ ~(child = NULL \/ IsNode(child)) THEN Out(t, mem, "ok", n, o, i)
        ELSE IF IsNode(child) THEN down(t, mem)
        ELSE IF mem = 0 THEN Out(t, mem, "ENOMEM", n, o, i)
        ELSE down(AddChild(t, n, o, shift - ChunkShift, i, FALSE), mem - 1)

LoadRoot(t) == IF IsNode(t.head) THEN NodeShift(t.head) + ChunkShift ELSE 0
Create(t, mem, i) ==
    LET x == IF i > MaxIndex(t.head) THEN Extend(t, mem, i, LoadRoot(t))
             ELSE Out(t, mem, "ok", NULL, 0, LoadRoot(t))
    IN  IF x.err # "ok" THEN x ELSE CreateLoop(x.t, x.mem, x.i, NULL, 0, i)

Insert(t, mem, i, e) ==
    Bind(Create(t, mem, i), LAMBDA c :
    LET u == SetSlot(c.t, c.node, c.o, e)
    IN  IF c.err # "ok" THEN c
        ELSE IF SlotOf(c.t, c.node, c.o) # NULL THEN [c EXCEPT !.err = "EEXIST"]
        ELSE [c EXCEPT !.t = IF c.node = NULL THEN u
                             ELSE [u EXCEPT !.nodes[c.node].count = @ + 1,
                                            !.nodes[c.node].nr = @ + Truth(IsValue(e))]])

-----------------------------------------------------------------------------
(* Looking up and replacing.  Lookup returns the slot [node, o], its entry *)
(* e, and whether there is such a slot.                                    *)
RECURSIVE LookupFrom(_, _, _, _)
LookupFrom(t, n, o, i) ==
    LET e == SlotOf(t, n, o)
    IN  IF ~IsNode(e) \/ (n # NULL /\ NodeShift(n) = 0)
        THEN [slot |-> TRUE, node |-> n, o |-> o, e |-> e]
        ELSE LookupFrom(t, e, Descend(e, i), i)
Lookup(t, i) ==
    IF i > MaxIndex(t.head) THEN [slot |-> FALSE, node |-> NULL, o |-> 0, e |-> NULL]
    ELSE LookupFrom(t, NULL, 0, i)

CalculateCount(t, n, o, e, old) ==
    IF t.track /\ ~NodeTag(t, n, FreeMark, o) THEN 0
    ELSE IF t.track /\ old = NULL THEN 1
    ELSE Truth(e # NULL) - Truth(old # NULL)

ReplaceSlot(t, n, o, e, count, values) ==
    LET u == SetSlot(t, n, o, e)
    IN  IF n = NULL THEN u
        ELSE [u EXCEPT !.nodes[n].count = @ + count, !.nodes[n].nr = @ + values]

Replace(t, n, o, e) ==
    LET old == SlotOf(t, n, o)
        u == ReplaceSlot(t, n, o, e, CalculateCount(t, n, o, e, old),
                         Truth(IsValue(e)) - Truth(IsValue(old)))
    IN  IF n = NULL THEN u ELSE DeleteUp(u, n)

RECURSIVE TagPath(_, _, _, _)
TagPath(t, n, i, tag) ==
    IF ~IsNode(n) THEN [t EXCEPT !.marks = @ \cup {tag}]
    ELSE LET o == Descend(n, i)
         IN  TagPath([t EXCEPT !.nodes[n].marks[tag] = @ \cup {o}], t.nodes[n].slots[o], i, tag)
TagSet(t, i, tag) == TagPath(t, t.head, i, tag)

TagClear(t, i, tag) ==
    LET l == Lookup(t, i)
    IN  IF l.e = NULL THEN t ELSE NodeTagClear(t, l.node, tag, l.o)

RECURSIVE TagGetFrom(_, _, _, _)
TagGetFrom(t, n, i, tag) ==
    ~IsNode(n) \/ LET o == Descend(n, i)
                  IN  o \in t.nodes[n].marks[tag] /\ TagGetFrom(t, t.nodes[n].slots[o], i, tag)
TagGet(t, i, tag) ==
    tag \in t.marks /\ i <= MaxIndex(t.head) /\ TagGetFrom(t, t.head, i, tag)

DeleteSlot(t, n, o) ==
    LET u == IF t.track THEN NodeTagSet(t, n, FreeMark, o)
             ELSE NodeTagClear(NodeTagClear(NodeTagClear(t, n, 0, o), n, 1, o), n, 2, o)
        v == ReplaceSlot(u, n, o, NULL, -1, -Truth(IsValue(SlotOf(t, n, o))))
    IN  IF n = NULL THEN v ELSE DeleteUp(v, n)

DeleteItem(t, i, item) ==
    LET l == Lookup(t, i)
    IN  IF \/ ~l.slot
           \/ l.e = NULL /\ (~t.track \/ NodeTag(t, l.node, FreeMark, l.o))
           \/ item # NULL /\ l.e # item
        THEN [t |-> t, e |-> NULL]
        ELSE [t |-> DeleteSlot(t, l.node, l.o), e |-> l.e]

-----------------------------------------------------------------------------
(* radix_tree_next_chunk and radix_tree_next_slot: an iterator is          *)
(* [index, next, node, tags]; tag is a tag or Present (every slot).  A     *)
(* turn of the descent ends at a slot, at a place to start again from, or  *)
(* nowhere.                                                                *)
Stop == [k |-> "none", node |-> NULL, o |-> 0, i |-> 0]
NodeMax(n) == ChunkSize * 2^NodeShift(n) - 1
NextIndex(i, n, o) == Ulong((i \div (NodeMax(n) + 1)) * (NodeMax(n) + 1) + o * 2^NodeShift(n))

RECURSIVE ChunkDown(_, _, _, _)
ChunkDown(t, n, i, tag) ==
    LET o0 == Descend(n, i)
        hole == IF tag \in Marks THEN o0 \notin t.nodes[n].marks[tag]
                ELSE t.nodes[n].slots[o0] = NULL
        used == {o \in Offsets : o > o0 /\ t.nodes[n].slots[o] # NULL}
    IN
    Bind(IF ~hole THEN o0
         ELSE IF tag \in Marks THEN NextBit(t, n, tag, o0 + 1)
         ELSE IF used = {} THEN ChunkSize ELSE Min(used), LAMBDA o :
    LET j == IF hole THEN NextIndex(i, n, o) ELSE i
        child == t.nodes[n].slots[o]
    IN  IF hole /\ j = 0 THEN Stop
        ELSE IF o = ChunkSize \/ child = NULL
        THEN [k |-> "restart", node |-> NULL, o |-> 0, i |-> j]
        ELSE IF NodeShift(n) # 0 /\ IsNode(child) THEN ChunkDown(t, child, j, tag)
        ELSE [k |-> "slot", node |-> n, o |-> o, i |-> j])

RECURSIVE ChunkFrom(_, _, _)
ChunkFrom(t, i, tag) ==
    IF i > MaxIndex(t.head) \/ t.head = NULL THEN Stop
    ELSE IF ~IsNode(t.head) THEN [k |-> "slot", node |-> NULL, o |-> 0, i |-> i]
    ELSE LET d == ChunkDown(t, t.head, i, tag)
         IN  IF d.k = "restart" THEN ChunkFrom(t, d.i, tag) ELSE d

Iter(start) == [index |-> 0, next |-> start, node |-> NULL, o |-> 0, slot |-> FALSE]
NextChunk(t, it, tag) ==
    Bind(ChunkFrom(t, it.next, tag), LAMBDA d :
    LET base == (d.i \div (NodeMax(d.node) + 1)) * (NodeMax(d.node) + 1)
    IN  IF \/ tag \in Marks /\ tag \notin t.marks
           \/ it.next = 0 /\ it.index # 0
           \/ d = Stop
        THEN [it EXCEPT !.slot = FALSE]
        ELSE IF d.node = NULL
        THEN [index |-> d.i, next |-> 1, node |-> NULL, o |-> 0, slot |-> TRUE]
        ELSE [index |-> base + d.o, next |-> Ulong(base + NodeMax(d.node) + 1),
              node |-> d.node, o |-> d.o, slot |-> TRUE])

NextSlot(t, it, tag) ==
    LET set == IF it.node = NULL THEN {}
               ELSE IF tag \in Marks THEN {o \in t.nodes[it.node].marks[tag] : o > it.o}
               ELSE {o \in Offsets : o > it.o /\ t.nodes[it.node].slots[o] # NULL}
    IN  IF set = {} THEN [it EXCEPT !.slot = FALSE, !.index = IF tag \in Marks THEN @
                                      ELSE IF it.node = NULL THEN @ ELSE @ + (ChunkMask - it.o)]
        ELSE [it EXCEPT !.index = @ + (Min(set) - it.o), !.o = Min(set)]

(* radix_tree_for_each_slot, radix_tree_for_each_tagged: what the gang     *)
(* lookups and idr_for_each collect.                                       *)
RECURSIVE ForEach(_, _, _, _)
ForEach(t, it, tag, max) ==
    Bind(IF it.slot THEN it ELSE NextChunk(t, it, tag), LAMBDA j :
    LET e == SlotOf(t, j.node, j.o)
        rest(n) == ForEach(t, NextSlot(t, j, tag), tag, n)
    IN  IF max = 0 \/ ~j.slot THEN <<>>
        ELSE IF e = NULL THEN rest(max) ELSE <<<<j.index, e>>>> \o rest(max - 1))
GangLookup(t, first, tag, max) == ForEach(t, Iter(first), tag, max)

-----------------------------------------------------------------------------
(* idr_get_free: the first free id from start on, its slot ready.  Grow is *)
(* the label grow, Walk the loop below it.                                 *)
RECURSIVE ClimbFree(_, _, _)
ClimbFree(t, n, o) ==
    IF n = NULL \/ o < ChunkSize THEN [node |-> n, o |-> o]
    ELSE ClimbFree(t, Parent(t, n), t.nodes[n].offset + 1)

RECURSIVE GrowFree(_, _, _, _)
RECURSIVE WalkFree(_, _, _, _, _, _, _)
WalkFree(t, mem, shift, n, o, i, max) ==
    LET child == SlotOf(t, n, o)
    IN  Bind(IF child = NULL THEN AddChild(t, n, o, shift - ChunkShift, i, TRUE) ELSE t, LAMBDA u :
    LET m == IF child = NULL THEN mem - 1 ELSE mem
        c == SlotOf(u, n, o)
        p == Descend(c, i)
        q == NextBit(u, c, FreeMark, p + 1)
        j == NextIndex(i, c, q)
        up == ClimbFree(u, c, q)
    IN  IF shift = 0 \/ ~(child = NULL \/ IsNode(child)) THEN Out(t, mem, "ok", n, o, i)
        ELSE IF child = NULL /\ mem = 0 THEN Out(t, mem, "ENOMEM", n, o, i)
        ELSE IF p \in u.nodes[c].marks[FreeMark]
        THEN WalkFree(u, m, shift - ChunkShift, c, p, i, max)
        ELSE IF j > max THEN Out(u, m, "ENOSPC", c, q, j)
        ELSE IF up.node = NULL THEN GrowFree(u, m, j, max)
        ELSE WalkFree(u, m, IF up.node = c THEN shift - ChunkShift ELSE NodeShift(up.node),
                      up.node, up.o, j, max))
GrowFree(t, mem, start, max) ==
    LET i == IF FreeMark \in t.marks THEN start ELSE Max({start, MaxIndex(t.head) + 1})
        x == IF i > MaxIndex(t.head) THEN Extend(t, mem, i, LoadRoot(t))
             ELSE Out(t, mem, "ok", NULL, 0, LoadRoot(t))
        shift == IF i = 0 /\ x.i = 0 THEN ChunkShift ELSE x.i
    IN  IF i > max THEN Out(t, mem, "ENOSPC", NULL, 0, i)
        ELSE IF x.err # "ok" THEN x
        ELSE WalkFree(x.t, x.mem, shift, NULL, 0, i, max)

(* idr_alloc_u32: the tree after it, i the id it gave.                     *)
IdrAllocU32(t, mem, ptr, id, max) ==
    Bind(GrowFree(t, mem, IF id < Base THEN 0 ELSE id - Base, Ulong(max - Base)), LAMBDA f :
    LET u == Replace(f.t, f.node, f.o, ptr)
    IN  IF f.err # "ok" THEN [f EXCEPT !.i = id]
        ELSE [f EXCEPT !.t = NodeTagClear(u, f.node, FreeMark, f.i % ChunkSize), !.i = f.i + Base])

Last(end) == IF end > 0 THEN end - 1 ELSE IntMax
IdrAlloc(t, mem, ptr, start, end) == IdrAllocU32(t, mem, ptr, start, Last(end))

IdrAllocCyclic(t, mem, next, ptr, start, end) ==
    Bind(IdrAllocU32(t, mem, ptr, IF next < start THEN start ELSE next, Last(end)), LAMBDA a :
        IF a.err = "ENOSPC" /\ a.i > start
        THEN IdrAllocU32(a.t, a.mem, ptr, start, Last(end)) ELSE a)

IdrRemove(t, id) == DeleteItem(t, Ulong(id - Base), NULL)
IdrFind(t, id)   == Lookup(t, Ulong(id - Base)).e
IdrReplace(t, ptr, id) ==
    LET l == Lookup(t, Ulong(id - Base))
    IN  IF ~l.slot \/ TagGet(t, Ulong(id - Base), FreeMark)
        THEN [t |-> t, err |-> "ENOENT", e |-> NULL]
        ELSE [t |-> Replace(t, l.node, l.o, ptr), err |-> "ok", e |-> l.e]
IdrGetNext(t, id) ==
    LET it == NextChunk(t, Iter(IF id < Base THEN 0 ELSE id - Base), Present)
    IN  IF ~it.slot THEN <<>> ELSE <<it.index + Base, SlotOf(t, it.node, it.o)>>
IdrForEach(t) == ForEach(t, Iter(0), Present, UlongMax)
IdrDestroy(t) ==
    [t EXCEPT !.nodes = IF IsNode(t.head) THEN XasFreeNodes(Tree(t), t.head).xa.nodes ELSE @,
              !.head = NULL, !.marks = @ \cup {FreeMark}]

-----------------------------------------------------------------------------
(* The users.                                                              *)
Items == {<<"ptr", 1>>, <<"val", 1>>}
Has(i) == i \in DOMAIN rt.map
Without(map, i) == [j \in DOMAIN map \ {i} |-> map[j]]
Full(i) == Cardinality(DOMAIN rt.map \cup {i}) > MaxStored
Became(t, map, ok) == rt' = [rt EXCEPT !.t = t, !.map = map, !.ok = ok]

RadixInsert(i, e, mem) ==
    /\ ~rt.t.track /\ ~Full(i)
    /\ \E r \in {Insert(rt.t, mem, i, e)} :
         Became(r.t, IF r.err = "ok" THEN (i :> [e |-> e, tags |-> {}]) @@ rt.map ELSE rt.map,
              r.err = "EEXIST" <=> Has(i) /\ r.err # "ENOMEM")
RadixDelete(i, item) ==
    /\ ~rt.t.track
    /\ \E r \in {DeleteItem(rt.t, i, item)} :
         LET hit == Has(i) /\ (item = NULL \/ rt.map[i].e = item)
         IN  Became(r.t, IF hit THEN Without(rt.map, i) ELSE rt.map,
                    r.e = IF hit THEN rt.map[i].e ELSE NULL)
RadixReplace(i, e) ==
    /\ ~rt.t.track /\ Has(i)
    /\ \E l \in {Lookup(rt.t, i)} :
         Became(Replace(rt.t, l.node, l.o, e), [rt.map EXCEPT ![i].e = e], l.e = rt.map[i].e)
RadixTag(i, tag) ==
    /\ ~rt.t.track /\ Has(i)
    /\ \/ Became(TagSet(rt.t, i, tag), [rt.map EXCEPT ![i].tags = @ \cup {tag}], TRUE)
       \/ Became(TagClear(rt.t, i, tag), [rt.map EXCEPT ![i].tags = @ \ {tag}], TRUE)

(* What an allocation in [start, max] owes: the lowest free id, or an      *)
(* error for lack of ids or of memory.                                     *)
Gives(r, start, max) ==
    LET free == {j \in Max({start, Base}) .. max : ~Has(j)}
    IN  CASE r.err = "ok" -> free # {} /\ r.i = Min(free)
          [] r.err = "ENOSPC" -> free = {}
          [] OTHER -> TRUE
Given(r, e) == IF r.err = "ok" THEN (r.i :> [e |-> e, tags |-> {}]) @@ rt.map ELSE rt.map
DoIdrAlloc(start, end, e, mem) ==
    /\ rt.t.track /\ Cardinality(DOMAIN rt.map) < MaxStored
    /\ \E r \in {IdrAlloc(rt.t, mem, e, start, end)} :
         Became(r.t, Given(r, e), Gives(r, start, Last(end)))
DoIdrAllocCyclic(start, end, e, mem) ==
    /\ rt.t.track /\ Cardinality(DOMAIN rt.map) < MaxStored
    /\ \E r \in {IdrAllocCyclic(rt.t, mem, rt.next, e, start, end)} :
         LET from == IF rt.next < start THEN start ELSE rt.next
             none == \A j \in Max({from, Base}) .. Last(end) : Has(j)
         IN  rt' = [rt EXCEPT !.t = r.t, !.map = Given(r, e),
                              !.next = IF r.err = "ok" THEN r.i + 1 ELSE @,
                              !.ok = Gives(r, IF none THEN start ELSE from, Last(end))]
DoIdrRemove(i) ==
    /\ rt.t.track /\ i >= Base
    /\ \E r \in {IdrRemove(rt.t, i)} :
         Became(r.t, Without(rt.map, i), r.e = IF Has(i) THEN rt.map[i].e ELSE NULL)
DoIdrReplace(i, e) ==
    /\ rt.t.track /\ i >= Base
    /\ \E r \in {IdrReplace(rt.t, e, i)} :
         Became(r.t, IF r.err = "ok" THEN [rt.map EXCEPT ![i].e = e] ELSE rt.map,
              (r.err = "ok") = Has(i) /\ (r.err = "ok" => r.e = rt.map[i].e))
DoIdrDestroy == rt.t.track /\ Became(IdrDestroy(rt.t), <<>>, TRUE)

Init == \E idr \in BOOLEAN :
    rt = [t |-> EmptyArray(idr), next |-> 0, map |-> <<>>, ok |-> TRUE]
Next ==
    \/ \E i \in Keys : \/ \E e \in Items, mem \in {1, 9} : RadixInsert(i, e, mem)
                       \/ \E e \in Items \cup {NULL} : RadixDelete(i, e)
                       \/ \E e \in Items : RadixReplace(i, e)
                       \/ RadixTag(i, 1)
                       \/ DoIdrRemove(i)
                       \/ \E e \in Items \cup {NULL} : DoIdrReplace(i, e)
    \/ \E start \in Keys, end \in {0, Max(Keys)}, e \in {<<"ptr", 1>>, NULL}, mem \in {1, 9} :
          DoIdrAlloc(start, end, e, mem) \/ DoIdrAllocCyclic(start, end, e, mem)
    \/ DoIdrDestroy

-----------------------------------------------------------------------------
(* radix-tree.c and idr.c: the tree is the map the completed calls make.   *)
(* Every lookup, tag, iteration and id given agrees with it, an IDR's free *)
(* tags are exactly its free ids, and the tree's nodes are linked and      *)
(* counted.                                                                *)
InOrder(S) == LET seq[j \in 0 .. UlongMax + 1] ==
                    IF j > UlongMax THEN <<>>
                    ELSE IF j \in S THEN <<j>> \o seq[j + 1] ELSE seq[j + 1]
              IN  seq[0]
Shown(S) == LET by == IF rt.t.track THEN Base ELSE 0
            IN  [k \in DOMAIN InOrder(S) |-> <<InOrder(S)[k], rt.map[InOrder(S)[k] + by].e>>]
Linked ==
    \A n \in DOMAIN rt.t.nodes :
      LET node == rt.t.nodes[n]
      IN  /\ IF node.parent = NULL THEN rt.t.head = n
             ELSE rt.t.nodes[node.parent].slots[node.offset] = n
          /\ node.count = Cardinality({o \in Offsets :
                IF rt.t.track /\ NodeShift(n) = 0 THEN o \notin node.marks[FreeMark]
                ELSE node.slots[o] # NULL})
          /\ node.nr = Cardinality({o \in Offsets : IsValue(node.slots[o])})
          /\ \A o \in Offsets : IsNode(node.slots[o]) =>
                \A m \in Marks : (o \in node.marks[m]) = (rt.t.nodes[node.slots[o]].marks[m] # {})
RadixExact ==
    /\ rt.ok /\ Linked
    /\ ~rt.t.track =>
         /\ \A i \in 0 .. UlongMax :
              /\ Lookup(rt.t, i).e = IF Has(i) THEN rt.map[i].e ELSE NULL
              /\ TagGet(rt.t, i, 1) = (Has(i) /\ 1 \in rt.map[i].tags)
         /\ \A first \in Keys :
              /\ GangLookup(rt.t, first, Present, UlongMax) =
                    Shown({i \in DOMAIN rt.map : i >= first})
              /\ GangLookup(rt.t, first, 1, 1) =
                    LET s == Shown({i \in DOMAIN rt.map : i >= first /\ 1 \in rt.map[i].tags})
                    IN  SubSeq(s, 1, Min({1, Len(s)}))
    /\ rt.t.track =>
         LET stored == {i \in DOMAIN rt.map : rt.map[i].e # NULL}
         IN  /\ \A i \in Base .. UlongMax :
                  /\ IdrFind(rt.t, i) = IF Has(i) THEN rt.map[i].e ELSE NULL
                  /\ i - Base <= MaxIndex(rt.t.head) /\ rt.t.head # NULL =>
                        TagGet(rt.t, i - Base, FreeMark) = ~Has(i)
             /\ IdrForEach(rt.t) = Shown({i - Base : i \in stored})
             /\ \A i \in Keys : LET later == {j \in stored : j >= i}
                                IN  IdrGetNext(rt.t, i) = IF later = {} THEN <<>>
                                       ELSE <<Min(later), rt.map[Min(later)].e>>

-----------------------------------------------------------------------------
(* The ID allocator of kernel/lib/idr.c: an XArray that tracks free        *)
(* entries and holds bitmaps, IdaBits ids each.  A bitmap whose bits all   *)
(* lie below ValBits is kept in the entry itself, <<"val", bits>>; one on  *)
(* the heap is <<"ptr", bits>> (its contents are shown in its slot).       *)
(*                                                                         *)
(* ida_alloc_range drops the lock and starts over when it needs memory: a  *)
(* bitmap, or a node (xas_nomem).  Meanwhile others allocate and free.     *)
(*                                                                         *)
(*   a    the array                                                        *)
(*   ids  the ids that are allocated                                       *)
(*   op   the allocation that is off to get memory, or Idle                *)
(*   ok   whether the last call did what it owes                           *)
CONSTANTS IdaBits,   \* IDA_BITMAP_BITS
          ValBits,   \* BITS_PER_XA_VALUE
          Word,      \* BITS_PER_LONG: the bits of bitmap->bitmap[0]
          Spans,     \* the ranges <<min, max>> asked for
          Waits,     \* what an allocation may be off to get: "bitmap", "node"
          MaxIds     \* bound on the ids allocated

VARIABLE ida

Idle == [min |-> 0, max |-> 0, alloc |-> <<>>, node |-> FALSE]

(* find_next_zero_bit                                                      *)
NextZero(bits, size, from) ==
    LET zero == (from .. size - 1) \ bits IN IF zero = {} THEN size ELSE Min(zero)
Bit(i) == i % IdaBits
Chunk(i) == i \div IdaBits
PutBits(x, e) == PutSlot(x, x.node, x.offset, e)

(* One pass under the lock for the allocation o: x the xa_state after it,  *)
(* out the label it leaves by, id what it would return, alloc the bitmap   *)
(* it still holds.  o.alloc is <<>> or the bitmap `alloc`, whose bits may  *)
(* be left from an earlier pass; zalloc says whether kzalloc gives one     *)
(* under the lock.                                                         *)
Leave(x, out, id, alloc) == [x |-> x, out |-> out, id |-> id, alloc |-> alloc]
Fresh(o) == IF o.alloc = <<>> THEN {} ELSE o.alloc[1]
Kept(o, bits) == IF o.alloc = <<>> THEN <<>> ELSE <<bits>>

TakeBit(x, bits, bit) ==
    LET y == PutBits(x, <<"ptr", bits \cup {bit}>>)
        z == IF bits \cup {bit} = 0 .. IdaBits - 1 THEN XasClearMark(y, FreeMark) ELSE y
    IN  Leave(z, "out", x.index * IdaBits + bit, <<>>)

RECURSIVE Pass(_, _, _, _)
FromBitmap(x, bits, bit, o, zalloc) ==
    LET b == NextZero(bits, IdaBits, bit)
    IN  IF x.index * IdaBits + b > o.max THEN Leave(x, "nospc", 0, <<>>)
        ELSE IF b = IdaBits THEN Pass(x, b, o, zalloc)
        ELSE TakeBit(x, bits, b)

FromEmpty(x, bit, o, zalloc) ==
    LET bits == Fresh(o) \cup {bit}
        y == XasStore(x, IF bit < ValBits THEN <<"val", {bit}>> ELSE <<"ptr", bits>>)
    IN  IF bit >= ValBits /\ o.alloc = <<>> /\ ~zalloc THEN Leave(x, "alloc", 0, <<>>)
        ELSE Leave(y, "out", y.index * IdaBits + bit,
                   IF bit < ValBits THEN o.alloc ELSE Kept(o, bits))

FromValue(x, bits, bit, o, zalloc) ==
    LET b == IF bit < ValBits THEN NextZero(bits, ValBits, bit) ELSE bit
        y == XasStore(x, <<"val", bits \cup {b}>>)
        rest == {c \in Fresh(o) : c >= Word}
        z == XasStore(x, <<"ptr", bits \cup rest>>)
    IN  IF bit < ValBits /\ x.index * IdaBits + b > o.max THEN Leave(x, "nospc", 0, <<>>)
        ELSE IF b < ValBits THEN Leave(y, "out", y.index * IdaBits + b, o.alloc)
        ELSE IF o.alloc = <<>> /\ ~zalloc THEN Leave(x, "alloc", 0, <<>>)
        ELSE IF XasError(z) THEN Leave(z, "out", 0, Kept(o, rest))
        ELSE FromBitmap(z, bits \cup rest, b, [o EXCEPT !.alloc = <<>>], zalloc)

Pass(x, bit, o, zalloc) ==
    Bind(XasFindMarked(x, Chunk(o.max), FreeMark), LAMBDA f :
    LET b == IF f.index > Chunk(o.min) THEN 0 ELSE bit
    IN  IF f.index * IdaBits + b > o.max THEN Leave(f, "nospc", 0, <<>>)
        ELSE IF IsValue(f.r) THEN FromValue(f, f.r[2], b, o, zalloc)
        ELSE IF f.r # NULL THEN FromBitmap(f, f.r[2], b, o, zalloc)
        ELSE FromEmpty(f, b, o, zalloc))

(* What an allocation owes: the lowest free id of its range, or -ENOSPC.   *)
Free(o) == {i \in o.min .. o.max : i \notin ida.ids}
Owed(o, id) == Free(o) # {} /\ id = Min(Free(o))

Try(o, waits) ==
    \E mem \in {0, 3}, zalloc \in BOOLEAN :
    \E p \in {Pass([XaState(ida.a, Chunk(o.min), mem) EXCEPT !.alloc = o.node],
                   Bit(o.min), o, zalloc)} :
      \/ /\ p.out = "nospc"
         /\ ida' = [ida EXCEPT !.a = p.x.xa, !.op = waits, !.ok = Free(o) = {}]
      \/ /\ p.out = "out" /\ ~XasError(p.x)
         /\ ida' = [ida EXCEPT !.a = p.x.xa, !.op = waits, !.ids = @ \cup {p.id},
                               !.ok = Owed(o, p.id)]
      \/ /\ p.out = "alloc" \/ XasError(p.x)
         /\ \E w \in {waits} \cup
                   IF waits # Idle THEN {}
                   ELSE IF p.out = "alloc" THEN {[o EXCEPT !.alloc = <<{}>>] : k \in Waits \cap {"bitmap"}}
                   ELSE {[o EXCEPT !.alloc = p.alloc, !.node = TRUE] : k \in Waits \cap {"node"}} :
              ida' = [ida EXCEPT !.a = p.x.xa, !.op = w, !.ok = TRUE]

AllocRange == \E s \in Spans :
    /\ Cardinality(ida.ids) < MaxIds
    /\ Try([Idle EXCEPT !.min = s[1], !.max = s[2]], ida.op)
Resume == ida.op # Idle /\ Try(ida.op, Idle)

(* ida_free: an id that is not allocated is reported and left alone.       *)
IdaFree(id) ==
    LET x == XasLoad(XaState(ida.a, Chunk(id), 0))
        bits == x.r[2] \ {Bit(id)}
        y == IF IsValue(x.r) THEN x ELSE XasSetMark(PutBits(x, <<"ptr", bits>>), FreeMark)
    IN  IF ~(Bit(id) \in x.r[2]) THEN ida.a
        ELSE IF bits = {} THEN XasStore(y, NULL).xa
        ELSE IF IsValue(x.r) THEN XasStore(x, <<"val", bits>>).xa ELSE y.xa
FreeId == \E id \in 0 .. Max({s[2] : s \in Spans}) :
    /\ XasLoad(XaState(ida.a, Chunk(id), 0)).r # NULL
    /\ ida' = [ida EXCEPT !.a = IdaFree(id), !.ids = @ \ {id}, !.ok = TRUE]

RECURSIVE DestroyOn(_)
DestroyOn(x) == IF x.r = NULL THEN x.xa
                ELSE DestroyOn(XasNextEntry(XasStore(x, NULL), UlongMax))
IdaDestroy ==
    /\ ida.ids # {} /\ ida.op = Idle
    /\ ida' = [ida EXCEPT !.a = DestroyOn(XasFind(XaState(ida.a, 0, 0), UlongMax)),
                          !.ids = {}, !.ok = TRUE]

IdaInit == ida = [a |-> EmptyArray(TRUE), ids |-> {}, op |-> Idle, ok |-> TRUE]
IdaNext == AllocRange \/ Resume \/ FreeId \/ IdaDestroy

-----------------------------------------------------------------------------
(* idr.c: an allocation gives the lowest free id of its range, never one   *)
(* that is in use, even when it had to start over, and fails only when     *)
(* there is none; the bitmaps hold exactly the ids in use, none is empty,  *)
(* and an entry has the free mark exactly while an id in it is free.       *)
IdaExact ==
    /\ ida.ok
    /\ \A c \in 0 .. UlongMax :
         LET e == XaLoad(ida.a, c)
             bits == IF e = NULL THEN {} ELSE e[2]
         IN  /\ {i \in ida.ids : Chunk(i) = c} = {c * IdaBits + b : b \in bits}
             /\ e # NULL => bits # {} /\ (IsValue(e) => \A b \in bits : b < ValBits)
             /\ e # NULL => (XaGetMark(ida.a, c, FreeMark) <=> bits # 0 .. IdaBits - 1)
=============================================================================
