----------------------------- MODULE XArrayOps -----------------------------
(***************************************************************************)
(* The XArray's operations on one array: kernel/lib/xarray.c with          *)
(* kernel/include/rtochius/xarray.h.  They are pure: an operation takes an *)
(* xa_state and returns it changed, the array it works on included.        *)
(*                                                                         *)
(* An entry is a tuple: <<"null">>, <<"zero">>, <<"retry">>, <<"val", v>>, *)
(* <<"ptr", v>>, <<"sib", offset>>, or <<"node", shift, prefix>>.  A node  *)
(* is named by its place, its shift and the index bits above it: a node    *)
(* never moves, so the name is as good as its address.                     *)
(*                                                                         *)
(* An array is [head, marks, track, nodes]: the marks of xa_flags, whether *)
(* XA_FLAGS_TRACK_FREE is set, and the nodes in use.  An xa_state is       *)
(* [xa, index, node, offset, shift, sibs, alloc, mem, r, k]: alloc says    *)
(* whether xa_alloc holds a node, mem is how many nodes the slab gives     *)
(* while the lock is held, r the entry and k the number returned.          *)
(***************************************************************************)
EXTENDS Integers, FiniteSets, Sequences, Bitwise, TLC

(* Bind(v, LAMBDA x : e) is LET x == v IN e, with v evaluated once.        *)
Bind(v, Op(_)) == Op(v)

CONSTANTS ChunkShift,  \* XA_CHUNK_SHIFT, 6 in the code
          Bits         \* BITS_PER_LONG

ChunkSize == 2^ChunkShift
ChunkMask == ChunkSize - 1
Offsets   == 0 .. ChunkMask
UlongMax  == 2^Bits - 1
Marks     == 0 .. 2
FreeMark  == 0
Present   == 8

NULL    == <<"null">>
Zero    == <<"zero">>
Bounds  == <<"bounds">>
Restart == <<"restart">>
Err(e)  == <<"err", e>>
Sib(o)  == <<"sib", o>>

IsNode(e)    == e[1] = "node"
IsValue(e)   == e[1] = "val"
IsSibling(e) == e[1] = "sib"
IsInternal(e) == e[1] \in {"node", "sib", "zero", "retry"}
Truth(b) == IF b THEN 1 ELSE 0

Ulong(i) == i % 2^Bits
Shr(i, n) == i \div 2^n
Shl(i, n) == Ulong(i * 2^n)

EmptyArray(track) == [head |-> NULL, marks |-> IF track THEN {FreeMark} ELSE {},
                      track |-> track, nodes |-> <<>>]

(* XA_STATE                                                                *)
XaState(a, i, mem) ==
    [xa |-> a, index |-> i, node |-> Restart, offset |-> 0, shift |-> 0, sibs |-> 0,
     alloc |-> FALSE, mem |-> mem, r |-> NULL, k |-> 0]

Ret(x, e)    == [x EXCEPT !.r = e]
At(x, n)     == [x EXCEPT !.node = n]
SetErr(x, e) == At(x, Err(e))
SetBounds(x) == Ret(At(x, Bounds), NULL)

XasError(x)   == x.node[1] = "err"
XasInvalid(x) == x.node[1] \in {"err", "bounds", "restart"}
XasNotNode(x) == ~IsNode(x.node)
XasFrozen(x)  == x.node[1] \in {"err", "restart"}
XasTop(x)     == x.node[1] \in {"null", "bounds", "restart"}

Node(x, n)        == x.xa.nodes[n]
NodeShift(n)      == n[2]
Entry(x, n, o)    == x.xa.nodes[n].slots[o]
GetOffset(i, n)   == Shr(i, NodeShift(n)) % ChunkSize
SetOffset(x)      == [x EXCEPT !.offset = GetOffset(x.index, x.node)]
XasSet(x, i)      == [x EXCEPT !.index = i, !.node = Restart]
XaMarked(x, m)    == m \in x.xa.marks

(* The contents of a slot, and a store to it; the node <<"null">> stands   *)
(* for the array itself, whose slot is xa_head.                            *)
Slot(x, n, o) == IF n = NULL THEN x.xa.head ELSE Entry(x, n, o)
PutSlot(x, n, o, e) ==
    IF n = NULL THEN [x EXCEPT !.xa.head = e] ELSE [x EXCEPT !.xa.nodes[n].slots[o] = e]

XasMoveIndex(x, o) ==
    LET unit == 2^NodeShift(x.node)
    IN  [x EXCEPT !.index = Ulong((@ \div (unit * ChunkSize)) * unit * ChunkSize + o * unit)]
XasAdvance(x) == XasMoveIndex([x EXCEPT !.offset = @ + 1], x.offset + 1)

Enter(x, n, o) == [x EXCEPT !.node = n, !.offset = o, !.r = Entry(x, n, o)]
Followed(e, o) == IF IsSibling(e) THEN e[2] ELSE o
XasDescend(x, n) ==
    LET o == GetOffset(x.index, n) IN Enter(x, n, Followed(Entry(x, n, o), o))

XasReload(x) == Ret(x, Slot(x, x.node, x.offset))

XasStart(x) ==
    IF ~XasInvalid(x) THEN XasReload(x)
    ELSE IF XasError(x) THEN Ret(x, NULL)
    ELSE IF IF IsNode(x.xa.head) THEN Shr(x.index, NodeShift(x.xa.head)) > ChunkMask
                                 ELSE x.index # 0
         THEN SetBounds(x)
         ELSE Ret(At(x, NULL), x.xa.head)

RECURSIVE LoadFrom(_)
LoadFrom(x) ==
    IF ~IsNode(x.r) \/ x.shift > NodeShift(x.r) THEN x
    ELSE IF NodeShift(x.r) = 0 THEN XasDescend(x, x.r)
    ELSE LoadFrom(XasDescend(x, x.r))

XasLoad(x) == LoadFrom(XasStart(x))

-----------------------------------------------------------------------------
(* Marks: a node's mark bit is the union of those below it, and the        *)
(* array's of those of its head.                                           *)
NodeMarks(x, n, m) == x.xa.nodes[n].marks[m]

XasGetMark(x, m) ==
    /\ ~XasInvalid(x)
    /\ IF x.node = NULL THEN XaMarked(x, m) ELSE x.offset \in NodeMarks(x, x.node, m)

RECURSIVE SetMarkUp(_, _, _, _)
SetMarkUp(x, n, o, m) ==
    IF n = NULL THEN [x EXCEPT !.xa.marks = @ \cup {m}]
    ELSE IF o \in NodeMarks(x, n, m) THEN x
    ELSE SetMarkUp([x EXCEPT !.xa.nodes[n].marks[m] = @ \cup {o}],
                   Node(x, n).parent, Node(x, n).offset, m)

XasSetMark(x, m) == IF XasInvalid(x) THEN x ELSE SetMarkUp(x, x.node, x.offset, m)

RECURSIVE ClearMarkUp(_, _, _, _)
ClearMarkUp(x, n, o, m) ==
    IF n = NULL THEN [x EXCEPT !.xa.marks = @ \ {m}]
    ELSE IF o \notin NodeMarks(x, n, m) THEN x
    ELSE LET y == [x EXCEPT !.xa.nodes[n].marks[m] = @ \ {o}]
         IN  IF NodeMarks(y, n, m) # {} THEN y
             ELSE ClearMarkUp(y, Node(x, n).parent, Node(x, n).offset, m)

XasClearMark(x, m) == IF XasInvalid(x) THEN x ELSE ClearMarkUp(x, x.node, x.offset, m)

InitMark(x, m) ==
    IF x.xa.track /\ m = FreeMark THEN XasSetMark(x, m) ELSE XasClearMark(x, m)
XasInitMarks(x) == InitMark(InitMark(InitMark(x, 0), 1), 2)

XasSquashMarks(x) ==
    IF x.sibs = 0 THEN x
    ELSE LET sibs == x.offset + 1 .. x.offset + x.sibs
             merge(s) == IF s \cap sibs = {} THEN s ELSE (s \ sibs) \cup {x.offset}
         IN  [x EXCEPT !.xa.nodes[x.node].marks = [m \in Marks |-> merge(@[m])]]

-----------------------------------------------------------------------------
(* Allocation: the node kept by xas_nomem, or one from the slab.           *)
NewNode(x) == [offset |-> IF x.node = NULL THEN 0 ELSE x.offset, parent |-> x.node,
               count |-> 0, nr |-> 0, slots |-> [o \in Offsets |-> NULL],
               marks |-> [m \in Marks |-> {}]]

XasAlloc(x, shift, prefix) ==
    IF XasInvalid(x) THEN Ret(x, NULL)
    ELSE IF ~x.alloc /\ x.mem = 0 THEN Ret(SetErr(x, "ENOMEM"), NULL)
    ELSE LET id == <<"node", shift, prefix>>
             up == IF x.node = NULL THEN x.xa.nodes
                   ELSE [x.xa.nodes EXCEPT ![x.node].count = @ + 1]
         IN  [x EXCEPT !.alloc = FALSE, !.mem = IF x.alloc THEN @ ELSE @ - 1,
                       !.xa.nodes = (id :> NewNode(x)) @@ up, !.r = id]

FreeNode(x, n) ==
    [x EXCEPT !.xa.nodes = [p \in DOMAIN x.xa.nodes \ {n} |-> x.xa.nodes[p]]]

XasSize(x) == Shl(x.sibs + 1, x.shift)
MaxOf(max, mask) == IF mask = max THEN Ulong(max + 1) ELSE max
XasMax(x) ==
    LET mask == Ulong(XasSize(x) - 1)
    IN  IF x.shift = 0 /\ x.sibs = 0 THEN x.index ELSE MaxOf(x.index | mask, mask)
MaxIndex(e) == IF IsNode(e) THEN ChunkSize * 2^NodeShift(e) - 1 ELSE 0

(* xas_shrink: while the head has one entry, in slot 0, that can stand in  *)
(* its place.                                                              *)
RECURSIVE Shrink(_, _)
Shrink(x, n) ==
    LET e == Entry(x, n, 0)
    IN  IF Node(x, n).count # 1 \/ e = NULL \/ (~IsNode(e) /\ NodeShift(n) # 0) THEN x
        ELSE LET dropFree == x.xa.track /\ 0 \notin NodeMarks(x, n, FreeMark)
                 y == FreeNode([x EXCEPT !.node = Bounds, !.xa.head = e,
                                         !.xa.marks = IF dropFree THEN @ \ {FreeMark} ELSE @], n)
             IN  IF IsNode(e) THEN Shrink([y EXCEPT !.xa.nodes[e].parent = NULL], e) ELSE y

(* A plausible slip: the parent's count is not lowered for the freed node. *)
RECURSIVE DeleteNodeUncounted(_, _)
DeleteNodeUncounted(x, n) ==
    IF Node(x, n).count # 0 THEN IF Node(x, n).parent = NULL THEN Shrink(x, n) ELSE x
    ELSE LET p == Node(x, n).parent
             o == Node(x, n).offset
             y == FreeNode([x EXCEPT !.node = p, !.offset = o], n)
         IN  IF p = NULL THEN [y EXCEPT !.xa.head = NULL, !.node = Bounds]
             ELSE DeleteNodeUncounted(PutSlot(y, p, o, NULL), p)

(* xas_delete_node: free empty nodes upwards, then shrink.                 *)
RECURSIVE DeleteNode(_, _)
DeleteNode(x, n) ==
    IF Node(x, n).count # 0 THEN IF Node(x, n).parent = NULL THEN Shrink(x, n) ELSE x
    ELSE LET p == Node(x, n).parent
             o == Node(x, n).offset
             y == FreeNode([x EXCEPT !.node = p, !.offset = o], n)
         IN  IF p = NULL THEN [y EXCEPT !.xa.head = NULL, !.node = Bounds]
             ELSE DeleteNode([PutSlot(y, p, o, NULL) EXCEPT !.xa.nodes[p].count = @ - 1], p)

(* xas_free_nodes: the whole subtree.                                      *)
RECURSIVE Subtree(_, _)
Subtree(x, n) ==
    {n} \cup UNION {Subtree(x, Entry(x, n, o)) :
                    o \in {o \in Offsets : NodeShift(n) # 0 /\ IsNode(Entry(x, n, o))}}
XasFreeNodes(x, top) ==
    [x EXCEPT !.xa.nodes = [n \in DOMAIN x.xa.nodes \ Subtree(x, top) |-> x.xa.nodes[n]]]

(* xas_expand, one turn: a new head above the old, with its marks.         *)
ExpandMarks(x, n) ==
    LET free == x.xa.track
        root == x.xa.marks
        bits(m) == IF free /\ m = FreeMark
                   THEN IF FreeMark \in root THEN Offsets ELSE Offsets \ {0}
                   ELSE IF m \in root THEN {0} ELSE {}
    IN  [x EXCEPT !.xa.nodes[n].marks = [m \in Marks |-> bits(m)],
                  !.xa.marks = IF free THEN @ \cup {FreeMark} ELSE @]

Raise(x, n, head) ==
    LET y == [ExpandMarks(x, n) EXCEPT
                !.xa.nodes[n].count = 1, !.xa.nodes[n].nr = Truth(IsValue(head)),
                !.xa.nodes[n].slots[0] = head, !.xa.head = n]
    IN  IF IsNode(head)
        THEN [y EXCEPT !.xa.nodes[head].offset = 0, !.xa.nodes[head].parent = n]
        ELSE y

RECURSIVE ExpandTo(_, _, _, _)
ExpandTo(x, max, node, shift) ==
    IF max <= MaxIndex(x.xa.head) THEN [x EXCEPT !.node = node, !.k = shift]
    ELSE Bind(XasAlloc(x, shift, 0), LAMBDA y :
             IF y.r = NULL THEN [y EXCEPT !.k = -1]
             ELSE ExpandTo(Raise(y, y.r, x.xa.head), max, y.r, shift + ChunkShift))

RECURSIVE ShiftFor(_, _)
ShiftFor(max, s) == IF Shr(max, s) < ChunkSize THEN s ELSE ShiftFor(max, s + ChunkShift)

XasExpand(x) ==
    LET head == x.xa.head
    IN  Bind(XasMax(x), LAMBDA max :
        IF head = NULL
        THEN [x EXCEPT !.k = IF max = 0 THEN 0 ELSE ShiftFor(max, 0) + ChunkShift]
        ELSE IF IsNode(head) THEN ExpandTo(At(x, NULL), max, head, NodeShift(head) + ChunkShift)
        ELSE ExpandTo(At(x, NULL), max, NULL, 0))

(* xas_create: the walk down, making the nodes that are missing.           *)
RECURSIVE CreateDown(_, _, _, _, _)
CreateUnder(x, shift) == CreateDown(x, x.r, shift, x.node, x.offset)
AllFree(x, c) == IF x.xa.track THEN [x EXCEPT !.xa.nodes[c].marks[FreeMark] = Offsets] ELSE x
CreateNode(x, shift, n, o) ==
    IF x.r = NULL THEN x
    ELSE CreateUnder(XasDescend(PutSlot(AllFree(x, x.r), n, o, x.r), x.r), shift)
CreateDown(x, e, shift, n, o) ==
    IF shift <= x.shift \/ ~(e = NULL \/ IsNode(e)) THEN Ret(x, e)
    ELSE IF e = NULL
    THEN CreateNode(XasAlloc(x, shift - ChunkShift, Shr(x.index, shift)), shift - ChunkShift, n, o)
    ELSE CreateUnder(XasDescend(x, e), shift - ChunkShift)

CreateTop(x, allowRoot) ==
    IF x.k < 0 THEN Ret(x, NULL)
    ELSE CreateDown(x, x.xa.head, IF x.k = 0 /\ ~allowRoot THEN ChunkShift ELSE x.k, NULL, 0)
XasCreate(x, allowRoot) ==
    IF XasTop(x) THEN CreateTop(XasExpand(At(x, NULL)), allowRoot)
    ELSE IF XasError(x) THEN Ret(x, NULL)
    ELSE CreateDown(x, Entry(x, x.node, x.offset), NodeShift(x.node), x.node, x.offset)

-----------------------------------------------------------------------------
(* xas_store.  nr_values is an unsigned char.                              *)
UpdateNode(x, n, count, values) ==
    IF n = NULL \/ (count = 0 /\ values = 0) THEN x
    ELSE LET y == [x EXCEPT !.xa.nodes[n].count = @ + count, !.xa.nodes[n].nr = (@ + values) % 256]
         IN  IF count < 0 THEN DeleteNode(y, n) ELSE y

(* The loop over the slots from `offset`: an entry goes into the first and *)
(* sibling entries into the rest up to max; a NULL goes on over the        *)
(* siblings of what it erases.                                             *)
FreeOld(x, e) == IF IsNode(e) THEN XasFreeNodes(x, e) ELSE x
RECURSIVE StoreLoop(_, _, _, _, _, _, _, _, _)
StoreLoop(x, n, o, max, e, value, first, next, cv) ==
    LET z == FreeOld(PutSlot(x, n, o, e), next)
        c == [count  |-> cv.count + Truth(next = NULL) - Truth(e = NULL),
              values |-> cv.values + Truth(~IsValue(first)) - Truth(~value)]
        e2 == IF e = NULL \/ IsSibling(e) THEN e ELSE Sib(x.offset)
        following == Entry(z, n, o + 1)
        stop == IF e # NULL THEN o = max ELSE o = ChunkMask
    IN  IF n = NULL THEN Ret(z, first)
        ELSE IF stop \/ (~IsSibling(following) /\ e = NULL /\ o + 1 > max)
        THEN Ret(UpdateNode(z, n, c.count, c.values), first)
        ELSE StoreLoop(z, n, o + 1, max, e2, value,
                       IF IsSibling(following) THEN first ELSE following, following, c)

SingleAbove(x) == IF x.node # NULL /\ ~XasInvalid(x) /\ x.shift < NodeShift(x.node)
                  THEN [x EXCEPT !.sibs = 0] ELSE x
Squashed(x) == IF x.node # NULL THEN XasSquashMarks(x) ELSE x
StoreFrom(x, e) == StoreLoop(x, x.node, x.offset, x.offset + x.sibs, e, IsValue(e), x.r, x.r,
                             [count |-> 0, values |-> 0])
StoreOver(x, e) ==
    IF XasInvalid(x) \/ (x.r = e /\ x.sibs = 0) THEN x
    ELSE StoreFrom(IF e = NULL THEN XasInitMarks(Squashed(x)) ELSE Squashed(x), e)
XasStore(x, e) == StoreOver(SingleAbove(IF e # NULL THEN XasCreate(x, ~IsNode(e)) ELSE XasLoad(x)), e)

-----------------------------------------------------------------------------
(* The XArray's searches and walks, kernel/lib/xarray.c: xas_find,         *)
(* xas_find_marked, xas_find_conflict, xas_next, xas_prev, xas_pause, and  *)
(* the functions of the normal API that read.  They change only the        *)
(* xa_state.                                                               *)
Up(x, o) == [x EXCEPT !.offset = o, !.node = Node(x, x.node).parent]
Down(x, e, o) == [x EXCEPT !.node = e, !.offset = o]

-----------------------------------------------------------------------------
(* xas_find: the loop after the first advance.                             *)
RECURSIVE FindOn(_, _)
FindOn(x, max) ==
    IF x.node = NULL THEN SetBounds(x)
    ELSE IF x.index > max THEN Ret(x, NULL)
    ELSE IF x.offset = ChunkSize THEN FindOn(Up(x, Node(x, x.node).offset + 1), max)
    ELSE LET e == Entry(x, x.node, x.offset)
         IN  IF IsNode(e) THEN FindOn(Down(x, e, 0), max)
             ELSE IF e # NULL /\ ~IsSibling(e) THEN Ret(x, e)
             ELSE FindOn(XasAdvance(x), max)

XasFind(x, max) ==
    IF XasError(x) THEN Ret(x, NULL)
    ELSE IF x.node = NULL THEN SetBounds([x EXCEPT !.index = 1])
    ELSE IF XasTop(x)
    THEN LET l == XasLoad(x)
         IN  IF l.r # NULL \/ XasNotNode(l) THEN l ELSE FindOn(XasAdvance(l), max)
    ELSE IF NodeShift(x.node) = 0 /\ x.offset # x.index % ChunkSize
    THEN FindOn(XasAdvance([x EXCEPT !.offset = ((x.index - 1) % ChunkSize) + 1]), max)
    ELSE FindOn(XasAdvance(x), max)

(* xas_find_chunk: the next marked offset, or ChunkSize.                   *)
FindChunk(x, advance, m) ==
    LET from == IF advance THEN x.offset + 1 ELSE x.offset
        set  == {o \in NodeMarks(x, x.node, m) : o >= from}
    IN  IF set = {} THEN ChunkSize ELSE CHOOSE o \in set : \A p \in set : o <= p

(* xas_find_marked: its labels out and max, and its loop.                  *)
MarkedMax(x) == Ret(At(x, Restart), NULL)
MarkedOut(x, max) == IF x.index > max THEN MarkedMax(x) ELSE SetBounds(x)

RECURSIVE MarkedOn(_, _, _, _)
MarkedUp(x, max, m) == IF x.node = NULL THEN MarkedOut(x, max) ELSE MarkedOn(x, max, m, FALSE)
MarkedEntry(x, e, max, m, advance) ==
    IF ~IsNode(e) THEN Ret(x, e) ELSE MarkedOn(SetOffset(At(x, e)), max, m, advance)
MarkedAhead(x, o, max, m) ==
    IF Ulong(x.index - 1) >= max THEN MarkedMax(x)
    ELSE IF o = ChunkSize THEN MarkedOn([x EXCEPT !.offset = o], max, m, FALSE)
    ELSE MarkedEntry([x EXCEPT !.offset = o], Entry(x, x.node, o), max, m, FALSE)
MarkedChunk(x, o, max, m, advance) ==
    IF o > x.offset THEN MarkedAhead(XasMoveIndex(x, o), o, max, m)
    ELSE MarkedEntry(x, Entry(x, x.node, x.offset), max, m, advance)
ToHead(x, e) == IF IsSibling(e) THEN XasMoveIndex([x EXCEPT !.offset = e[2]], e[2]) ELSE x
MarkedAt(x, max, m, advance) == MarkedChunk(x, FindChunk(x, advance, m), max, m, advance)
MarkedOn(x, max, m, advance) ==
    IF x.index > max THEN MarkedOut(x, max)
    ELSE IF x.offset = ChunkSize THEN MarkedUp(Up(x, Node(x, x.node).offset + 1), max, m)
    ELSE MarkedAt(IF advance THEN x ELSE ToHead(x, Entry(x, x.node, x.offset)), max, m, advance)

XasFindMarked(x, max, m) ==
    IF XasError(x) THEN Ret(x, NULL)
    ELSE IF x.node = NULL THEN MarkedOut([x EXCEPT !.index = 1], max)
    ELSE IF ~XasTop(x) THEN MarkedOn(x, max, m, TRUE)
    ELSE LET e == x.xa.head
             y == At(x, NULL)
         IN  IF x.index > MaxIndex(e) THEN MarkedOut(y, max)
             ELSE IF ~IsNode(e)
             THEN IF XaMarked(x, m) THEN Ret(y, e) ELSE MarkedOut([y EXCEPT !.index = 1], max)
             ELSE MarkedOn([y EXCEPT !.node = e, !.offset = Shr(x.index, NodeShift(e))],
                           max, m, FALSE)

(* xas_find_conflict: the next entry in the range of the xa_state.         *)
RECURSIVE DescendAll(_)
DescendAll(x) == IF IsNode(x.r) THEN DescendAll(XasDescend(x, x.r)) ELSE x

RECURSIVE FirstBelow(_, _)
FirstBelow(x, e) ==
    IF IsNode(e) THEN FirstBelow(Down(x, e, 0), Entry(x, e, 0)) ELSE Ret(x, e)

(* "(xas->xa_offset & xas->xa_sibs) == xas->xa_sibs": the last slot of the *)
(* range.                                                                  *)
RECURSIVE ConflictOn(_)
ConflictOn(x) ==
    LET end == [x EXCEPT !.offset = @ - x.sibs, !.r = NULL]
        step(y) ==
          LET e == Entry(y, y.node, y.offset)
              f == FirstBelow(y, e)
          IN  IF IsSibling(e) THEN ConflictOn(y)
              ELSE IF f.r # NULL THEN f ELSE ConflictOn(f)
    IN  IF NodeShift(x.node) = x.shift
        THEN IF (x.offset & x.sibs) = x.sibs THEN end ELSE step([x EXCEPT !.offset = @ + 1])
        ELSE IF x.offset = ChunkMask
        THEN LET y == Up(x, Node(x, x.node).offset)
             IN  IF y.node = NULL THEN [y EXCEPT !.offset = @ - y.sibs, !.r = NULL]
                 ELSE ConflictOn(y)
        ELSE step([x EXCEPT !.offset = @ + 1])

XasFindConflict(x) ==
    LET s == XasStart(x)
        d == DescendAll(s)
        y == IF XasTop(x) THEN d ELSE x
    IN  IF XasError(x) \/ x.node = NULL THEN Ret(x, NULL)
        ELSE IF XasTop(x) /\ s.r = NULL THEN s
        ELSE IF XasTop(x) /\ d.r # NULL THEN d
        ELSE IF NodeShift(y.node) > y.shift THEN Ret(y, NULL)
        ELSE ConflictOn(y)

-----------------------------------------------------------------------------
(* xas_next and xas_prev: one index on or back.  xa_offset is an unsigned  *)
(* char.                                                                   *)
RECURSIVE Sideways(_, _)
Sideways(x, d) ==
    IF x.offset \notin {255, ChunkSize} THEN x
    ELSE LET y == Up(x, (Node(x, x.node).offset + d) % 256)
         IN  IF y.node = NULL THEN SetBounds(y) ELSE Sideways(y, d)

RECURSIVE StepDown(_)
StepDown(x) ==
    LET e == Entry(x, x.node, x.offset)
    IN  IF IsNode(e) THEN StepDown(SetOffset(At(x, e))) ELSE Ret(x, e)

SlowStep(x, d) ==
    LET i == IF XasFrozen(x) THEN x ELSE [x EXCEPT !.index = Ulong(@ + d)]
        o == IF i.offset # GetOffset(i.index, i.node)
             THEN [i EXCEPT !.offset = (@ + d) % 256] ELSE i
        s == Sideways(o, d)
    IN  IF XasNotNode(x) THEN XasLoad(i)
        ELSE IF s.node = Bounds THEN s ELSE StepDown(s)

FastStep(x, d, edge) ==
    IF XasNotNode(x) \/ NodeShift(x.node) # 0 \/ x.offset = edge THEN SlowStep(x, d)
    ELSE XasReload([x EXCEPT !.index = Ulong(@ + d), !.offset = @ + d])

XasNext(x) == FastStep(x, 1, ChunkMask)
XasPrev(x) == FastStep(x, -1, 0)

XasPause(x) ==
    LET beyond == {o \in x.offset + 1 .. ChunkMask : ~IsSibling(Entry(x, x.node, o))}
        to == IF beyond = {} THEN ChunkSize ELSE CHOOSE o \in beyond : \A p \in beyond : o <= p
        by == IF x.node = NULL THEN 1 ELSE (to - x.offset) * 2^NodeShift(x.node)
    IN  IF XasInvalid(x) THEN x ELSE [x EXCEPT !.index = Ulong(@ + by), !.node = Restart]

(* The inline fast paths of xas_for_each and xas_for_each_marked.          *)
RECURSIVE XasNextEntry(_, _)
XasNextEntry(x, max) ==
    IF \/ XasNotNode(x) \/ NodeShift(x.node) # 0 \/ x.offset # x.index % ChunkSize
       \/ x.index >= max \/ x.offset = ChunkMask
       \/ IsInternal(Entry(x, x.node, x.offset + 1))
    THEN XasFind(x, max)
    ELSE LET y == XasReload([x EXCEPT !.offset = @ + 1, !.index = @ + 1])
         IN  IF y.r # NULL THEN y ELSE XasNextEntry(y, max)

XasNextMarked(x, max, m) ==
    IF XasNotNode(x) \/ NodeShift(x.node) # 0 THEN XasFindMarked(x, max, m)
    ELSE LET o == FindChunk(x, TRUE, m)
             y == [x EXCEPT !.offset = o, !.index = (@ \div ChunkSize) * ChunkSize + o]
         IN  IF y.index > max THEN Ret(y, NULL)
             ELSE IF o = ChunkSize THEN XasFindMarked(y, max, m)
             ELSE XasReload(y)

-----------------------------------------------------------------------------
(* The readers of the normal API.  xas_retry skips a zero entry (the walk  *)
(* goes on); no retry entry is reachable while the lock is held.           *)
XaLoad(a, i) == LET e == XasLoad(XaState(a, i, 0)).r IN IF e = Zero THEN NULL ELSE e

RECURSIVE GetMarkOn(_, _)
GetMarkOn(x, m) ==
    XasGetMark(x, m) /\ (~IsNode(x.r) \/ GetMarkOn(XasDescend(x, x.r), m))
XaGetMark(a, i, m) == GetMarkOn(XasStart(XaState(a, i, 0)), m)

FindFrom(x, max, filter) ==
    IF filter \in Marks THEN XasFindMarked(x, max, filter) ELSE XasFind(x, max)

RECURSIVE FindSkip(_, _, _)
FindSkip(x, max, filter) ==
    Bind(FindFrom(x, max, filter), LAMBDA y : IF y.r = Zero THEN FindSkip(y, max, filter) ELSE y)
XaFind(a, i, max, filter) == FindSkip(XaState(a, i, 0), max, filter)

(* xa_find_after: also skips the rest of a multi-index entry it started in.*)
(* A turn that changes nothing would be taken for ever: <<"loop">>.        *)
RECURSIVE AfterSkip(_, _, _)
AfterSkip(x, max, filter) ==
    Bind(FindFrom(x, max, filter), LAMBDA y :
    LET inside == y.offset < y.index % ChunkSize
    IN  IF y.node = Bounds THEN y
        ELSE IF ~(inside \/ y.r = Zero) THEN y
        ELSE IF y = x THEN Ret(y, <<"loop">>)
        ELSE AfterSkip(y, max, filter))
XaFindAfter(a, i, max, filter) == AfterSkip(XaState(a, Ulong(i + 1), 0), max, filter)

RECURSIVE ExtractOn(_, _, _, _)
ExtractOn(x, max, filter, n) ==
    LET y == IF filter \in Marks THEN XasNextMarked(x, max, filter) ELSE XasNextEntry(x, max)
    IN  IF x.r = NULL \/ n = 0 THEN <<>>
        ELSE IF x.r = Zero THEN ExtractOn(y, max, filter, n)
        ELSE <<x.r>> \o ExtractOn(y, max, filter, n - 1)
XaExtract(a, start, max, n, filter) ==
    ExtractOn(FindFrom(XaState(a, start, 0), max, filter), max, filter, n)
=============================================================================
