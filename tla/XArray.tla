------------------------------- MODULE XArray -------------------------------
(***************************************************************************)
(* Users of one XArray, kernel/lib/xarray.c.  An operation that changes    *)
(* the array runs under xa_lock; when it needs a node that the slab does   *)
(* not give at once, __xas_nomem drops the lock, allocates, takes the lock *)
(* again and the operation starts over, on an array that others may have   *)
(* changed meanwhile.  An attempt under the lock is one step.              *)
(*                                                                         *)
(*   a      the array (XArrayOps)                                          *)
(*   map    what the calls that completed mean: for every index its entry  *)
(*          and its marks                                                  *)
(*   op     the call that waits for memory to try again, or Idle           *)
(*   ok     whether the last call returned what the map says               *)
(***************************************************************************)
EXTENDS XArrayOps, FiniteSetsExt

CONSTANTS Keys,       \* the indices used
          Ranges,     \* the ranges of xa_store_range
          Values,     \* whether value entries are stored too
          Waiters,    \* the calls that may be waiting for memory
          Tracks,     \* which arrays are tried: XA_FLAGS_TRACK_FREE or not
          MaxStored   \* bound on the indices in use

VARIABLE xs

Span  == 0 .. UlongMax
Ptr   == <<"ptr", 1>>
Val   == <<"val", 1>>
User  == IF Values THEN {Ptr, Val} ELSE {Ptr}
Idle  == [op |-> "idle", alloc |-> FALSE]
Load(e) == IF e = Zero THEN NULL ELSE e
In(map, j) == IF j \in DOMAIN map THEN map[j].e ELSE NULL

(* The indices that share the entry at i: its slot's and its siblings'.    *)
SlotSpan(n, o) == LET unit == 2^NodeShift(n)
                      base == (n[3] * ChunkSize + o) * unit
                  IN  base .. base + unit - 1
Covered(x) == IF x.r = NULL \/ ~IsNode(x.node) THEN {x.index}
              ELSE UNION {SlotSpan(x.node, o) : o \in {x.offset} \cup
                            {o \in Offsets : Entry(x, x.node, o) = Sib(x.offset)}}
Entire(a, i) == Covered(XasLoad(XaState(a, i, 0)))

(* What a store means: "Storing into an existing multislot entry updates   *)
(* the entry of every index.  The marks associated with @index are         *)
(* unaffected unless @entry is NULL".                                      *)
MapStore(map, all, e) ==
    LET marks == UNION {map[k].m : k \in all \cap DOMAIN map}
        rest  == [j \in DOMAIN map \ all |-> map[j]]
    IN  IF e = NULL THEN rest ELSE [j \in all |-> [e |-> e, m |-> marks]] @@ rest

-----------------------------------------------------------------------------
(* One attempt of each call: the xa_state after it, with r what it returns,*)
(* and how the map changes if it completes.                                *)
ClearFree(x) == IF x.xa.track THEN XasClearMark(x, FreeMark) ELSE x
StoreClear(x, e) == Bind(XasStore(x, e), LAMBDA y : Ret(ClearFree(y), y.r))
Done(x, map) == [x |-> x, map |-> map]

DoErase(x, map, o) ==
    LET y == XasStore(x, NULL) IN Done(y, MapStore(map, Entire(x.xa, o.i), NULL))

DoStore(x, map, o) ==
    LET e == IF x.xa.track /\ o.e = NULL THEN Zero ELSE o.e
        y == StoreClear(x, e)
    IN  Done(y, MapStore(map, Entire(x.xa, o.i), e))

DoCmpxchg(x, map, o) ==
    LET e == IF x.xa.track /\ o.e = NULL THEN Zero ELSE o.e
        l == XasLoad(x)
        y == Ret(StoreClear(l, e), l.r)
    IN  IF Load(l.r) # o.old THEN Done(l, map)
        ELSE Done(y, MapStore(map, Entire(x.xa, o.i), e))

DoInsert(x, map, o) ==
    LET e == IF o.e = NULL THEN Zero ELSE o.e
        l == XasLoad(x)
    IN  IF l.r # NULL THEN Done(SetErr(l, "EEXIST"), map)
        ELSE Done(StoreClear(l, e), MapStore(map, Entire(x.xa, o.i), e))

DoReserve(x, map, o) ==
    LET l == XasLoad(x)
    IN  IF l.r # NULL THEN Done(l, map)
        ELSE Done(StoreClear(l, Zero), MapStore(map, Entire(x.xa, o.i), Zero))

DoAlloc(x, map, o) ==
    Bind(XasFindMarked(x, o.max, FreeMark), LAMBDA f :
    LET g == IF f.node = Restart THEN SetErr(f, "ENOSPC") ELSE f
        e == IF o.e = NULL THEN Zero ELSE o.e
        y == XasStore(g, e)
    IN  Done(XasClearMark(y, FreeMark), MapStore(map, {f.index}, e)))

DoSetMark(x, map, o) ==
    LET l == XasLoad(x)
    IN  IF l.r = NULL THEN Done(l, map)
        ELSE Done(XasSetMark(l, o.mark),
                  [j \in DOMAIN map |-> IF j \in Entire(x.xa, o.i)
                                         THEN [map[j] EXCEPT !.m = @ \cup {o.mark}] ELSE map[j]])

DoClearMark(x, map, o) ==
    LET l == XasLoad(x)
    IN  IF l.r = NULL THEN Done(l, map)
        ELSE Done(XasClearMark(l, o.mark),
                  [j \in DOMAIN map |-> IF j \in Entire(x.xa, o.i)
                                         THEN [map[j] EXCEPT !.m = @ \ {o.mark}] ELSE map[j]])

DoDestroy(x, map, o) ==
    LET h == x.xa.head
        m == XasInitMarks([At(x, NULL) EXCEPT !.xa.head = NULL])
    IN  Done(IF IsNode(h) THEN XasFreeNodes(m, h) ELSE m, <<>>)

(* xas_set_range: the largest piece from `first` that one store can make.  *)
RECURSIVE RangeUp(_, _, _, _)
RangeUp(first, sibs, shift, off) ==
    IF \/ first % ChunkSize # 0 \/ sibs < ChunkMask
       \/ sibs = ChunkMask /\ off < ChunkMask
    THEN [first |-> first, sibs |-> sibs, shift |-> shift]
    ELSE RangeUp(first \div ChunkSize, sibs \div ChunkSize, shift + ChunkShift,
                 IF off = ChunkMask THEN sibs % ChunkSize ELSE off)

XasSetRange(x, first, last) ==
    LET u == RangeUp(first, last - first, 0, ChunkMask)
        o == u.first % ChunkSize
        s == IF o + u.sibs > ChunkMask THEN ChunkMask - o ELSE u.sibs
        t == IF (u.first + s + 1) * 2^u.shift - 1 > last THEN s - 1 ELSE s
    IN  [XasSet(x, first) EXCEPT !.shift = u.shift, !.sibs = t]

RECURSIVE Ffs(_)
Ffs(n) == IF n % 2 = 1 THEN 0 ELSE 1 + Ffs(n \div 2)
XasSetOrder(x, i, order) ==
    [x EXCEPT !.index = IF order < Bits THEN (i \div 2^order) * 2^order ELSE 0,
              !.shift = order - (order % ChunkShift), !.sibs = 2^(order % ChunkShift) - 1,
              !.node = Restart]

(* xa_store_range: "first" moves on and stays moved over a retry.          *)
RECURSIVE RangeLoop(_, _, _, _, _)
RangeLoop(x, map, first, last, e) ==
    LET r == XasSetRange(x, first, last)
        piece == first .. first + XasSize(r) - 1
        all == UNION {Entire(x.xa, j) : j \in piece}
    IN  Bind(XasStore(r, e), LAMBDA y :
        IF XasError(y) THEN [x |-> [y EXCEPT !.k = first], map |-> map]
        ELSE IF first + XasSize(y) > last
        THEN Done([y EXCEPT !.k = first + XasSize(y), !.r = NULL], MapStore(map, all, e))
        ELSE RangeLoop(y, MapStore(map, all, e), first + XasSize(y), last, e))

DoStoreRange(x, map, o) ==
    LET order == IF Ulong(o.last + 1) = 0 THEN Bits ELSE Ffs(o.last + 1)
        c == XasCreate(XasSetOrder(x, o.last, order), TRUE)
    IN  IF o.e # NULL /\ XasError(c) THEN Done([c EXCEPT !.k = o.i], map)
        ELSE RangeLoop(IF o.e # NULL THEN c ELSE x, map, o.i, o.last, o.e)

Attempt(x, map, o) ==
    CASE o.op = "erase"   -> DoErase(x, map, o)
      [] o.op = "store"   -> DoStore(x, map, o)
      [] o.op = "cmpxchg" -> DoCmpxchg(x, map, o)
      [] o.op = "insert"  -> DoInsert(x, map, o)
      [] o.op = "reserve" -> DoReserve(x, map, o)
      [] o.op = "alloc"   -> DoAlloc(x, map, o)
      [] o.op = "set"     -> DoSetMark(x, map, o)
      [] o.op = "clear"   -> DoClearMark(x, map, o)
      [] o.op = "range"   -> DoStoreRange(x, map, o)
      [] o.op = "destroy" -> DoDestroy(x, map, o)

(* The calls of the normal API.                                            *)
Call(op, i) == [op |-> op, alloc |-> FALSE, i |-> i, e |-> NULL, old |-> NULL, max |-> 0,
                mark |-> 1, last |-> 0]
Calls(track) ==
    {[Call(op, i) EXCEPT !.e = e] : op \in {"store", "insert"}, i \in Keys, e \in User \cup {NULL}}
    \cup {[Call("cmpxchg", i) EXCEPT !.old = c[1], !.e = c[2]] :
            i \in Keys, c \in {<<Ptr, IF Values THEN Val ELSE NULL>>, <<NULL, NULL>>}}
    \cup {Call(op, i) : op \in {"erase", "reserve", "set", "clear"}, i \in Keys}
    \cup {Call("destroy", 0)}
    \cup IF track THEN {[Call("alloc", i) EXCEPT !.max = m, !.e = Ptr] :
                          i \in Keys, m \in {Max(Keys)}}
         ELSE {[Call("range", r[1]) EXCEPT !.last = r[2], !.e = e] : r \in Ranges, e \in {Ptr, NULL}}

(* A range that cuts an entry in two is not stored: the tail of the cut    *)
(* entry would be left as siblings of a sibling.                           *)
Cuts(a, o) == o.op = "range" /\ \E j \in o.i .. o.last : ~(Entire(a, j) \subseteq o.i .. o.last)

(* What a completed call returns, for the map before it.                   *)
Returned(map, o, x) ==
    CASE o.op \in {"erase", "store", "cmpxchg"} -> Load(x.r) = Load(In(map, o.i))
      [] o.op = "insert" -> XasError(x) <=> In(map, o.i) # NULL
      [] o.op = "alloc"  ->
            LET free == {j \in o.i .. o.max : In(map, j) = NULL}
            IN  IF free = {} THEN x.node = Err("ENOSPC") ELSE x.index = Min(free)
      [] OTHER -> TRUE

(* One attempt, and __xas_nomem after it: with the node it got the call    *)
(* tries again later, on what the array has become.                        *)
Try(o, waits) ==
    \E mem \in {0, 1, 3} :
    \E d \in {Attempt([XaState(xs.a, o.i, mem) EXCEPT !.alloc = o.alloc], xs.map, o)} :
      \/ /\ d.x.node # Err("ENOMEM")
         /\ xs' = [xs EXCEPT !.a = d.x.xa, !.op = waits,
                      !.map = IF XasError(d.x) THEN @ ELSE d.map,
                      !.ok = Returned(xs.map, o, d.x)]
      \/ /\ d.x.node = Err("ENOMEM")
         /\ \E w \in {waits} \cup
                  IF waits = Idle /\ o.op \in Waiters
                  THEN {[o EXCEPT !.alloc = TRUE, !.i = IF o.op = "range" THEN d.x.k ELSE @]}
                  ELSE {} :
              xs' = [xs EXCEPT !.a = d.x.xa, !.ok = TRUE, !.op = w,
                       !.map = IF o.op = "range" THEN d.map ELSE @]

Fits(a, o) == \/ o.e = NULL \/ o.op = "range"
              \/ Cardinality({j \in Keys : XaLoad(a, j) # NULL} \cup {o.i}) <= MaxStored

Start ==
    \E o \in Calls(xs.a.track) : ~Cuts(xs.a, o) /\ Fits(xs.a, o) /\ Try(o, xs.op)

Again == xs.op # Idle /\ ~Cuts(xs.a, xs.op) /\ Try(xs.op, Idle)

Init == \E track \in Tracks :
    xs = [a |-> EmptyArray(track), map |-> <<>>, op |-> Idle, ok |-> TRUE]
Next == Start \/ Again

-----------------------------------------------------------------------------
Passes(j, filter) == /\ xs.map[j].e # Zero
                     /\ filter \in Marks => filter \in xs.map[j].m
Finds(x, later) == IF later = {} THEN x.r = NULL
                   ELSE x.index = Min(later) /\ x.r = xs.map[Min(later)].e
SearchExact(i, filter, all) ==
    LET pass  == {j \in DOMAIN xs.map : Passes(j, filter)}
        later == {j \in pass : j > i /\ j \notin all}
        found == XaFind(xs.a, i, UlongMax, filter)
    IN  /\ IF i \in pass THEN found.r = xs.map[i].e ELSE Finds(found, later)
        /\ i < UlongMax /\ i = Min(all) /\ Cardinality(all) < ChunkSize =>
              Finds(XaFindAfter(xs.a, i, UlongMax, filter), later)

(* xas_next from 0 up and xas_prev from the last index down meet every     *)
(* index with its entry, xa_extract collects the entries in order, a walk  *)
(* goes on after xas_pause where it stopped, and xas_find_conflict answers *)
(* whether a range of 2^order indices is in use.                           *)
(* (The first three are asked where every entry is of one index, and the   *)
(* steps where there is a node: NextExact below is about the rest.)        *)
RECURSIVE Walk(_, _, _)
Walk(x, d, n) == IF n = 0 THEN <<>>
                 ELSE Bind(IF d = 1 THEN XasNext(x) ELSE XasPrev(x), LAMBDA y :
                          <<<<y.index, y.r>>>> \o Walk(y, d, n - 1))
WalksExact ==
    LET at(j) == <<j, In(xs.map, j)>>
        seq[j \in 0 .. UlongMax + 1] ==
            IF j = UlongMax + 1 THEN <<>>
            ELSE IF Load(In(xs.map, j)) = NULL THEN seq[j + 1] ELSE <<xs.map[j].e>> \o seq[j + 1]
    IN  /\ (\A j \in DOMAIN xs.map : Entire(xs.a, j) = {j}) =>
              /\ IsNode(xs.a.head) =>
                    /\ Walk(XaState(xs.a, 0, 0), 1, UlongMax + 1) =
                          [k \in 1 .. UlongMax + 1 |-> at(k - 1)]
                    /\ Walk(XaState(xs.a, UlongMax, 0), -1, UlongMax + 1) =
                          [k \in 1 .. UlongMax + 1 |-> at(UlongMax + 1 - k)]
              /\ XaExtract(xs.a, 0, UlongMax, UlongMax, Present) = seq[0]
        /\ \A i \in Keys \cap DOMAIN xs.map : \A all \in {Entire(xs.a, i)} :
              i = Min(all) /\ UlongMax \notin all =>
                 LET x == XasFind(XasPause(XasLoad(XaState(xs.a, i, 0))), UlongMax)
                     later == {j \in DOMAIN xs.map : j > Max(all)}
                 IN  IF later = {} THEN x.r = NULL
                     ELSE x.index = Min(later) /\ x.r = xs.map[x.index].e
        /\ \A i \in Keys : \A order \in 0 .. Bits - 1 :
              LET x == XasSetOrder(XaState(xs.a, i, 0), i, order)
              IN  (XasFindConflict(x).r # NULL) <=>
                     \E j \in x.index .. x.index + 2^order - 1 : In(xs.map, j) # NULL

(* xarray.c: the array is the map.  Every load, mark and search answers    *)
(* what the completed calls say, and so did the last call.  A search       *)
(* returns the first entry from its index on that passes the filter, and   *)
(* xa_find_after, from the first index of an entry, the first of the rest; *)
(* but an entry that fills a slot above the lowest level may be returned   *)
(* again, because its siblings test looks at the lowest index bits only.   *)
XaExact ==
    /\ xs.ok
    /\ WalksExact
    /\ \A j \in Span : XaLoad(xs.a, j) = Load(In(xs.map, j))
    /\ \A j \in Span : XaGetMark(xs.a, j, 1) = (j \in DOMAIN xs.map /\ 1 \in xs.map[j].m)
    /\ \A i \in Keys : \A filter \in {1, Present} : SearchExact(i, filter, Entire(xs.a, i))

(* xarray.c: the tree's bookkeeping: every node is linked from its parent  *)
(* at its offset, counts its entries, and has a mark bit                   *)
(* exactly where something below has the mark.                             *)
TreeExact ==
    LET nodes == xs.a.nodes
        linked(n) == IF nodes[n].parent = NULL THEN xs.a.head = n
                     ELSE /\ nodes[n].parent \in DOMAIN nodes
                          /\ nodes[nodes[n].parent].slots[nodes[n].offset] = n
    IN  \A n \in DOMAIN nodes :
          /\ linked(n)
          /\ nodes[n].count = Cardinality({o \in Offsets : nodes[n].slots[o] # NULL})
          /\ \A o \in Offsets : IsNode(nodes[n].slots[o]) =>
                \A m \in Marks : (o \in nodes[n].marks[m]) =
                                 (nodes[nodes[n].slots[o]].marks[m] # {})
=============================================================================
