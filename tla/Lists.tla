------------------------------- MODULE Lists --------------------------------
(***************************************************************************)
(* The linked lists of lib/base/include/base/list.h, list_sort(), and the  *)
(* sort() and bsearch() of arrays.                                         *)
(*                                                                         *)
(* The memory is the next and prev pointers of the heads and the entries;  *)
(* beside it are the lists as sequences.  A head is stale after            *)
(* list_splice() and list_replace(), which leave its pointers as they are, *)
(* until it is initialised again; an entry off every list is whatever      *)
(* list_del(), list_del_init() or list_replace() made of it.               *)
(***************************************************************************)
EXTENDS Integers, Sequences, SequencesExt

CONSTANTS Heads, Entries, Key, MaxLevels, Arrays, Poison
VARIABLE ls

Nodes == Heads \union Entries

INIT_LIST_HEAD(m, l) == [m EXCEPT !.next[l] = l, !.prev[l] = l]
__list_add(m, new, prev, next) ==
    [m EXCEPT !.prev = [@ EXCEPT ![next] = new, ![new] = prev], !.next = [@ EXCEPT ![new] = next, ![prev] = new]]
list_add(m, new, head) == __list_add(m, new, head, m.next[head])
list_add_tail(m, new, head) == __list_add(m, new, m.prev[head], head)
__list_del(m, prev, next) == [m EXCEPT !.prev[next] = prev, !.next[prev] = next]
__list_del_entry(m, e) == __list_del(m, m.prev[e], m.next[e])
list_del(m, e) ==
    LET d == __list_del_entry(m, e) IN [d EXCEPT !.next[e] = Poison, !.prev[e] = Poison]
list_del_init(m, e) == INIT_LIST_HEAD(__list_del_entry(m, e), e)
list_move(m, e, head) == list_add(__list_del_entry(m, e), e, head)
list_move_tail(m, e, head) == list_add_tail(__list_del_entry(m, e), e, head)

(* Each assignment of list_replace() reads what the ones before it wrote:  *)
(* an empty old head makes an empty new one.                               *)
list_replace(m, old, new) ==
    LET m1 == [m EXCEPT !.next[new] = m.next[old]]
        m2 == [m1 EXCEPT !.prev[m1.next[new]] = new]
        m3 == [m2 EXCEPT !.prev[new] = m2.prev[old]]
    IN [m3 EXCEPT !.next[m3.prev[new]] = new]
list_bulk_move_tail(m, head, first, last) ==
    LET m1 == [m EXCEPT !.next[m.prev[first]] = m.next[last]]
        m2 == [m1 EXCEPT !.prev[m1.next[last]] = m1.prev[first]]
        m3 == [m2 EXCEPT !.next[m2.prev[head]] = first]
        m4 == [m3 EXCEPT !.prev[first] = m3.prev[head]]
    IN [m4 EXCEPT !.next[last] = head, !.prev[head] = last]

list_empty(m, head) == m.next[head] = head
list_is_singular(m, head) == ~list_empty(m, head) /\ m.next[head] = m.prev[head]
list_rotate_left(m, head) == IF list_empty(m, head) THEN m ELSE list_move_tail(m, m.next[head], head)

__list_cut_position(m, list, head, entry) ==
    LET new_first == m.next[entry]
        m1 == [m EXCEPT !.next[list] = m.next[head]]
        m2 == [m1 EXCEPT !.prev[m1.next[list]] = list]
    IN [m2 EXCEPT !.prev = [@ EXCEPT ![list] = entry, ![new_first] = head], !.next = [@ EXCEPT ![entry] = list, ![head] = new_first]]
list_cut_position(m, list, head, entry) ==
    IF list_empty(m, head) \/ (list_is_singular(m, head) /\ m.next[head] # entry /\ head # entry) THEN m
    ELSE IF entry = head THEN INIT_LIST_HEAD(m, list) ELSE __list_cut_position(m, list, head, entry)
list_cut_before(m, list, head, entry) ==
    IF m.next[head] = entry THEN INIT_LIST_HEAD(m, list)
    ELSE LET m1 == [m EXCEPT !.next[list] = m.next[head]]
             m2 == [m1 EXCEPT !.prev[m1.next[list]] = list]
             m3 == [m2 EXCEPT !.prev[list] = m2.prev[entry]]
         IN [m3 EXCEPT !.next = [@ EXCEPT ![m3.prev[list]] = list, ![head] = entry], !.prev[entry] = head]
__list_splice(m, list, prev, next) ==
    LET first == m.next[list]
        last == m.prev[list]
    IN [m EXCEPT !.prev = [@ EXCEPT ![first] = prev, ![next] = last], !.next = [@ EXCEPT ![prev] = first, ![last] = next]]
list_splice(m, list, head) == IF list_empty(m, list) THEN m ELSE __list_splice(m, list, head, m.next[head])
list_splice_tail(m, list, head) == IF list_empty(m, list) THEN m ELSE __list_splice(m, list, m.prev[head], head)

(* list_for_each(), list_for_each_prev(): the entries a walk meets.        *)
RECURSIVE Walk(_, _, _, _)
Walk(ptr, head, pos, left) ==
    IF pos = head \/ pos = Poison \/ left = 0 THEN <<>> ELSE <<pos>> \o Walk(ptr, head, ptr[pos], left - 1)
Forward(m, head) == Walk(m.next, head, m.next[head], 1 + Len(SetToSeq(Entries)))
Backward(m, head) == Walk(m.prev, head, m.prev[head], 1 + Len(SetToSeq(Entries)))
(* list_for_each_entry_safe() with a body that deletes some of the entries.*)
RECURSIVE DeleteSafe(_, _, _, _, _)
DeleteSafe(m, head, pos, n, gone) ==
    IF pos = head THEN m
    ELSE LET m1 == IF pos \in gone THEN list_del(m, pos) ELSE m IN DeleteSafe(m1, head, n, m1.next[n], gone)

(* merge(): stable; the chains end in NULL and their prev is not kept.     *)
RECURSIVE merge(_, _)
merge(a, b) ==
    IF a = <<>> THEN b ELSE IF b = <<>> THEN a
    ELSE IF Key[a[1]] <= Key[b[1]] THEN <<a[1]>> \o merge(Tail(a), b) ELSE <<b[1]>> \o merge(a, Tail(b))
(* One entry of the loop of list_sort(): a carry through the levels; one   *)
(* past the last level stays on the last.                                  *)
RECURSIVE Carry(_, _, _)
Carry(parts, lev, cur) ==
    IF parts[lev] = <<>> THEN [part |-> parts, lev |-> lev, cur |-> cur]
    ELSE Carry([parts EXCEPT ![lev] = <<>>], lev + 1, merge(parts[lev], cur))
SortStep(s, e) ==
    LET c == Carry(s.part, 0, <<e>>)
        lev == IF c.lev > s.max /\ c.lev >= MaxLevels THEN c.lev - 1 ELSE c.lev
    IN [part |-> [c.part EXCEPT ![lev] = c.cur], max |-> IF c.lev > s.max THEN lev ELSE s.max]
Sorted(chain) ==
    LET s == FoldLeft(SortStep, [part |-> [l \in 0 .. MaxLevels |-> <<>>], max |-> 0], chain)
        rest == FoldLeft(LAMBDA l, lev : IF s.part[lev - 1] = <<>> THEN l ELSE merge(s.part[lev - 1], l), <<>>, [i \in 1 .. s.max |-> i])
    IN merge(s.part[s.max], rest)
(* merge_and_restore_back_links().                                         *)
RestoreLinks(m, head, chain) ==
    LET at(i) == IF i \in DOMAIN chain THEN chain[i] ELSE head
        here(e) == CHOOSE i \in DOMAIN chain : chain[i] = e
        on == Range(chain)
    IN [m EXCEPT !.next = [n \in Nodes |-> IF n = head THEN at(1) ELSE IF n \in on THEN at(here(n) + 1) ELSE @[n]],
                 !.prev = [n \in Nodes |-> IF n = head THEN at(Len(chain)) ELSE IF n \in on THEN at(here(n) - 1) ELSE @[n]]]
list_sort(m, head) == IF list_empty(m, head) THEN m ELSE RestoreLinks(m, head, Sorted(Forward(m, head)))

(* sort(): the heap grows from the middle of the array, then its root goes *)
(* to the end; r, c and the counters are in units of the size.             *)
RECURSIVE SiftDown(_, _, _)
SiftDown(a, r, n) ==
    IF r * 2 + 1 >= n THEN a
    ELSE LET c0 == r * 2 + 1
             c == IF c0 < n - 1 /\ a[c0 + 1] < a[c0 + 2] THEN c0 + 1 ELSE c0
         IN IF a[r + 1] >= a[c + 1] THEN a
            ELSE SiftDown([a EXCEPT ![r + 1] = a[c + 1], ![c + 1] = a[r + 1]], c, n)
Heapify(a) == FoldLeft(LAMBDA b, k : SiftDown(b, (Len(a) \div 2) - k, Len(a)), a, [k \in 1 .. Len(a) \div 2 |-> k])
sort(a) ==
    FoldLeft(LAMBDA b, k : LET i == Len(a) - k IN SiftDown([b EXCEPT ![1] = b[i + 1], ![i + 1] = b[1]], 0, i),
             Heapify(a), [k \in 1 .. (IF a = <<>> THEN 0 ELSE Len(a) - 1) |-> k])
RECURSIVE bsearch(_, _, _, _)
bsearch(a, key, base, num) ==
    IF num <= 0 THEN -1
    ELSE LET pivot == base + (num \div 2) IN
         IF a[pivot + 1] = key THEN pivot
         ELSE IF key > a[pivot + 1] THEN bsearch(a, key, pivot + 1, (num - 1) \div 2) ELSE bsearch(a, key, base, num \div 2)
-----------------------------------------------------------------------------
Start == [m |-> [next |-> [n \in Nodes |-> IF n \in Heads THEN n ELSE Poison], prev |-> [n \in Nodes |-> IF n \in Heads THEN n ELSE Poison]],
              list |-> [h \in Heads |-> <<>>], stale |-> {}, arr |-> <<>>, orig |-> <<>>]
Init == ls = Start

On == UNION {Range(ls.list[h]) : h \in Heads}
Live == Heads \ ls.stale
Without(s, S) == SelectSeq(s, LAMBDA x : x \notin S)
(* The pointers of a stale head and of a replaced entry are not used again *)
(* before they are written.                                                *)
Undefined(m, S) == [next |-> [n \in Nodes |-> IF n \in S THEN Poison ELSE m.next[n]], prev |-> [n \in Nodes |-> IF n \in S THEN Poison ELSE m.prev[n]]]
Become(m, list, stale) == ls' = [ls EXCEPT !.m = Undefined(m, stale), !.list = list, !.stale = stale, !.arr = <<>>, !.orig = <<>>]

AddEntry(e, h, tail) ==
    /\ e \notin On /\ h \in Live
    /\ Become(IF tail THEN list_add_tail(ls.m, e, h) ELSE list_add(ls.m, e, h),
              [ls.list EXCEPT ![h] = IF tail THEN Append(@, e) ELSE <<e>> \o @], ls.stale)
(* An entry that list_del_init() made is deleted again without harm.       *)
DeleteEntry(e, init) ==
    /\ e \notin On => init /\ ls.m.next[e] = e
    /\ Become(IF init THEN list_del_init(ls.m, e) ELSE list_del(ls.m, e), [h \in Heads |-> Without(ls.list[h], {e})], ls.stale)
MoveEntry(e, h, tail) ==
    /\ e \in On /\ h \in Live
    /\ Become(IF tail THEN list_move_tail(ls.m, e, h) ELSE list_move(ls.m, e, h),
              [k \in Heads |-> LET w == Without(ls.list[k], {e}) IN IF k # h THEN w ELSE IF tail THEN Append(w, e) ELSE <<e>> \o w], ls.stale)
ReplaceEntry(old, new, init) ==
    /\ old \in On /\ new \in Entries \ On
    /\ LET m == list_replace(ls.m, old, new) IN
       Become(IF init THEN INIT_LIST_HEAD(m, old) ELSE Undefined(m, {old}),
              [h \in Heads |-> [i \in DOMAIN ls.list[h] |-> IF ls.list[h][i] = old THEN new ELSE ls.list[h][i]]], ls.stale)
ReplaceHead(old, new, init) ==
    /\ old \in Live /\ old # new /\ ls.list[new] = <<>>
    /\ LET m == list_replace(ls.m, old, new) IN
       Become(IF init THEN INIT_LIST_HEAD(m, old) ELSE m, [ls.list EXCEPT ![new] = ls.list[old], ![old] = <<>>],
              (ls.stale \ {new}) \union (IF init THEN {} ELSE {old}))
BulkMove(h, i, j) ==
    /\ h \in Live /\ i \in DOMAIN ls.list[h] /\ j \in i .. Len(ls.list[h])
    /\ LET l == ls.list[h] IN
       Become(list_bulk_move_tail(ls.m, h, l[i], l[j]),
              [ls.list EXCEPT ![h] = SubSeq(l, 1, i - 1) \o SubSeq(l, j + 1, Len(l)) \o SubSeq(l, i, j)], ls.stale)
Rotate(h) ==
    /\ h \in Live
    /\ Become(list_rotate_left(ls.m, h), [ls.list EXCEPT ![h] = IF @ = <<>> THEN @ ELSE Append(Tail(@), @[1])], ls.stale)
(* The list that takes the cut part holds nothing to lose; an empty head   *)
(* leaves it as it was.                                                    *)
CutList(list, h, i, before) ==
    /\ h \in Live /\ list # h /\ ls.list[list] = <<>> /\ i \in 0 .. Len(ls.list[h])
    /\ LET l == ls.list[h]
           entry == IF i = 0 THEN h ELSE l[i]
           cut == IF before THEN IF i = 0 THEN Len(l) ELSE i - 1 ELSE i
       IN Become(IF before THEN list_cut_before(ls.m, list, h, entry) ELSE list_cut_position(ls.m, list, h, entry),
                 [ls.list EXCEPT ![list] = SubSeq(l, 1, cut), ![h] = SubSeq(l, cut + 1, Len(l))],
                 IF ~before /\ l = <<>> THEN ls.stale ELSE ls.stale \ {list})
Splice(list, h, tail, init) ==
    /\ {list, h} \subseteq Live /\ list # h
    /\ LET m == IF tail THEN list_splice_tail(ls.m, list, h) ELSE list_splice(ls.m, list, h)
           l == ls.list[list]
       IN Become(IF init /\ ~list_empty(ls.m, list) THEN INIT_LIST_HEAD(m, list) ELSE m,
                 [ls.list EXCEPT ![h] = IF tail THEN @ \o l ELSE l \o @, ![list] = <<>>],
                 IF init \/ l = <<>> THEN ls.stale ELSE ls.stale \union {list})
InitHead(h) == /\ h \in ls.stale /\ Become(INIT_LIST_HEAD(ls.m, h), ls.list, ls.stale \ {h})
DeleteSome(h, gone) ==
    /\ h \in Live /\ gone \subseteq Range(ls.list[h])
    /\ Become(DeleteSafe(ls.m, h, ls.m.next[h], ls.m.next[ls.m.next[h]], gone), [ls.list EXCEPT ![h] = Without(@, gone)], ls.stale)
SortList(h) ==
    /\ h \in Live
    /\ Become(list_sort(ls.m, h),
              [ls.list EXCEPT ![h] = SortSeq(@, LAMBDA a, b : Key[a] < Key[b] \/ (Key[a] = Key[b] /\ \E i, j \in DOMAIN ls.list[h] :
                                                   i < j /\ ls.list[h][i] = a /\ ls.list[h][j] = b))], ls.stale)
SortArray == /\ ls = Start /\ \E a \in Arrays : ls' = [ls EXCEPT !.orig = a, !.arr = sort(a)]

Next ==
    \/ \E e \in Entries, h \in Heads, t \in BOOLEAN : AddEntry(e, h, t) \/ DeleteEntry(e, t) \/ MoveEntry(e, h, t)
    \/ \E o, n \in Entries, i \in BOOLEAN : ReplaceEntry(o, n, i)
    \/ \E o, n \in Heads, i \in BOOLEAN : ReplaceHead(o, n, i)
    \/ \E h \in Heads : \E i, j \in DOMAIN ls.list[h] : BulkMove(h, i, j)
    \/ \E h \in Heads : Rotate(h) \/ InitHead(h) \/ SortList(h)
    \/ \E l, h \in Heads, b, c \in BOOLEAN : Splice(l, h, b, c) \/ \E i \in 0 .. Len(ls.list[h]) : CutList(l, h, i, b)
    \/ \E h \in Heads : \E gone \in SUBSET Range(ls.list[h]) : DeleteSome(h, gone)
    \/ SortArray
Spec == Init /\ [][Next]_ls
-----------------------------------------------------------------------------
(* Every list is, walked either way, the sequence it should be, and its    *)
(* tests (list_empty(), list_is_singular(), list_is_last()) agree; a sort  *)
(* of an array permutes it into order, and bsearch() finds what is in it   *)
(* and nothing else.                                                       *)
ListsExact ==
    /\ \A h \in Live :
        /\ Forward(ls.m, h) = ls.list[h] /\ Backward(ls.m, h) = Reverse(ls.list[h])
        /\ list_empty(ls.m, h) <=> ls.list[h] = <<>>
        /\ list_is_singular(ls.m, h) <=> Len(ls.list[h]) = 1
        /\ \A e \in Range(ls.list[h]) : ls.m.next[e] = h <=> e = Last(ls.list[h])
    /\ \A k \in 0 .. 3 : LET at == bsearch(ls.arr, k, 0, Len(ls.arr)) IN IF k \in Range(ls.arr) THEN ls.arr[at + 1] = k ELSE at = -1
    /\ \A i \in 1 .. Len(ls.arr) - 1 : ls.arr[i] <= ls.arr[i + 1]
    /\ \A k \in Range(ls.orig) \union Range(ls.arr) :
         Len(SelectSeq(ls.orig, LAMBDA x : x = k)) = Len(SelectSeq(ls.arr, LAMBDA x : x = k))

-----------------------------------------------------------------------------
(* The hash lists of list.h (a head of one pointer, nodes that point to    *)
(* the pointer that points to them) and the lock-less lists of llist.h and *)
(* llist.c with several producers and the one consumer llist_del_first()   *)
(* asks for.                                                               *)
(*                                                                         *)
(* A cell is a place that holds a pointer: the first of a head or the next *)
(* of a node.  The steps of the lock-less list are its atomic accesses.    *)
CONSTANTS HNodes, Producers, Batches, Null
VARIABLE hl

First(h) == <<"first", h>>
NextOf(n) == <<"next", n>>
Cells == {First(h) : h \in Heads} \union {NextOf(n) : n \in HNodes}

INIT_HLIST_NODE(m, n) == [m EXCEPT !.cell[NextOf(n)] = Null, !.pprev[n] = Null]
hlist_unhashed(m, n) == m.pprev[n] = Null
__hlist_del(m, n) ==
    LET next == m.cell[NextOf(n)]
        m1 == [m EXCEPT !.cell[m.pprev[n]] = next]
    IN IF next = Null THEN m1 ELSE [m1 EXCEPT !.pprev[next] = m.pprev[n]]
hlist_del(m, n) == LET d == __hlist_del(m, n) IN [d EXCEPT !.cell[NextOf(n)] = Poison, !.pprev[n] = Poison]
hlist_del_init(m, n) == IF hlist_unhashed(m, n) THEN m ELSE INIT_HLIST_NODE(__hlist_del(m, n), n)
hlist_add_head(m, n, h) ==
    LET first == m.cell[First(h)]
        m1 == [m EXCEPT !.cell = [@ EXCEPT ![NextOf(n)] = first, ![First(h)] = n], !.pprev[n] = First(h)]
    IN IF first = Null THEN m1 ELSE [m1 EXCEPT !.pprev[first] = NextOf(n)]
hlist_add_before(m, n, next) ==
    [m EXCEPT !.pprev = [@ EXCEPT ![n] = m.pprev[next], ![next] = NextOf(n)], !.cell = [@ EXCEPT ![NextOf(n)] = next, ![m.pprev[next]] = n]]
hlist_add_behind(m, n, prev) ==
    LET m1 == [m EXCEPT !.cell = [@ EXCEPT ![NextOf(n)] = m.cell[NextOf(prev)], ![NextOf(prev)] = n], !.pprev[n] = NextOf(prev)]
        behind == m1.cell[NextOf(n)]
    IN IF behind = Null THEN m1 ELSE [m1 EXCEPT !.pprev[behind] = NextOf(n)]
hlist_move_list(m, old, new) ==
    LET m1 == [m EXCEPT !.cell[First(new)] = m.cell[First(old)]]
        m2 == IF m1.cell[First(new)] = Null THEN m1 ELSE [m1 EXCEPT !.pprev[m1.cell[First(new)]] = First(new)]
    IN [m2 EXCEPT !.cell[First(old)] = Null]
hlist_is_singular_node(m, n, h) == m.cell[NextOf(n)] = Null /\ m.pprev[n] = First(h)

RECURSIVE Chain(_, _, _)
Chain(cell, pos, left) == IF pos \in {Null, Poison} \/ left = 0 THEN <<>> ELSE <<pos>> \o Chain(cell, cell[NextOf(pos)], left - 1)
-----------------------------------------------------------------------------
(* The lock-less part uses the nodes too: first and next are its memory,   *)
(* pc what each thread is doing, own the nodes a thread may add.           *)
HInit ==
    \/ hl = [kind |-> "hlist", cell |-> [c \in Cells |-> IF c[1] = "first" THEN Null ELSE Poison], pprev |-> [n \in HNodes |-> Poison],
             list |-> [h \in Heads |-> <<>>]]
    \/ \E own \in [HNodes -> Producers] :
         hl = [kind |-> "llist", first |-> Null, next |-> [n \in HNodes |-> Null], stack |-> <<>>, own |-> own,
               pc |-> [p \in Producers |-> [at |-> "idle", batch |-> <<>>, first |-> Null]],
               del |-> [at |-> "idle", entry |-> Null, next |-> Null], got |-> <<>>]

HOn == UNION {Range(hl.list[h]) : h \in Heads}
Put(s, i, n) == SubSeq(s, 1, i - 1) \o <<n>> \o SubSeq(s, i, Len(s))
HBecome(m, list) == hl' = [m EXCEPT !.list = list]
HAddHead(n, h) == /\ hl.kind = "hlist" /\ n \notin HOn /\ HBecome(hlist_add_head(hl, n, h), [hl.list EXCEPT ![h] = <<n>> \o @])
HAdd(n, h, i, behind) ==
    /\ hl.kind = "hlist" /\ n \notin HOn /\ i \in DOMAIN hl.list[h]
    /\ HBecome(IF behind THEN hlist_add_behind(hl, n, hl.list[h][i]) ELSE hlist_add_before(hl, n, hl.list[h][i]),
              [hl.list EXCEPT ![h] = Put(@, IF behind THEN i + 1 ELSE i, n)])
HDel(n, init) ==
    /\ hl.kind = "hlist" /\ (n \notin HOn => init /\ hlist_unhashed(hl, n))
    /\ HBecome(IF init THEN hlist_del_init(hl, n) ELSE hlist_del(hl, n), [h \in Heads |-> SelectSeq(hl.list[h], LAMBDA x : x # n)])
HMove(old, new) ==
    /\ hl.kind = "hlist" /\ old # new /\ hl.list[new] = <<>>
    /\ HBecome(hlist_move_list(hl, old, new), [hl.list EXCEPT ![new] = hl.list[old], ![old] = <<>>])

(* llist_add_batch(): the batch is linked, its last points to the first    *)
(* that was read, and a cmpxchg makes it the head's.                       *)
AddRead(p, batch) ==
    /\ hl.kind = "llist" /\ hl.pc[p].at = "idle" /\ \A i \in DOMAIN batch : hl.own[batch[i]] = p
    /\ hl' = [hl EXCEPT !.pc[p] = [at |-> "swap", batch |-> batch, first |-> hl.first],
                        !.next = [n \in HNodes |-> IF n = Last(batch) THEN hl.first
                                                  ELSE IF \E i \in DOMAIN batch : batch[i] = n THEN batch[1 + CHOOSE i \in DOMAIN batch : batch[i] = n]
                                                  ELSE @[n]]]
AddSwap(p) ==
    /\ hl.kind = "llist" /\ hl.pc[p].at = "swap"
    /\ hl' = IF hl.first # hl.pc[p].first
             THEN [hl EXCEPT !.pc[p].first = hl.first, !.next[Last(hl.pc[p].batch)] = hl.first]
             ELSE [hl EXCEPT !.first = hl.pc[p].batch[1], !.stack = hl.pc[p].batch \o @, !.pc[p].at = "idle", !.pc[p].batch = <<>>, !.pc[p].first = Null,
                             !.own = [n \in HNodes |-> IF \E i \in DOMAIN hl.pc[p].batch : hl.pc[p].batch[i] = n THEN Null ELSE @[n]]]
(* llist_del_first(): a read of first, of its next, and a cmpxchg.         *)
DelRead ==
    /\ hl.kind = "llist" /\ hl.del.at = "idle" /\ hl.got = <<>> /\ hl.first # Null
    /\ hl' = [hl EXCEPT !.del = [at |-> "next", entry |-> hl.first, next |-> Null]]
DelNext ==
    /\ hl.kind = "llist" /\ hl.del.at = "next" /\ hl' = [hl EXCEPT !.del.at = "swap", !.del.next = hl.next[hl.del.entry]]
DelSwap ==
    /\ hl.kind = "llist" /\ hl.del.at = "swap"
    /\ hl' = IF hl.first # hl.del.entry
             THEN [hl EXCEPT !.del = IF hl.first = Null THEN [at |-> "idle", entry |-> Null, next |-> Null] ELSE [at |-> "next", entry |-> hl.first, next |-> Null]]
             ELSE [hl EXCEPT !.first = hl.del.next, !.got = <<hl.del.entry>>, !.stack = Tail(@), !.del = [at |-> "idle", entry |-> Null, next |-> Null]]
(* llist_del_all() and llist_reverse_order().                              *)
DelAll(reverse) ==
    /\ hl.kind = "llist" /\ hl.del.at = "idle" /\ hl.got = <<>> /\ hl.first # Null
    /\ LET all == Chain([c \in {NextOf(n) : n \in HNodes} |-> hl.next[c[2]]], hl.first, 1 + Len(hl.stack)) IN
       /\ hl' = [hl EXCEPT !.first = Null, !.stack = <<>>, !.got = IF reverse THEN Reverse(all) ELSE all]
(* What the consumer took goes back to a producer.                         *)
GiveBack(p) ==
    /\ hl.kind = "llist" /\ hl.got # <<>>
    /\ hl' = [hl EXCEPT !.got = Tail(@), !.own[hl.got[1]] = p]

HNext ==
    \/ \E n \in HNodes, h \in Heads : HAddHead(n, h)
    \/ hl.kind = "hlist" /\ \E n \in HNodes, h \in Heads : \E i \in DOMAIN hl.list[h], b \in BOOLEAN : HAdd(n, h, i, b)
    \/ \E n \in HNodes, i \in BOOLEAN : HDel(n, i)
    \/ \E o, n \in Heads : HMove(o, n)
    \/ \E p \in Producers, b \in Batches : AddRead(p, b)
    \/ \E p \in Producers : AddSwap(p) \/ GiveBack(p)
    \/ DelRead \/ DelNext \/ DelSwap
    \/ \E r \in BOOLEAN : DelAll(r)
-----------------------------------------------------------------------------
(* Every hash list is the sequence of its nodes and each of them is        *)
(* pointed to by the cell its pprev names; a node is singular exactly when *)
(* it is alone.                                                            *)
HashExact ==
    \A h \in Heads :
        /\ Chain(hl.cell, hl.cell[First(h)], 1 + Len(hl.list[h])) = hl.list[h]
        /\ \A i \in DOMAIN hl.list[h] :
             /\ hl.pprev[hl.list[h][i]] = IF i = 1 THEN First(h) ELSE NextOf(hl.list[h][i - 1])
             /\ hlist_is_singular_node(hl, hl.list[h][i], h) <=> Len(hl.list[h]) = 1
(* The lock-less list is, newest first, what was added and not taken: no   *)
(* node is lost, taken twice, or on the list while its producer has it.    *)
LockLessExact ==
    /\ Chain([c \in {NextOf(n) : n \in HNodes} |-> hl.next[c[2]]], hl.first, 1 + Len(hl.stack)) = hl.stack
    /\ \A n \in HNodes : hl.own[n] = Null <=> n \in Range(hl.stack) \union Range(hl.got)
    /\ Range(hl.stack) \intersect Range(hl.got) = {} /\ IsInjective(hl.stack) /\ IsInjective(hl.got)
HListsExact == IF hl.kind = "hlist" THEN HashExact ELSE LockLessExact
=============================================================================
