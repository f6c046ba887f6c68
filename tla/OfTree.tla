------------------------------- MODULE OfTree -------------------------------
(***************************************************************************)
(* The kernel's device tree: unflattened once at boot, its properties then *)
(* added, removed and updated, its phandle cache refilled by lookups; and  *)
(* everything the lookups find in it compared with the tree it came from.  *)
(*                                                                         *)
(*   t      the device tree;  up  it has been unflattened                  *)
(*   d      the kernel's: node, cache, and what of_alias_scan left         *)
(*   want   the properties each node must have, by its place in t          *)
(***************************************************************************)
EXTENDS Fdt

-----------------------------------------------------------------------------
(* Readers of properties (drivers/of/property.c) and what base.c builds on *)
(* them: phandles and their cache, aliases, caches, requester id maps, and *)
(* the graph of ports and endpoints.                                       *)
CONSTANTS AliasOf        \* a property name as <<stem, id>>; id -1: no digits

-----------------------------------------------------------------------------
(* Readers: the value read, or an error.  Val is uniform: a record [e, v]. *)
Ok(v) == [e |-> 0, v |-> v]
Err(e) == [e |-> e, v |-> <<>>]

CountElemsOfSize(node, n, name, size) ==
    IF ~HasProp(node, n, name) \/ Len(GetProp(node, n, name)) % size # 0 THEN EINVAL
    ELSE Len(GetProp(node, n, name)) \div size

FindPropertyValueOfSize(node, n, name, min, max) ==
    IF ~HasProp(node, n, name) THEN Err(EINVAL)
    ELSE LET v == GetProp(node, n, name)
         IN IF Len(v) < min \/ (max # 0 /\ Len(v) > max) THEN Err(EOVERFLOW) ELSE Ok(v)
(* of_property_read_u32_index and _u64_index: w is the width in bytes.     *)
ReadIndex(node, n, name, index, w) ==
    LET r == FindPropertyValueOfSize(node, n, name, (index + 1) * w, 0)
    IN IF r.e < 0 THEN r ELSE Ok(<<Number(SubSeq(r.v, index * w + 1, (index + 1) * w))>>)
(* of_property_read_variable_{u8,u16,u32,u64}_array.                       *)
ReadArray(node, n, name, w, min, max) ==
    LET r == FindPropertyValueOfSize(node, n, name, min * w, max * w)
        sz == IF max = 0 THEN min ELSE Len(r.v) \div w
    IN IF r.e < 0 THEN r ELSE Ok([i \in 1..sz |-> Number(SubSeq(r.v, (i - 1) * w + 1, i * w))])

ReadString(node, n, name) ==
    IF ~HasProp(node, n, name) THEN Err(EINVAL)
    ELSE LET v == GetProp(node, n, name)
         IN IF 0 \notin Range(v) THEN Err(EILSEQ) ELSE Ok(CString(v))

(* of_property_match_string: from byte p, having passed i strings.         *)
RECURSIVE MatchFrom(_, _, _)
MatchFrom(v, i, str) ==
    IF v = <<>> THEN ENODATA
    ELSE IF 0 \notin Range(v) THEN EILSEQ
    ELSE IF CString(v) = str THEN i
    ELSE MatchFrom(SubSeq(v, Len(CString(v)) + 2, Len(v)), i + 1, str)
MatchString(node, n, name, str) ==
    IF ~HasProp(node, n, name) THEN EINVAL ELSE MatchFrom(GetProp(node, n, name), 0, str)
(* of_property_read_string_helper: at most limit strings, counted in i;    *)
(* limit -1 stands for no output array.                                    *)
RECURSIVE StringsFrom(_, _, _, _, _)
StringsFrom(v, i, skip, limit, out) ==
    IF v = <<>> \/ (limit >= 0 /\ i >= skip + limit)
    THEN IF i - skip <= 0 THEN Err(ENODATA) ELSE [e |-> i - skip, v |-> out]
    ELSE IF 0 \notin Range(v) THEN Err(EILSEQ)
    ELSE StringsFrom(SubSeq(v, Len(CString(v)) + 2, Len(v)), i + 1, skip, limit,
                     IF limit >= 0 /\ i >= skip THEN Append(out, CString(v)) ELSE out)
ReadStringHelper(node, n, name, limit, skip) ==
    IF ~HasProp(node, n, name) THEN Err(EINVAL) ELSE StringsFrom(GetProp(node, n, name), 0, skip, limit, <<>>)

(* of_prop_next_u32 and of_prop_next_string: all that the iteration over a *)
(* property with a value yields.                                           *)
RECURSIVE U32From(_, _)
U32From(v, cur) ==
    <<ReadNumber(v, cur, 1)>> \o IF (cur + 1) * Word >= Len(v) THEN <<>> ELSE U32From(v, cur + 1)
RECURSIVE NextStringsFrom(_, _)
NextStringsFrom(v, cur) ==
    LET s == CString(SubSeq(v, cur + 1, Len(v)))
    IN <<s>> \o IF cur + Len(s) + 1 >= Len(v) THEN <<>> ELSE NextStringsFrom(v, cur + Len(s) + 1)

-----------------------------------------------------------------------------
(* The phandle cache: one entry per masked phandle, filled from the tree   *)
(* and refilled by every lookup that had to walk it.                       *)
RoundupPow2(n) == CHOOSE p \in {1, 2, 4, 8, 16} : p >= n /\ \A q \in {1, 2, 4, 8, 16} : q >= n => p <= q
Phandled(node) == SelectSeq(AllFrom(node, NULL), LAMBDA n : node[n].phandle # 0)
PopulatePhandleCache(node) ==
    LET count == RoundupPow2(Len(Phandled(node)))
    IN  IF Phandled(node) = <<>> THEN <<>>
        ELSE FoldLeft(LAMBDA c, n : [c EXCEPT ![(node[n].phandle % count) + 1] = n],
                      [i \in 1..count |-> NULL], Phandled(node))
Slot(cache, handle) == (handle % Len(cache)) + 1
Cached(d, handle) ==
    /\ d.cache # <<>> /\ d.cache[Slot(d.cache, handle)] # NULL
    /\ d.node[d.cache[Slot(d.cache, handle)]].phandle = handle
FindNodeByPhandle(d, handle) ==
    IF handle = 0 THEN NULL
    ELSE IF Cached(d, handle) THEN d.cache[Slot(d.cache, handle)]
    ELSE FirstOr(SelectSeq(AllFrom(d.node, NULL), LAMBDA n : d.node[n].phandle = handle))
CacheAfter(d, handle) ==
    LET n == FindNodeByPhandle(d, handle)
    IN IF d.cache = <<>> \/ n = NULL \/ Cached(d, handle) THEN d.cache
       ELSE [d.cache EXCEPT ![Slot(d.cache, handle)] = n]

(* of_phandle_iterator_next from cell cur: [e, ph, node, count, end].      *)
NoCells == ""
IteratorNext(d, v, cells, fixed, cur) ==
    LET ph == ReadNumber(v, cur, 1)
    IN  Bind(FindNodeByPhandle(d, ph), LAMBDA n :
    Bind(ReadU32(d.node, n, cells), LAMBDA own :
    LET count == IF ph = 0 THEN 0 ELSE IF cells = NoCells THEN fixed ELSE IF own = <<>> THEN -1 ELSE own[1]
        stop(e) == [e |-> e, ph |-> 0, node |-> NULL, count |-> 0, end |-> cur]
    IN  IF cur >= NCells(v) THEN stop(ENOENT)
        ELSE IF (ph # 0 /\ cells # NoCells /\ (n = NULL \/ count < 0)) \/ cur + 1 + count > NCells(v)
        THEN stop(EINVAL)
        ELSE [e |-> 0, ph |-> ph, node |-> n, count |-> count, end |-> cur + 1 + count]))
(* __of_parse_phandle_with_args: the node and its arguments, or an error.  *)
RECURSIVE ParseFrom(_, _, _, _, _, _)
ParseFrom(d, v, cells, fixed, cur, index) ==
    Bind(IteratorNext(d, v, cells, fixed, cur), LAMBDA it :
        IF it.e < 0 THEN Err(it.e)
        ELSE IF index > 0 THEN ParseFrom(d, v, cells, fixed, it.end, index - 1)
        ELSE IF it.ph = 0 THEN Err(ENOENT)
        ELSE Ok(<<it.node>> \o [i \in 1..it.count |-> ReadNumber(v, cur + i, 1)]))
ParsePhandleWithArgs(d, n, name, cells, fixed, index) ==
    IF index < 0 THEN Err(EINVAL)
    ELSE IF ~HasProp(d.node, n, name) THEN Err(ENOENT)
    ELSE ParseFrom(d, GetProp(d.node, n, name), cells, fixed, 0, index)
ParsePhandle(d, n, name, index) ==
    Bind(ParsePhandleWithArgs(d, n, name, NoCells, 0, index), LAMBDA r : IF r.e < 0 THEN NULL ELSE r.v[1])
RECURSIVE CountFrom(_, _, _, _)
CountFrom(d, v, cells, cur) ==
    Bind(IteratorNext(d, v, cells, 0, cur), LAMBDA it :
       LET rest == CountFrom(d, v, cells, it.end)
       IN IF it.e = ENOENT THEN 0 ELSE IF it.e < 0 THEN it.e ELSE IF rest < 0 THEN rest ELSE 1 + rest)
CountPhandleWithArgs(d, n, name, cells) ==
    IF ~HasProp(d.node, n, name) THEN ENOENT ELSE CountFrom(d, GetProp(d.node, n, name), cells, 0)

(* of_find_next_cache_node and of_find_last_cache_level.                   *)
FindNextCacheNode(d, n) ==
    FirstOr(SelectSeq(<<ParsePhandle(d, n, "l2-cache", 0), ParsePhandle(d, n, "next-level-cache", 0)>>,
                      LAMBDA c : c # NULL))
RECURSIVE LastCacheNode(_, _)
LastCacheNode(d, n) ==
    Bind(FindNextCacheNode(d, n), LAMBDA next : IF next = NULL THEN n ELSE LastCacheNode(d, next))
FindLastCacheLevel(d, cpu) ==
    LET np == GetCpuNode(d.node, cpu)
    IN  Bind(IF np = NULL THEN <<>> ELSE ReadU32(d.node, LastCacheNode(d, np), "cache-level"), LAMBDA level :
        IF level = <<>> THEN 0 ELSE level[1])

(* of_map_rid with an output id and the target node wanted (NULL: any).    *)
(* Masks are powers of two less one.                                       *)
RECURSIVE MapFrom(_, _, _, _, _)
MapFrom(d, map, mask, rid, target) ==
    LET base == ReadNumber(map, 0, 1)
        n == FindNodeByPhandle(d, ReadNumber(map, 1, 1))
        next == MapFrom(d, SubSeq(map, 4 * Word + 1, Len(map)), mask, rid, target)
    IN  IF map = <<>> \/ base > mask THEN Err(EFAULT)
        ELSE IF rid < base \/ rid >= base + ReadNumber(map, 3, 1) THEN next
        ELSE IF n = NULL THEN Err(ENODEV)
        ELSE IF target # NULL /\ n # target THEN next
        ELSE Ok(<<n, rid - base + ReadNumber(map, 2, 1)>>)
MapRid(d, n, rid, name, mask_name, target) ==
    IF ~HasProp(d.node, n, name) THEN Err(ENODEV)
    ELSE LET map == GetProp(d.node, n, name)
             own == ReadU32(d.node, n, mask_name)
             mask == IF own = <<>> THEN 255 ELSE own[1]
         IN IF map = <<>> \/ Len(map) % (4 * Word) # 0 THEN Err(EINVAL)
            ELSE MapFrom(d, map, mask, rid % (mask + 1), target)

(* of_alias_scan: the list of aliases, in the order of the properties.     *)
AliasScan(node) ==
    LET al == FindNodeByPath(node, <<AliasesName>>)
        ch == IF FindNodeByPath(node, <<Chosen>>) # NULL THEN FindNodeByPath(node, <<Chosen>>)
              ELSE FindNodeByPath(node, <<ChosenAt0>>)
        out(name) == ReadString(node, ch, name)
        path == IF ch = NULL THEN Err(EINVAL)
                ELSE IF out("stdout-path").e = 0 THEN out("stdout-path") ELSE out("linux,stdout-path")
        good == IF al = NULL THEN <<>>
                ELSE SelectSeq(node[al].props,
                               LAMBDA q : /\ q[1] \notin {"name", "phandle", "linux,phandle"}
                                          /\ FindNodeByPath(node, CString(q[2])) # NULL
                                          /\ AliasOf[q[1]][2] >= 0)
    IN  [of_aliases |-> al, of_chosen |-> ch,
         of_stdout |-> IF path.e < 0 THEN NULL ELSE FindNodeByPath(node, path.v),
         list |-> [i \in DOMAIN good |-> [stem |-> AliasOf[good[i][1]][1], id |-> AliasOf[good[i][1]][2],
                                          np |-> FindNodeByPath(node, CString(good[i][2]))]]]
AliasGetId(list, n, stem) ==
    LET i == SelectInSeq(list, LAMBDA a : a.stem = stem /\ a.np = n) IN IF i = 0 THEN ENODEV ELSE list[i].id
AliasGetHighestId(list, stem) ==
    FoldLeft(LAMBDA id, a : IF a.stem = stem /\ a.id > id THEN a.id ELSE id, ENODEV, list)
AliasGetList(node, list, table, stem, nbits) ==
    LET hit == {i \in DOMAIN list : list[i].stem = stem /\ MatchNode(node, list[i].np, table) # 0}
        over == {i \in hit : list[i].id >= nbits}
    IN [e |-> IF over = {} THEN 0 ELSE EOVERFLOW, v |-> {list[i].id : i \in hit \ over}]

-----------------------------------------------------------------------------
(* The graph of ports and endpoints.                                       *)
GraphParent(node, n) == IF GetChildByName(node, n, Ports) # NULL THEN GetChildByName(node, n, Ports) ELSE n
GraphReg(node, n) == IF ReadU32(node, n, "reg") = <<>> THEN 0 ELSE ReadU32(node, n, "reg")[1]
GraphGetPortById(node, n, id) ==
    FirstOr(SelectSeq(Kids(node, GraphParent(node, n)), LAMBDA p : NameEq(node, p, Port) /\ GraphReg(node, p) = id))
RECURSIVE NextPort(_, _)
NextPort(node, p) ==
    LET s == node[p].sibling IN IF s = NULL \/ NameEq(node, s, Port) THEN s ELSE NextPort(node, s)
RECURSIVE EndpointUnder(_, _)
EndpointUnder(node, p) ==
    IF p = NULL THEN NULL ELSE IF node[p].child # NULL THEN node[p].child ELSE EndpointUnder(node, NextPort(node, p))
GraphGetNextEndpoint(node, n, prev) ==
    IF prev = NULL THEN EndpointUnder(node, GetChildByName(node, GraphParent(node, n), Port))
    ELSE IF node[prev].sibling # NULL THEN node[prev].sibling
    ELSE EndpointUnder(node, NextPort(node, node[prev].parent))
RECURSIVE EndpointsFrom(_, _, _)
EndpointsFrom(node, n, prev) ==
    LET e == GraphGetNextEndpoint(node, n, prev) IN IF e = NULL THEN <<>> ELSE <<e>> \o EndpointsFrom(node, n, e)
GraphGetEndpointByRegs(node, n, port, reg) ==
    FirstOr(SelectSeq(EndpointsFrom(node, n, NULL),
                      LAMBDA e : /\ port = -1 \/ GraphReg(node, node[e].parent) = port
                                 /\ reg = -1 \/ GraphReg(node, e) = reg))
UpFrom(node, n) == IF n = NULL THEN NULL ELSE node[n].parent
(* of_graph_get_port_parent: three levels up only past a ports node.       *)
GraphGetPortParent(node, n) ==
    LET two == UpFrom(node, UpFrom(node, n)) IN IF NameEq(node, two, Ports) THEN UpFrom(node, two) ELSE two
GraphGetRemotePort(d, n) == UpFrom(d.node, ParsePhandle(d, n, "remote-endpoint", 0))
GraphGetRemoteNode(d, n, port, reg) ==
    LET e == GraphGetEndpointByRegs(d.node, n, port, reg)
        remote == GraphGetPortParent(d.node, ParsePhandle(d, e, "remote-endpoint", 0))
    IN IF e = NULL \/ ~DeviceIsAvailable(d.node, remote) THEN NULL ELSE remote
(* of_fwnode_graph_get_port_parent, given a port.                          *)
FwnodePortParent(node, p) ==
    IF NameEq(node, UpFrom(node, p), Ports) THEN UpFrom(node, UpFrom(node, p)) ELSE UpFrom(node, p)
FwnodeNamedChild(node, n, name) ==
    FirstOr(SelectSeq(AvailableChildren(node, n), LAMBDA k : NameEq(node, k, name)))

-----------------------------------------------------------------------------
CONSTANTS Trees, MaxEdits,
          Edits,     \* the properties <<name, value>> that may be added or updated
          Refs,      \* the entries <<phandle, arguments>> a "list" property encodes
          Table      \* a match table: a sequence of [c, t, n]

VARIABLE os

NoTree == [node |-> <<>>, cache |-> <<>>,
           alias |-> [of_aliases |-> NULL, of_chosen |-> NULL, of_stdout |-> NULL, list |-> <<>>]]
NewProps(node) == Range(node.p) \union
    IF Prop(node, "name") = 0 THEN {<<"name", <<Base[node.n], 0>>>>} ELSE {}

OfInit == \E t \in Trees : os = [t |-> t, up |-> FALSE, d |-> NoTree, edits |-> 0, ok |-> TRUE,
                               want |-> [i \in DOMAIN PathsOf(t) |-> NewProps(At(t, PathsOf(t)[i]))]]

(* unflatten_device_tree                                                   *)
UnflattenDeviceTree ==
    /\ ~os.up
    /\ \E node \in {Unflatten(FlatTree(os.t))} :
        os' = [os EXCEPT !.up = TRUE,
                         !.d = [node |-> node, alias |-> AliasScan(node), cache |-> PopulatePhandleCache(node)]]

-----------------------------------------------------------------------------
(* Editing properties.  Each compares its result with the set of           *)
(* properties the node must have.                                          *)
EditProps == {e[1] : e \in Edits}
Value(set, name) == {q \in set : q[1] = name}
Edited(n, np, ok, set) ==
    /\ os.up /\ os.edits < MaxEdits
    /\ os' = [os EXCEPT !.d.node[n] = np, !.ok = ok, !.edits = @ + 1, !.want[n] = set]

(* of_add_property                                                         *)
AddPropertyRc(node, n, name) == IF FindProperty(node, n, name) # 0 THEN EEXIST ELSE 0
OfAddProperty(n, name, val) ==
    LET np == os.d.node[n]
        rc == AddPropertyRc(os.d.node, n, name)
    IN Edited(n, IF rc < 0 THEN np ELSE [np EXCEPT !.props = Append(@, <<name, val>>)],
              rc = IF Value(os.want[n], name) # {} THEN EEXIST ELSE 0,
              IF Value(os.want[n], name) # {} THEN os.want[n] ELSE os.want[n] \union {<<name, val>>})

(* of_remove_property of the property of_find_property gives.              *)
OfRemoveProperty(n, name) ==
    LET np == os.d.node[n]
        i == FindProperty(os.d.node, n, name)
    IN Edited(n, IF i = 0 THEN np
                 ELSE [np EXCEPT !.props = SubSeq(@, 1, i - 1) \o SubSeq(@, i + 1, Len(@)),
                                 !.dead = <<np.props[i]>> \o @],
              (i = 0) = (Value(os.want[n], name) = {}), os.want[n] \ Value(os.want[n], name))

(* of_update_property                                                      *)
OfUpdateProperty(n, name, val) ==
    LET np == os.d.node[n]
        i == FindProperty(os.d.node, n, name)
    IN Edited(n, IF i = 0 THEN [np EXCEPT !.props = Append(@, <<name, val>>)]
                 ELSE [np EXCEPT !.props[i] = <<name, val>>, !.dead = <<np.props[i]>> \o @],
              TRUE, (os.want[n] \ Value(os.want[n], name)) \union {<<name, val>>})

(* of_find_node_by_phandle: the cache takes what the walk found.           *)
Lookup(handle) == os.up /\ os' = [os EXCEPT !.d.cache = CacheAfter(os.d, handle)]

Handles == {n.phandle : n \in Range(os.d.node)}
OfNext ==
    \/ UnflattenDeviceTree
    \/ \E n \in DOMAIN os.d.node, e \in Edits :
        OfAddProperty(n, e[1], e[2]) \/ OfUpdateProperty(n, e[1], e[2])
    \/ \E n \in DOMAIN os.d.node, name \in EditProps : OfRemoveProperty(n, name)
    \/ \E h \in Handles : Lookup(h)

-----------------------------------------------------------------------------
(* What the tree t and the wanted properties say, node i being the i-th of *)
(* t in document order.                                                    *)
Has(w, i, name) == \E q \in w[i] : q[1] = name
Val(w, i, name) == (CHOOSE q \in w[i] : q[1] = name)[2]
Index(P, path) == SelectInSeq(P, LAMBDA q : q = path)
ChildIds(P, i) == SelectSeq([j \in DOMAIN P |-> j], LAMBDA j : P[j] # <<>> /\ Front(P[j]) = P[i])
ParentId(P, i) == IF P[i] = <<>> THEN NULL ELSE Index(P, Front(P[i]))
LeastId(S) == IF S = {} THEN NULL ELSE CHOOSE i \in S : \A j \in S : i <= j
FirstString(v) == SubSeq(v, 1, LeastId({i \in DOMAIN v : v[i] = 0}) - 1)
BaseIs(t, P, i, name) == Base[At(t, P[i]).n] = name
TypeIs(w, i, str) == Has(w, i, "device_type") /\ FirstString(Val(w, i, "device_type")) = str
Available(w, i) == Has(w, i, "status") => /\ 0 \in Range(Val(w, i, "status"))
                                          /\ FirstString(Val(w, i, "status")) \in {OkayStr, OkStr}
Compatible(w, i, str) == Has(w, i, "compatible") /\ InList(Val(w, i, "compatible"), str)
PhandleOf(t, P, i) == LET v == PropOr(At(t, P[i]), "phandle", <<>>) IN IF v = <<>> THEN 0 ELSE v[1] * 16 + v[2]
ByHandle(t, P, h) == LeastId({i \in DOMAIN P : h # 0 /\ PhandleOf(t, P, i) = h})
(* The nearest node at or above path that has the property, else root.     *)
Nearest(w, P, path, name) ==
    LET good == {k \in 0..Len(path) : Has(w, Index(P, SubSeq(path, 1, k)), name)}
    IN IF good = {} THEN 0 ELSE Index(P, SubSeq(path, 1, CHOOSE k \in good : \A j \in good : j <= k))

(* of_match_node prefers, in this order: an earlier string of the node's   *)
(* compatible list, a type, a name, and among equals the earlier entry.    *)
Where(w, i, str) == CHOOSE e \in DOMAIN Val(w, i, "compatible") :
    LET v == Val(w, i, "compatible")
    IN v[e] = 0 /\ e > Len(str) /\ SubSeq(v, e - Len(str), e - 1) = str
Fits(t, w, P, i, m) == /\ m.c # AnyStr => Compatible(w, i, m.c)
                       /\ m.t # AnyStr => TypeIs(w, i, m.t)
                       /\ m.n # AnyStr => BaseIs(t, P, i, m.n[1])
                       /\ \E x \in {m.c, m.t, m.n} : x # AnyStr
Bit(x) == IF x = AnyStr THEN 0 ELSE 1
Better(w, i, a, b) ==
    \/ a.c # AnyStr /\ b.c = AnyStr
    \/ a.c # AnyStr /\ b.c # AnyStr /\ Where(w, i, a.c) < Where(w, i, b.c)
    \/ a.c = b.c /\ 2 * Bit(a.t) + Bit(a.n) > 2 * Bit(b.t) + Bit(b.n)
BestEntry(t, w, P, i) ==
    LET fit == {k \in DOMAIN Table : Fits(t, w, P, i, Table[k])}
    IN LeastId({k \in fit : \A j \in fit : ~Better(w, i, Table[j], Table[k])})

-----------------------------------------------------------------------------
StructureExact(t, P, w, d) ==
    /\ Len(d.node) = Len(P)
    /\ AllFrom(d.node, NULL) = [i \in DOMAIN P |-> i]
    /\ \A i \in DOMAIN P :
        /\ d.node[i].name = At(t, P[i]).n
        /\ d.node[i].parent = ParentId(P, i)
        /\ Kids(d.node, i) = ChildIds(P, i)
        /\ d.node[i].phandle = PhandleOf(t, P, i)
        /\ Range(d.node[i].props) = w[i] /\ Len(d.node[i].props) = Cardinality(w[i])
        /\ FindNodeByPath(d.node, Names(t, P[i])) = i

WalksExact(t, P, w, d) ==
    LET after(from, S) == LeastId({i \in S : i > from})
        ids == DOMAIN P
    IN  \A from \in ids \union {NULL} :
        /\ \A i \in ids : FindNodeByName(d.node, from, Base[At(t, P[i]).n])
                            = after(from, {j \in ids : BaseIs(t, P, j, Base[At(t, P[i]).n])})
        /\ FindNodeByType(d.node, from, CpuStr) = after(from, {j \in ids : TypeIs(w, j, CpuStr)})
        /\ \A m \in Range(Table) :
            FindCompatibleNode(d.node, from, m.t, m.c) =
                after(from, {j \in ids : Fits(t, w, P, j, [m EXCEPT !.n = AnyStr])})
        /\ FindMatchingNode(d.node, from, Table)
            = after(from, {j \in ids : \E m \in Range(Table) : Fits(t, w, P, j, m)})
        /\ \A name \in EditProps :
            FindNodeWithProperty(d.node, from, name) = after(from, {j \in ids : Has(w, j, name)})

NodesExact(t, P, w, d) == \A i \in DOMAIN P :
    /\ AvailableChildren(d.node, i) = SelectSeq(ChildIds(P, i), LAMBDA k : Available(w, k))
    /\ FwnodeNamedChild(d.node, i, Port)
        = LeastId({k \in Range(ChildIds(P, i)) : Available(w, k) /\ BaseIs(t, P, k, Port)})
    /\ \A name \in {"#address-cells", "#size-cells"} :
        NCellsUp(d.node, i, name) =
            LET n == Nearest(w, P, IF P[i] = <<>> THEN <<>> ELSE Front(P[i]), name)
            IN IF n = 0 THEN 1 ELSE Number(Val(w, n, name))
    /\ MatchNode(d.node, i, Table) = BestEntry(t, w, P, i)
    /\ \A m \in Range(Table) :
        m.c # AnyStr =>
            /\ (DeviceIsCompatible(d.node, i, m.c) # 0) = Compatible(w, i, m.c)
            /\ GetCompatibleChild(d.node, i, m.c) =
                LeastId({k \in Range(ChildIds(P, i)) : Compatible(w, k, m.c)})
    /\ (DeviceCompatibleMatch(d.node, i, [k \in DOMAIN Table |-> Table[k].c]) # 0)
        = \E m \in Range(Table) : m.c # AnyStr /\ Compatible(w, i, m.c)
    /\ Has(w, i, "compatible") => IsSuffix(ModaliasNode(d.node, i), FirstString(Val(w, i, "compatible")))
    /\ Comma \notin Range(ModaliasNode(d.node, i))

(* Refs in cells, and the entry for which a node is the provider.          *)
Bytes(x) == <<x \div 16, x % 16>>
EncodeRefs == FlattenSeq([k \in DOMAIN Refs |->
                Bytes(Refs[k][1]) \o FlattenSeq([j \in DOMAIN Refs[k][2] |-> Bytes(Refs[k][2][j])])])
PhandlesExact(t, P, w, d) ==
    /\ \A h \in 0..9 : FindNodeByPhandle(d, h) = ByHandle(t, P, h)
    /\ \A i \in DOMAIN P : Has(w, i, "list") /\ Val(w, i, "list") = EncodeRefs =>
        /\ CountPhandleWithArgs(d, i, "list", "#cells") = Len(Refs)
        /\ \A k \in 0..Len(Refs) :
            ParsePhandleWithArgs(d, i, "list", "#cells", 0, k) =
                IF k = Len(Refs) \/ Refs[k + 1][1] = 0 THEN Err(ENOENT)
                ELSE Ok(<<ByHandle(t, P, Refs[k + 1][1])>> \o Refs[k + 1][2])
        /\ ParsePhandle(d, i, "list", 0) = ByHandle(t, P, Refs[1][1])
        /\ ParsePhandleWithArgs(d, i, "list", NoCells, Len(Refs[1][2]), 0)
            = Ok(<<ByHandle(t, P, Refs[1][1])>> \o Refs[1][2])
    /\ \A i \in DOMAIN P : CountPhandleWithArgs(d, i, "nolist", "#cells") = ENOENT

AliasesExact(t, P, w, d) ==
    LET byPath(v) == LeastId({i \in DOMAIN P : Names(t, P[i]) = FirstString(v)})
        top(name) == LeastId({i \in DOMAIN P : Len(P[i]) = 1 /\ At(t, P[i]).n = name})
        al == IF top(AliasesName) = NULL THEN <<>> ELSE At(t, P[top(AliasesName)]).p
        ch == IF top(Chosen) = NULL THEN top(ChosenAt0) ELSE top(Chosen)
        good == {k \in DOMAIN al : /\ al[k][1] \in DOMAIN AliasOf /\ AliasOf[al[k][1]][2] >= 0
                                   /\ byPath(al[k][2]) # NULL}
        stem(k) == AliasOf[al[k][1]][1]
        id(k) == AliasOf[al[k][1]][2]
        list == d.alias.list
    IN  /\ d.alias.of_chosen = ch
        /\ d.alias.of_stdout = IF ch = NULL \/ Prop(At(t, P[ch]), "stdout-path") = 0 THEN NULL
                               ELSE byPath(PropOr(At(t, P[ch]), "stdout-path", <<>>))
        /\ \A s \in {a[1] : a \in Range(AliasOf)} :
            LET mine == {k \in good : stem(k) = s}
            IN  /\ \A i \in DOMAIN P :
                    LET of == {k \in mine : byPath(al[k][2]) = i}
                    IN AliasGetId(list, i, s) = IF of = {} THEN ENODEV ELSE id(LeastId(of))
                /\ mine # {} => /\ \E k \in mine : AliasGetHighestId(list, s) = id(k)
                                /\ \A k \in mine : AliasGetHighestId(list, s) >= id(k)
                /\ AliasGetList(d.node, list, Table, s, 2).v =
                    {id(k) : k \in {k \in mine : id(k) < 2 /\ \E m \in Range(Table) :
                                                    Fits(t, w, P, byPath(al[k][2]), m)}}
        /\ \A k \in DOMAIN al :
            al[k][1] \in DOMAIN AliasOf =>
            FindNodeByAlias([node |-> d.node, of_aliases |-> d.alias.of_aliases], al[k][1], <<>>)
                = IF Has(w, top(AliasesName), al[k][1]) THEN byPath(Val(w, top(AliasesName), al[k][1])) ELSE NULL

CpusExact(t, P, w, d) ==
    LET cpus == {i \in DOMAIN P : /\ Len(P[i]) = 2 /\ At(t, SubSeq(P[i], 1, 1)).n = CpusNode
                                  /\ BaseIs(t, P, i, CpuNode) \/ TypeIs(w, i, CpuStr)}
        reg(i) == Number(Val(w, i, "reg"))
    IN  /\ Range(CpuNodes(d.node)) = cpus
        /\ \A c \in 0..2 : GetCpuNode(d.node, c) = LeastId({i \in cpus : Has(w, i, "reg") /\ reg(i) = c})
        /\ \A i \in cpus : CpuNodeToId(d.node, i, {0, 1}) =
            IF Has(w, i, "reg") /\ reg(i) \in {0, 1} /\ i = LeastId({j \in cpus : Has(w, j, "reg") /\ reg(j) = reg(i)})
            THEN reg(i) ELSE ENODEV
        (* One cache node per step of the chain of caches, the last with   *)
        (* its level.                                                      *)
        /\ \A i \in DOMAIN P : Has(w, i, "next-level-cache") /\ i \in cpus /\ Has(w, i, "reg")
                               /\ GetCpuNode(d.node, reg(i)) = i =>
            LET last == ByHandle(t, P, Number(Val(w, i, "next-level-cache")))
            IN Has(w, last, "cache-level") => FindLastCacheLevel(d, reg(i)) = Number(Val(w, last, "cache-level"))

(* A requester id goes through the first entry of the map that holds it,   *)
(* and that leads to the target when one is asked for.                     *)
MapsExact(t, P, w, d) == \A i \in DOMAIN P : Has(w, i, "map") =>
    LET v == Val(w, i, "map")
        cell(k, j) == Number(SubSeq(v, (4 * k + j) * Word + 1, (4 * k + j + 1) * Word))
        mask == IF Has(w, i, "map-mask") THEN Number(Val(w, i, "map-mask")) ELSE 255
        entries == 0..((Len(v) \div (4 * Word)) - 1)
    IN  \A rid \in 0..8, target \in DOMAIN P \union {NULL} :
        LET r == MapRid(d, i, rid, "map", "map-mask", target)
            x == rid % (mask + 1)
            hit == {k \in entries : /\ x \in cell(k, 0)..(cell(k, 0) + cell(k, 3) - 1)
                                   /\ target \in {NULL, ByHandle(t, P, cell(k, 1))}}
            first == CHOOSE k \in hit : \A j \in hit : k <= j
        IN r = IF hit = {} THEN Err(EFAULT)
               ELSE Ok(<<ByHandle(t, P, cell(first, 1)), x - cell(first, 0) + cell(first, 2)>>)

(* Reads of the values the properties hold.                                *)
ValuesExact(P, w, d) == \A i \in DOMAIN P, name \in EditProps :
    LET has == Has(w, i, name)
        v == IF has THEN Val(w, i, name) ELSE <<>>
        zeros == {b \in DOMAIN v : v[b] = 0}
        n == d.node
    IN  IF ~has THEN /\ ReadIndex(n, i, name, 0, Word).e = EINVAL /\ ReadString(n, i, name).e = EINVAL
                     /\ ReadArray(n, i, name, 1, 1, 0).e = EINVAL /\ MatchString(n, i, name, <<1>>) = EINVAL
        ELSE /\ \A wd \in {1, 2, 4}, k \in 0..2 :
                /\ ReadIndex(n, i, name, k, wd) = IF (k + 1) * wd > Len(v) THEN Err(EOVERFLOW)
                                                 ELSE Ok(<<Number(SubSeq(v, k * wd + 1, (k + 1) * wd))>>)
                /\ LET r == ReadArray(n, i, name, wd, k, 0)
                   IN (r.e = 0) = (k * wd <= Len(v)) /\ (r.e = 0 => Len(r.v) = k)
                /\ LET r == ReadArray(n, i, name, wd, 1, 2)
                   IN (r.e = 0) = (Len(v) \in wd..(2 * wd)) /\ (r.e = 0 => Len(r.v) = Len(v) \div wd)
                /\ (CountElemsOfSize(n, i, name, wd) = EINVAL) = (Len(v) % wd # 0)
             /\ ReadString(n, i, name) = IF zeros = {} THEN Err(EILSEQ) ELSE Ok(FirstString(v))
             /\ Terminated(v) =>
                /\ ReadStringHelper(n, i, name, -1, 0).e = Cardinality(zeros)
                /\ Len(NextStringsFrom(v, 0)) = Cardinality(zeros)
                /\ \A s \in {<<1>>, <<2>>, <<9>>} : (MatchString(n, i, name, s) >= 0) = InList(v, s)
                /\ ReadStringHelper(n, i, name, 1, 1) =
                    IF Cardinality(zeros) < 2 THEN Err(ENODATA)
                    ELSE [e |-> 1, v |-> <<FirstString(SubSeq(v, LeastId(zeros) + 1, Len(v)))>>]
             /\ ~Terminated(v) /\ v # <<>> => ReadStringHelper(n, i, name, -1, 0).e = EILSEQ
             /\ v # <<>> /\ Len(v) % Word = 0 =>
                U32From(v, 0) = [k \in 1..(Len(v) \div Word) |-> Number(SubSeq(v, (k - 1) * Word + 1, k * Word))]

(* The graph: the endpoints of a device are the children of its ports.     *)
GraphExact(t, P, w, d) == \A i \in DOMAIN P :
    LET hub == LET p == {k \in Range(ChildIds(P, i)) : BaseIs(t, P, k, Ports)} IN IF p = {} THEN i ELSE LeastId(p)
        ports == SelectSeq(ChildIds(P, hub), LAMBDA k : BaseIs(t, P, k, Port))
        ends == FlattenSeq([k \in DOMAIN ports |-> ChildIds(P, ports[k])])
        reg(k) == IF Has(w, k, "reg") /\ Len(Val(w, k, "reg")) >= Word
                  THEN Number(SubSeq(Val(w, k, "reg"), 1, Word)) ELSE 0
        device(e) == IF BaseIs(t, P, ParentId(P, ParentId(P, e)), Ports)
                     THEN ParentId(P, ParentId(P, ParentId(P, e))) ELSE ParentId(P, ParentId(P, e))
        far(e) == IF Has(w, e, "remote-endpoint") THEN ByHandle(t, P, Number(Val(w, e, "remote-endpoint"))) ELSE NULL
    IN  ports # <<>> /\ ~BaseIs(t, P, i, Ports) =>
        /\ EndpointsFrom(d.node, i, NULL) = ends
        /\ \A r \in 0..1 :
            /\ GraphGetPortById(d.node, i, r) = LeastId({p \in Range(ports) : reg(p) = r})
            /\ GraphGetEndpointByRegs(d.node, i, r, -1) = LeastId({e \in Range(ends) : reg(ParentId(P, e)) = r})
        /\ \A p \in Range(ports) : FwnodePortParent(d.node, p) = i
        /\ \A e \in Range(ends) : far(e) # NULL =>
            /\ GraphGetPortParent(d.node, e) = i
            /\ GraphGetRemotePort(d, e) = ParentId(P, far(e))
            /\ GraphGetRemoteNode(d, i, reg(ParentId(P, e)), reg(e)) \in {device(far(e)), NULL}

(* The kernel's device tree is the tree it was flattened from, after any   *)
(* edits of properties and whatever the phandle cache holds: the links     *)
(* between nodes (unflatten_dt_nodes, reverse_nodes), and every walk and   *)
(* lookup of base.c and property.c, by path, name, type, compatible list,  *)
(* phandle, alias, cpu, list of phandles with arguments, id map or graph,  *)
(* and every reader of a value, find what that tree and those edits say.   *)
OfExact ==
    os.up => \E P \in {PathsOf(os.t)} :
        /\ os.ok
        /\ StructureExact(os.t, P, os.want, os.d)
        /\ WalksExact(os.t, P, os.want, os.d)
        /\ NodesExact(os.t, P, os.want, os.d)
        /\ PhandlesExact(os.t, P, os.want, os.d)
        /\ AliasesExact(os.t, P, os.want, os.d)
        /\ CpusExact(os.t, P, os.want, os.d)
        /\ MapsExact(os.t, P, os.want, os.d)
        /\ ValuesExact(P, os.want, os.d)
        /\ GraphExact(os.t, P, os.want, os.d)
=============================================================================
