------------------------------ MODULE FdtEdit ------------------------------
(***************************************************************************)
(* A device tree written with the sequential functions of libfdt and then  *)
(* edited with the read-write and in-place ones, beside the tree of nodes  *)
(* it stands for.                                                          *)
(*                                                                         *)
(*   f     the flattened tree                                              *)
(*   tree  what it stands for: name n, properties p, children c            *)
(*   open  the position of the node the writer has open                    *)
(*   ok    every operation so far failed only for the reason it had        *)
(***************************************************************************)
EXTENDS Fdt, FiniteSetsExt, Functions

CONSTANTS NodeNames, PropNames, Vals, Sizes, FirstSize

VARIABLE fs

Matches(name, want) == name = want \/ (~HasUnit(want) /\ Base[name] = want)
Child(node, name) == SelectInSeq(node.c, LAMBDA k : Matches(k.n, name))

NoEntry == Leaf(-1)
Start == [f |-> Create(FirstSize), tree |-> NoEntry, open |-> <<>>, ok |-> TRUE]

-----------------------------------------------------------------------------
(* The sequential writer, called in the order its interface asks for.      *)

Writing == fs.f.magic = "sw"
(* An operation ran on the flat tree with result r.  It must have failed   *)
(* with err when the tree of nodes gives it that reason (err < 0), and     *)
(* otherwise have succeeded or run out of space.                           *)
Do(r, err, tree, open) ==
    fs' = [f |-> r.f,
           tree |-> IF r.ret < 0 THEN fs.tree ELSE tree,
           open |-> IF r.ret < 0 THEN fs.open ELSE open,
           ok |-> IF err < 0 THEN r.ret = err ELSE r.ret >= 0 \/ r.ret = NOSPACE]

DoAddReservemapEntry == Writing /\ ~fs.f.structs /\ Do(AddReservemapEntry(fs.f, 1), 0, fs.tree, fs.open)
DoFinishReservemap == Writing /\ ~fs.f.structs /\ Do(FinishReservemap(fs.f), 0, fs.tree, fs.open)
RootName == 0
Opened == fs.open # <<>>
Here == Tail(fs.open)
DoBeginNode(name) ==
    /\ Writing /\ fs.f.structs
    /\ \/ /\ fs.tree = NoEntry /\ name = RootName
          /\ Do(BeginNode(fs.f, name), 0, Leaf(name), <<1>>)
       \/ /\ Opened /\ name # RootName /\ Child(At(fs.tree, Here), name) = 0
          /\ Do(BeginNode(fs.f, name), 0,
                With(fs.tree, Here, [At(fs.tree, Here) EXCEPT !.c = Append(@, Leaf(name))]),
                Append(fs.open, Len(At(fs.tree, Here).c) + 1))
DoProperty(name, val) ==
    /\ Writing /\ Opened /\ At(fs.tree, Here).c = <<>> /\ Prop(At(fs.tree, Here), name) = 0
    /\ Do(Property(fs.f, name, val), 0,
          With(fs.tree, Here, [At(fs.tree, Here) EXCEPT !.p = Append(@, <<name, val>>)]), fs.open)
DoEndNode == Writing /\ Opened /\ Do(EndNode(fs.f), 0, fs.tree, Front(fs.open))
DoFinish == Writing /\ fs.tree # NoEntry /\ ~Opened /\ Do(Finish(fs.f), 0, fs.tree, <<>>)
(* fdt_create_empty_tree, in place of the calls above.                     *)
DoEmptyTree(size) == fs = Start /\ Do(EmptyTree(size), 0, Leaf(RootName), <<>>)
DoResize(size) == Writing /\ fs.f.total # size /\ Do(Resize(fs.f, size), 0, fs.tree, fs.open)

-----------------------------------------------------------------------------
(* Edits of the finished tree: each picks a node by its place i in the     *)
(* walk, which is also its place among the paths of the tree.              *)

Editing == fs.f.magic = "fdt"
Nodes == 1..Len(AllNodes(fs.f))
OffOf(i) == AllNodes(fs.f)[i]
Path(i) == PathsOf(fs.tree)[i]
Node(i) == At(fs.tree, Path(i))
Put(i, node) == With(fs.tree, Path(i), node)
Without(s, i) == SubSeq(s, 1, i - 1) \o SubSeq(s, i + 1, Len(s))

Missing(i, name) == IF Prop(Node(i), name) = 0 THEN NOTFOUND ELSE 0
PutProp(i, name, New(_)) == Put(i, [Node(i) EXCEPT !.p[Prop(Node(i), name)] = <<name, New(@[2])>>])
AddFirst(i, name, val) == Put(i, [Node(i) EXCEPT !.p = <<<<name, val>>>> \o @])

DoSetProp(i, name, val) ==
    Do(SetProp(fs.f, OffOf(i), name, val), 0,
       IF Missing(i, name) < 0 THEN AddFirst(i, name, val) ELSE PutProp(i, name, LAMBDA v : val), <<>>)
DoAppendProp(i, name, val) ==
    Do(AppendProp(fs.f, OffOf(i), name, val), 0,
       IF Missing(i, name) < 0 THEN AddFirst(i, name, val) ELSE PutProp(i, name, LAMBDA v : v \o val), <<>>)
DoDelProp(i, name, nop) ==
    Do(IF nop THEN NopProperty(fs.f, OffOf(i), name) ELSE DelProp(fs.f, OffOf(i), name), Missing(i, name),
       Put(i, [Node(i) EXCEPT !.p = Without(@, Prop(Node(i), name))]), <<>>)
DoSetPropInplace(i, name, val) ==
    Do(SetPropInplace(fs.f, OffOf(i), name, val), Missing(i, name), PutProp(i, name, LAMBDA v : val), <<>>)
DoSetPropInplacePartial(i, name, idx, val) ==
    Do(SetPropInplacePartial(fs.f, OffOf(i), name, idx, val), Missing(i, name),
       PutProp(i, name, LAMBDA v : SubSeq(v, 1, idx) \o val \o SubSeq(v, idx + Len(val) + 1, Len(v))), <<>>)
DoSetName(i, name) == i # 1 /\ Do(SetName(fs.f, OffOf(i), name), 0, Put(i, [Node(i) EXCEPT !.n = name]), <<>>)
DoAddSubnode(i, name) ==
    Do(AddSubnode(fs.f, OffOf(i), name), IF Child(Node(i), name) # 0 THEN EXISTS ELSE 0,
       Put(i, [Node(i) EXCEPT !.c = <<Leaf(name)>> \o @]), <<>>)
DoDelNode(i, nop) ==
    /\ i # 1
    /\ Do(IF nop THEN NopNode(fs.f, OffOf(i)) ELSE DelNode(fs.f, OffOf(i)), 0,
          LET up == Front(Path(i))
          IN With(fs.tree, up, [At(fs.tree, up) EXCEPT !.c = Without(@, Last(Path(i)))]), <<>>)
DoAddMemRsv == Do(AddMemRsv(fs.f, 1), 0, fs.tree, <<>>)
DoDelMemRsv(n) ==
    Do(DelMemRsv(fs.f, n), IF n >= Cardinality({i \in DOMAIN fs.f.rsv : fs.f.rsv[i] = 1}) THEN NOTFOUND ELSE 0,
       fs.tree, <<>>)
DoOpenInto(size) == Do(OpenInto(fs.f, size), 0, fs.tree, <<>>)
DoPack == Do(Pack(fs.f), 0, fs.tree, <<>>)

Edit(i) ==
    \/ \E name \in PropNames :
        \/ \E val \in Vals : DoSetProp(i, name, val) \/ DoAppendProp(i, name, val)
                             \/ DoSetPropInplace(i, name, val) \/ DoSetPropInplacePartial(i, name, 1, val)
        \/ \E nop \in BOOLEAN : DoDelProp(i, name, nop)
    \/ \E name \in NodeNames : DoSetName(i, name) \/ DoAddSubnode(i, name)
    \/ \E nop \in BOOLEAN : DoDelNode(i, nop)

FdtInit == fs = Start
FdtNext ==
    \/ DoAddReservemapEntry
    \/ DoFinishReservemap
    \/ \E name \in NodeNames \union {RootName} : DoBeginNode(name)
    \/ \E name \in PropNames, val \in Vals : DoProperty(name, val)
    \/ DoEndNode
    \/ DoFinish
    \/ \E size \in Sizes : DoResize(size) \/ DoEmptyTree(size)
    \/ Editing /\ \E i \in Nodes : Edit(i)
    \/ Editing /\ (DoAddMemRsv \/ DoPack \/ \E n \in 0..1 : DoDelMemRsv(n))
    \/ Editing /\ \E size \in Sizes : DoOpenInto(size)

-----------------------------------------------------------------------------
(* What a walk of the flat tree finds.                                     *)
RECURSIVE PropsFrom(_, _)
PropsFrom(f, o) ==
    IF o < 0 THEN <<>> ELSE <<<<PropName(f, o), PropVal(f, o)>>>> \o PropsFrom(f, NextPropertyOffset(f, o))
RECURSIVE SubnodesFrom(_, _)
SubnodesFrom(f, o) == IF o < 0 THEN <<>> ELSE <<o>> \o SubnodesFrom(f, NextSubnode(f, o))

(* The offset, among offsets a, of the node at a path, the paths being p.  *)
OffsetOf(a, p, path) == a[SelectInSeq(p, LAMBDA q : q = path)]
RECURSIVE Resolve(_, _, _)
Resolve(t, at, names) ==
    IF names = <<>> THEN <<at>>
    ELSE LET k == Child(At(t, at), Head(names)) IN IF k = 0 THEN <<>> ELSE Resolve(t, Append(at, k), Tail(names))
ResolvedTo(a, p, got, want) == IF want = <<>> THEN got = NOTFOUND ELSE got = OffsetOf(a, p, want[1])
NodePhandle(node) ==
    LET good == {n \in {"phandle", "linux,phandle"} : Len(PropOr(node, n, <<>>)) = Word}
    IN IF good = {} THEN 0
       ELSE Number(PropOr(node, IF "phandle" \in good THEN "phandle" ELSE "linux,phandle", <<>>))

NodeExact(f, t, a, p, i) ==
    LET o == a[i]
        path == p[i]
        node == At(t, path)
        root == path = <<>>
    IN  /\ GetName(f, o) = node.n
        /\ PropsFrom(f, FirstPropertyOffset(f, o)) = node.p
        /\ SubnodesFrom(f, FirstSubnode(f, o)) = [k \in DOMAIN node.c |-> OffsetOf(a, p, Append(path, k))]
        /\ NodeDepth(f, o) = Len(path)
        /\ ParentOffset(f, o) = IF root THEN NOTFOUND ELSE OffsetOf(a, p, Front(path))
        /\ \A d \in 0..(Len(path) + 1) :
            Supernode(f, o, d).off = IF d > Len(path) THEN NOTFOUND ELSE OffsetOf(a, p, SubSeq(path, 1, d))
        /\ \A len \in 1..5 :
            GetPath(f, o, len) = IF len < 2 \/ 2 * Len(path) + 1 > len THEN NOSPACE ELSE Names(t, path)
        /\ NodeEndOffset(f, o) >= 0 /\ f.st[NodeEndOffset(f, o)] = Tag("E")
        /\ \A name \in NodeNames :
            LET k == Child(node, name)
            IN SubnodeOffset(f, o, name) = IF k = 0 THEN NOTFOUND ELSE OffsetOf(a, p, Append(path, k))
        /\ \A name \in PropNames :
            LET g == GetProperty(f, o, name)
            IN IF Prop(node, name) = 0 THEN g = NOTFOUND ELSE PropVal(f, g) = PropOr(node, name, <<>>)
        /\ GetPhandle(f, o) = NodePhandle(node)
        /\ \A str \in {<<1>>, <<3, 3>>} :
            /\ Terminated(PropOr(node, "compatible", <<0>>)) =>
                NodeCheckCompatible(f, o, str) = IF Prop(node, "compatible") = 0 THEN NOTFOUND
                    ELSE IF InList(PropOr(node, "compatible", <<>>), str) THEN 0 ELSE 1
        /\ \A q \in Range(node.p) :
            /\ StringlistCount(q[2]) = IF Terminated(q[2]) \/ q[2] = <<>>
                                       THEN Cardinality({b \in DOMAIN q[2] : q[2][b] = 0}) ELSE BADVALUE
            /\ \A k \in 0..(StringlistCount(q[2]) - 1) : InList(q[2], StringlistGet(q[2], k))
            /\ Terminated(q[2]) => (StringlistSearch(q[2], <<3, 3>>) >= 0) = InList(q[2], <<3, 3>>)
        /\ Cells(f, o, "phandle", 2) =
            IF Prop(node, "phandle") = 0 THEN 2
            ELSE IF NodePhandle(node) \in 1..4 /\ Len(PropOr(node, "phandle", <<>>)) = Word
            THEN NodePhandle(node) ELSE BADNCELLS

(* The least node in walk order that has a property, or NOTFOUND.          *)
Least(a, I) == IF I = {} THEN NOTFOUND ELSE a[CHOOSE i \in I : \A j \in I : i <= j]
TreeWide(f, t, a, p) ==
    LET node(i) == At(t, p[i])
    IN  Bind(GetMaxPhandle(f), LAMBDA max :
        /\ Len(a) = Len(p)
        /\ \A i \in DOMAIN a : NodeExact(f, t, a, p, i)
        /\ \A i \in DOMAIN a : NodePhandle(node(i)) <= max
        /\ max # 0 => \E i \in DOMAIN a : NodePhandle(node(i)) = max
        /\ \A ph \in 1..max : ByPhandle(f, ph) = Least(a, {i \in DOMAIN a : NodePhandle(node(i)) = ph})
        /\ \A i \in DOMAIN a, name \in PropNames, val \in Vals :
            ByPropValue(f, a[i], name, val) =
                Least(a, {j \in DOMAIN a : j > i /\ Prop(node(j), name) # 0 /\ PropOr(node(j), name, <<>>) = val})
        /\ \A i \in DOMAIN a : (\A j \in DOMAIN a : Terminated(PropOr(node(j), "compatible", <<0>>))) =>
            ByCompatible(f, a[i], <<3, 3>>) =
                Least(a, {j \in DOMAIN a : j > i /\ InList(PropOr(node(j), "compatible", <<>>), <<3, 3>>)})
        /\ \A x, y \in NodeNames : ResolvedTo(a, p, PathOffset(f, <<x, y>>), Resolve(t, <<>>, <<x, y>>))
        /\ LET al == Resolve(t, <<>>, <<AliasesName>>)
           IN \A name \in PropNames, x \in NodeNames :
                LET v == IF al = <<>> THEN <<>> ELSE PropOr(At(t, al[1]), name, <<>>)
                IN Terminated(v) /\ Range(v) \subseteq NodeNames \union {0} =>
                    ResolvedTo(a, p, AliasOffset(f, name, <<x>>), Resolve(t, <<>>, Append(Str(v), x))))

(* The flat tree is, after any sequence of calls, the tree of nodes those  *)
(* calls describe: every walk, lookup by name, path, alias, phandle, value *)
(* or compatible string, and every depth and parent, finds in the words of *)
(* the structure block what the tree holds, NOPs and unit addresses        *)
(* notwithstanding (fdt_ro.c over fdt_rw.c, fdt_wip.c and fdt_sw.c); a call*)
(* that fails has its documented reason and changes nothing; and the       *)
(* blocks stay inside totalsize, with one terminated reservation map.      *)
FdtExact ==
    /\ fs.ok
    /\ DataSize(fs.f) <= fs.f.total
    /\ Editing => /\ FullFrom(fs.f, 0, 0) = 0
                  /\ TreeWide(fs.f, fs.tree, AllNodes(fs.f), PathsOf(fs.tree))
                  /\ NumMemRsv(fs.f) = Len(fs.f.rsv) - 1 /\ Last(fs.f.rsv) = 0

-----------------------------------------------------------------------------
(* fdt_overlay_apply() of libfdt/fdt_overlay.c: overlays are applied one   *)
(* after the other to a device tree, each one seeing the symbols of those  *)
(* before it.                                                              *)
(*                                                                         *)
(* A tree is its nodes, a function from paths (sequences of names) to      *)
(* properties, which are sequences of cells, and the paths its __symbols__ *)
(* name.  An overlay has fragments, nodes under them (a fragment's own     *)
(* properties at <<fragment>>, what it brings at <<fragment, Overlay>>     *)
(* and below), the paths some fragments give as their target, and its      *)
(* __local_fixups__, __fixups__ and __symbols__.  Phandles have Bits bits. *)
CONSTANTS Bits, Bases, Overlays, MaxApplied
VARIABLE ov

Top == 2 ^ Bits
Overlay == "__overlay__"
PhandleNames == {"phandle", "linux,phandle"}
Fine(x) == [err |-> "", val |-> x]
Fail(e) == [err |-> e, val |-> <<>>]

(* fdt_get_phandle(), fdt_node_offset_by_phandle(), fdt_get_max_phandle(). *)
fdt_get_phandle(props) ==
    IF "phandle" \in DOMAIN props THEN props["phandle"][1]
    ELSE IF "linux,phandle" \in DOMAIN props THEN props["linux,phandle"][1] ELSE 0
NodesByPhandle(nodes, phandle) == {p \in DOMAIN nodes : fdt_get_phandle(nodes[p]) = phandle}
fdt_get_max_phandle(nodes) == Max({0} \union ({fdt_get_phandle(nodes[p]) : p \in DOMAIN nodes} \ {Top - 1}))

overlay_get_target(base, o, frag) ==
    LET props == o.nodes[<<frag>>]
        phandle == IF "target" \notin DOMAIN props THEN 0 ELSE IF Len(props["target"]) # 1 THEN Top - 1 ELSE props["target"][1]
    IN IF phandle = Top - 1 THEN Fail("BADPHANDLE")
       ELSE IF phandle # 0 THEN IF NodesByPhandle(base.nodes, phandle) = {} THEN Fail("NOTFOUND") ELSE Fine(CHOOSE p \in NodesByPhandle(base.nodes, phandle) : TRUE)
       ELSE IF frag \notin DOMAIN o.tpath THEN Fail("BADOVERLAY")
       ELSE IF o.tpath[frag] \in DOMAIN base.nodes THEN Fine(o.tpath[frag]) ELSE Fail("NOTFOUND")

(* overlay_phandle_add_offset() on every node: a sum that wraps, or is the *)
(* value that means no phandle, is refused.                                *)
overlay_adjust_local_phandles(o, delta) ==
    LET of == {<<p, n>> \in (DOMAIN o.nodes) \X PhandleNames : n \in DOMAIN o.nodes[p]}
    IN IF \E f \in of : Len(o.nodes[f[1]][f[2]]) # 1 THEN Fail("BADPHANDLE")
       ELSE IF \E f \in of : o.nodes[f[1]][f[2]][1] + delta >= Top - 1 THEN Fail("NOPHANDLES")
       ELSE Fine([o EXCEPT !.nodes = [p \in DOMAIN @ |-> [n \in DOMAIN @[p] |-> IF n \in PhandleNames THEN <<@[p][n][1] + delta>> ELSE @[p][n]]]])

(* A cell is rewritten where it is: fdt_setprop_inplace_namelen_partial(). *)
Rewritten(o, at, prop, off, val) ==
    IF at \notin DOMAIN o.nodes \/ prop \notin DOMAIN o.nodes[at] \/ off >= Len(o.nodes[at][prop]) THEN Fail("BADOVERLAY")
    ELSE Fine([o EXCEPT !.nodes[at][prop][off + 1] = val])
overlay_update_local_references(o, delta) ==
    FoldLeft(LAMBDA r, f : IF r.err # "" THEN r
                           ELSE IF f.at \in DOMAIN r.val.nodes /\ f.prop \in DOMAIN r.val.nodes[f.at] /\ f.off < Len(r.val.nodes[f.at][f.prop])
                           THEN Rewritten(r.val, f.at, f.prop, f.off, (r.val.nodes[f.at][f.prop][f.off + 1] + delta) % Top)
                           ELSE Fail("BADOVERLAY"),
             Fine(o), o.local)

overlay_fixup_one_phandle(base, o, f) ==
    IF f.label \notin DOMAIN base.symbols THEN Fail("NOTFOUND")
    ELSE LET path == base.symbols[f.label] IN
         IF path \notin DOMAIN base.nodes \/ fdt_get_phandle(base.nodes[path]) = 0 THEN Fail("NOTFOUND")
         ELSE Rewritten(o, f.at, f.prop, f.off, fdt_get_phandle(base.nodes[path]))
overlay_fixup_phandles(base, o) ==
    FoldLeft(LAMBDA r, f : IF r.err # "" THEN r ELSE overlay_fixup_one_phandle(base, r.val, f), Fine(o), o.fixups)

(* overlay_apply_node(): properties replace those of the target, nodes     *)
(* that are missing are added.                                             *)
Brought(o, frag) == {p \in DOMAIN o.nodes : Len(p) >= 2 /\ p[1] = frag /\ p[2] = Overlay}
Rel(p) == SubSeq(p, 3, Len(p))
Size(nodes) == FoldSet(LAMBDA p, n : n + 1 + FoldSet(LAMBDA k, m : m + 1 + Len(nodes[p][k]), 0, DOMAIN nodes[p]), 0, DOMAIN nodes)
overlay_apply_node(base, target, o, frag) ==
    LET new == [q \in {target \o Rel(p) : p \in Brought(o, frag)} |-> o.nodes[<<frag, Overlay>> \o SubSeq(q, Len(target) + 1, Len(q))]]
        nodes == [q \in DOMAIN base.nodes \union DOMAIN new |->
                    IF q \notin DOMAIN base.nodes THEN new[q] ELSE IF q \notin DOMAIN new THEN base.nodes[q]
                    ELSE [n \in DOMAIN base.nodes[q] \union DOMAIN new[q] |-> IF n \in DOMAIN new[q] THEN new[q][n] ELSE base.nodes[q][n]]]
    IN IF Size(nodes) > base.room THEN Fail("NOSPACE") ELSE Fine([base EXCEPT !.nodes = nodes])
overlay_merge(base, o) ==
    FoldLeft(LAMBDA r, frag : IF r.err # "" \/ <<frag, Overlay>> \notin DOMAIN o.nodes THEN r
                              ELSE LET t == overlay_get_target(r.val, o, frag) IN
                                   IF t.err # "" THEN t ELSE overlay_apply_node(r.val, t.val, o, frag),
             Fine(base), o.frags)

(* overlay_symbol_update(): the path of a symbol goes through __overlay__  *)
(* to a node below it.                                                     *)
SymbolUpdate(base, o, s) ==
    IF Len(s.path) < 3 \/ s.path[2] # Overlay \/ <<s.path[1], Overlay>> \notin DOMAIN o.nodes THEN Fail("BADOVERLAY")
    ELSE LET t == overlay_get_target(base, o, s.path[1]) IN
         IF t.err # "" THEN t
         ELSE Fine([base EXCEPT !.symbols = [l \in DOMAIN @ \union {s.label} |-> IF l = s.label THEN t.val \o Rel(s.path) ELSE @[l]]])
overlay_symbol_update(base, o) ==
    FoldLeft(LAMBDA r, s : IF r.err # "" THEN r ELSE SymbolUpdate(r.val, o, s), Fine(base), o.symbols)

(* fdt_overlay_apply(): the phandles of the overlay move above those of    *)
(* the tree; a failure leaves neither the tree nor the overlay usable.     *)
Apply(base, o) ==
    LET delta == fdt_get_max_phandle(base.nodes)
        r1 == overlay_adjust_local_phandles(o, delta)
        r2 == IF r1.err # "" THEN r1 ELSE overlay_update_local_references(r1.val, delta)
        r3 == IF r2.err # "" THEN r2 ELSE overlay_fixup_phandles(base, r2.val)
        r4 == IF r3.err # "" THEN r3 ELSE overlay_merge(base, r3.val)
    IN IF r4.err # "" THEN r4 ELSE overlay_symbol_update(r4.val, r3.val)
-----------------------------------------------------------------------------
(* refs: what every reference in the tree is meant to name, kept beside    *)
(* it: a cell of a node, and the path of the node it refers to.            *)
OverlayInit == \E b \in Bases : ov = [base |-> b.tree, refs |-> b.refs, magic |-> TRUE, ret |-> "", applied |-> 0, clobbered |-> FALSE]

(* Where the nodes of a fragment come to lie: known from its own target,   *)
(* by path, by a symbol, or by a node another fragment brings.             *)
RECURSIVE Lies(_, _, _)
Lies(base, o, p) ==
    LET at(d) == {f \in Range(d) : f.at = <<p[1]>> /\ f.prop = "target"}
        own == {q \in DOMAIN o.nodes : fdt_get_phandle(o.nodes[q]) = o.nodes[<<p[1]>>]["target"][1]}
        root == IF at(o.fixups) # {} THEN base.symbols[(CHOOSE f \in at(o.fixups) : TRUE).label]
                ELSE IF at(o.local) # {} THEN Lies(base, o, CHOOSE q \in own : TRUE) ELSE o.tpath[p[1]]
    IN root \o Rel(p)
Meant(base, o) ==
    {<<Lies(base, o, f.at), f.prop, f.off, base.symbols[f.label]>> : f \in {g \in Range(o.fixups) : Len(g.at) >= 2}} \union
    {<<Lies(base, o, f.at), f.prop, f.off,
       Lies(base, o, CHOOSE q \in DOMAIN o.nodes : fdt_get_phandle(o.nodes[q]) = o.nodes[f.at][f.prop][f.off + 1])>> :
     f \in {g \in Range(o.local) : Len(g.at) >= 2}}
(* The reference of an overlay that lands on a cell of the tree takes its  *)
(* place; a phandle of its own on a node that had one clobbers that.       *)
Clobbers(base, o) ==
    \E p \in DOMAIN o.nodes : /\ Len(p) >= 2 /\ DOMAIN o.nodes[p] \intersect PhandleNames # {}
                              /\ Lies(base, o, p) \in DOMAIN base.nodes /\ fdt_get_phandle(base.nodes[Lies(base, o, p)]) # 0
fdt_overlay_apply(o) ==
    /\ ov.magic /\ ov.applied < MaxApplied
    /\ \E r \in {Apply(ov.base, o)} :
       ov' = IF r.err # "" THEN [ov EXCEPT !.magic = FALSE, !.ret = r.err, !.applied = @ + 1]
             ELSE [ov EXCEPT !.base = r.val, !.applied = @ + 1, !.clobbered = @ \/ Clobbers(ov.base, o),
                             !.refs = {x \in @ : \A p \in {q \in DOMAIN o.nodes : Len(q) >= 2} :
                                                    Lies(ov.base, o, p) = x[1] => x[2] \notin DOMAIN o.nodes[p]} \union Meant(ov.base, o)]
OverlayNext == \E o \in Overlays : fdt_overlay_apply(o)
-----------------------------------------------------------------------------
Refers(x) ==
    /\ x[1] \in DOMAIN ov.base.nodes /\ x[2] \in DOMAIN ov.base.nodes[x[1]]
    /\ NodesByPhandle(ov.base.nodes, ov.base.nodes[x[1]][x[2]][x[3] + 1]) = {x[4]}
(* While every overlay could be applied, each reference, of the tree or of *)
(* an overlay, to its own nodes or through a label, holds the phandle of   *)
(* the one node it is meant to name, no two nodes share a phandle, and     *)
(* every symbol names a node, unless an overlay's phandle has replaced the *)
(* one a node of the tree had.                                             *)
OverlayExact ==
    ov.magic /\ ~ov.clobbered =>
        /\ \A x \in ov.refs : Refers(x)
        /\ \A p, q \in DOMAIN ov.base.nodes :
             p # q /\ fdt_get_phandle(ov.base.nodes[p]) # 0 => fdt_get_phandle(ov.base.nodes[p]) # fdt_get_phandle(ov.base.nodes[q])
        /\ Range(ov.base.symbols) \subseteq DOMAIN ov.base.nodes
        /\ \A p \in DOMAIN ov.base.nodes : p = <<>> \/ Front(p) \in DOMAIN ov.base.nodes
=============================================================================
