-------------------------------- MODULE Fdt --------------------------------
(***************************************************************************)
(* The flattened device tree of lib/base/src/fdt/libfdt: the structure     *)
(* block as the sequence of words it is in memory, and every function that *)
(* walks it or edits it, as an operator on that sequence; and, at the end, *)
(* the tree of device nodes that drivers/of makes of it.                   *)
(*                                                                         *)
(*   st     the structure block: one record per word, k its kind:          *)
(*          B, E, P, N, X (FDT_BEGIN_NODE, END_NODE, PROP, NOP, END),      *)
(*          name, len, off, or data (Word bytes of a value)                *)
(*   strs   the strings block;  rsv  the memory reservation block          *)
(*   total  totalsize, in words;  magic  "fdt", "sw" or "bad"              *)
(*                                                                         *)
(* Offsets count words from 0.  A name takes one word and a header Header. *)
(* Names and bytes are small numbers; byte 0 is NUL.  Versions before 17   *)
(* are left out.                                                           *)
(***************************************************************************)
EXTENDS Integers, Sequences, FiniteSets, SequencesExt

(* Bind(v, LAMBDA x : e) is LET x == v IN e, with v evaluated once.        *)
Bind(v, Op(_)) == Op(v)

CONSTANTS Word,     \* bytes in a word (FDT_TAGSIZE)
          Header,   \* words of struct fdt_header
          Base      \* name |-> the name without its unit address

NOTFOUND == -1
EXISTS == -2
NOSPACE == -3
BADOFFSET == -4
BADPATH == -5
BADPHANDLE == -6
BADSTATE == -7
TRUNCATED == -8
BADSTRUCTURE == -11
BADNCELLS == -14
BADVALUE == -15

Cell(k, v) == [k |-> k, v |-> v]
Tag(k) == Cell(k, <<>>)
Words(bytes) == (bytes + Word - 1) \div Word
(* The data words of a value, its last word padded with NUL.               *)
DataCells(val) ==
    [i \in 1..Words(Len(val)) |->
        Cell("data", [b \in 1..Word |->
            IF (i - 1) * Word + b <= Len(val) THEN val[(i - 1) * Word + b] ELSE 0])]
PropCells(off, val) == <<Tag("P"), Cell("len", <<Len(val)>>), Cell("off", <<off>>)>> \o DataCells(val)
NodeCells(name) == <<Tag("B"), Cell("name", <<name>>), Tag("E")>>

-----------------------------------------------------------------------------
(* fdt.c                                                                   *)

(* fdt_next_tag: the tag at o and the offset after it.                     *)
TagEnd(f, o) ==
    CASE f.st[o + 1].k = "B" -> o + 2
      [] f.st[o + 1].k = "P" -> IF o + 1 >= Len(f.st) THEN Len(f.st) + 1 ELSE o + 3 + Words(f.st[o + 2].v[1])
      [] OTHER -> o + 1
TagUpTo(f, k, end) ==
    IF k \in {"B", "E", "P", "N", "X"} /\ end <= Len(f.st) THEN [tag |-> k, next |-> end]
    ELSE [tag |-> "X", next |-> BADSTRUCTURE]
NextTag(f, o) ==
    IF o < 0 \/ o >= Len(f.st) THEN [tag |-> "X", next |-> TRUNCATED]
    ELSE TagUpTo(f, f.st[o + 1].k, TagEnd(f, o))

TagIs(t, tag) == IF t.tag # tag THEN BADOFFSET ELSE t.next
CheckOffset(f, o, tag) == IF o < 0 THEN BADOFFSET ELSE TagIs(NextTag(f, o), tag)
CheckNodeOffset(f, o) == CheckOffset(f, o, "B")
CheckPropOffset(f, o) == CheckOffset(f, o, "P")

(* fdt_next_node; track is whether the caller passes a depth.              *)
RECURSIVE ScanNode(_, _, _, _)
ScanNode(f, o, d, track) ==
    Bind(NextTag(f, o), LAMBDA t :
        CASE t.tag = "B" -> [off |-> o, d |-> d + 1]
          [] t.tag = "E" -> IF track /\ d - 1 < 0 THEN [off |-> t.next, d |-> d - 1]
                            ELSE ScanNode(f, t.next, d - 1, track)
          [] t.tag = "X" -> [off |-> IF t.next >= 0 \/ (t.next = TRUNCATED /\ ~track)
                                     THEN NOTFOUND ELSE t.next, d |-> d]
          [] OTHER -> ScanNode(f, t.next, d, track))
ScanAfter(f, o, d, track) == IF o < 0 THEN [off |-> o, d |-> d] ELSE ScanNode(f, o, d, track)
NextNode(f, o, d, track) == ScanAfter(f, IF o >= 0 THEN CheckNodeOffset(f, o) ELSE 0, d, track)

FirstSubnode(f, o) ==
    LET r == NextNode(f, o, 0, TRUE) IN IF r.off < 0 \/ r.d # 1 THEN NOTFOUND ELSE r.off
RECURSIVE SubnodeFrom(_, _, _)
SubnodeFrom(f, o, d) ==
    LET r == NextNode(f, o, d, TRUE)
    IN IF r.off < 0 \/ r.d < 1 THEN NOTFOUND
       ELSE IF r.d > 1 THEN SubnodeFrom(f, r.off, r.d) ELSE r.off
NextSubnode(f, o) == SubnodeFrom(f, o, 1)

-----------------------------------------------------------------------------
(* fdt_ro.c                                                                *)

GetName(f, o) == f.st[o + 2].v[1]
HasUnit(name) == Base[name] # name
(* fdt_nodename_eq_: a name without unit address matches any address.      *)
NodenameEq(f, o, name) ==
    LET p == GetName(f, o) IN p = name \/ (~HasUnit(name) /\ Base[p] = name)

(* fdt_get_string; an unfinished tree counts its strings from the end.     *)
GetString(f, off) == IF f.magic = "sw" THEN f.strs[Len(f.strs) + off + 1] ELSE f.strs[off + 1]

(* A plausible slip: a NOP is taken for the end of the properties.         *)
NextPropStop(f, o) ==
    LET t == NextTag(f, o)
    IN  CASE t.tag = "X" -> IF t.next >= 0 THEN BADSTRUCTURE ELSE t.next
          [] t.tag = "P" -> o
          [] OTHER -> NOTFOUND
RECURSIVE NextProp(_, _)
NextProp(f, o) ==
    Bind(NextTag(f, o), LAMBDA t :
        CASE t.tag = "X" -> IF t.next >= 0 THEN BADSTRUCTURE ELSE t.next
          [] t.tag = "P" -> o
          [] t.tag = "N" -> NextProp(f, t.next)
          [] OTHER -> NOTFOUND)
PropAfter(f, o) == IF o < 0 THEN o ELSE NextProp(f, o)
FirstPropertyOffset(f, o) == PropAfter(f, CheckNodeOffset(f, o))
NextPropertyOffset(f, o) == PropAfter(f, CheckPropOffset(f, o))
PropName(f, o) == GetString(f, f.st[o + 3].v[1])
PropLen(f, o) == f.st[o + 2].v[1]
PropVal(f, o) ==
    [i \in 1..PropLen(f, o) |-> f.st[o + 4 + ((i - 1) \div Word)].v[((i - 1) % Word) + 1]]

(* fdt_get_property_namelen_: the offset of the property, or an error.     *)
RECURSIVE PropertyFrom(_, _, _)
PropertyFrom(f, o, name) ==
    IF o < 0 \/ PropName(f, o) = name THEN o ELSE PropertyFrom(f, NextPropertyOffset(f, o), name)
GetProperty(f, o, name) == PropertyFrom(f, FirstPropertyOffset(f, o), name)

(* fdt_get_phandle, from "phandle" or from the older "linux,phandle".      *)
Number(val) == FoldLeft(LAMBDA a, b : a * 16 + b, 0, val)
OneCell(f, p) == p >= 0 /\ PropLen(f, p) = Word
PhandleAt(f, p, old) == IF OneCell(f, p) THEN Number(PropVal(f, p))
                        ELSE IF OneCell(f, old) THEN Number(PropVal(f, old)) ELSE 0
GetPhandle(f, o) == PhandleAt(f, GetProperty(f, o, "phandle"), GetProperty(f, o, "linux,phandle"))

(* fdt_subnode_offset_namelen                                              *)
RECURSIVE SubnodeScan(_, _, _, _)
SubnodeScan(f, o, d, name) ==
    CASE o >= 0 /\ d >= 0 ->
            IF d = 1 /\ NodenameEq(f, o, name) THEN o
            ELSE LET r == NextNode(f, o, d, TRUE) IN SubnodeScan(f, r.off, r.d, name)
      [] d < 0 -> NOTFOUND
      [] OTHER -> o
SubnodeOffset(f, o, name) == SubnodeScan(f, o, 0, name)

(* fdt_path_offset_namelen: a path is a sequence of names, or an alias     *)
(* followed by names.  The value of an alias is a path with a NUL.         *)
Str(val) == SelectSeq(val, LAMBDA b : b # 0)
PathFrom(f, o, names) ==
    FoldLeft(LAMBDA p, name : IF p < 0 THEN p ELSE SubnodeOffset(f, p, name), o, names)
PathOffset(f, names) == PathFrom(f, 0, names)
AliasesName == 3
AliasOffset(f, alias, names) ==
    LET a == PathOffset(f, <<AliasesName>>)
    IN  IF a < 0 THEN BADPATH
        ELSE LET p == GetProperty(f, a, alias)
             IN IF p < 0 THEN BADPATH ELSE PathFrom(f, PathOffset(f, Str(PropVal(f, p))), names)

(* All nodes in the order fdt_next_node(fdt, -1, NULL) visits them, and    *)
(* the loops over them.                                                    *)
RECURSIVE NodesFrom(_, _)
NodesFrom(f, o) ==
    Bind(NextNode(f, o, 0, FALSE), LAMBDA r :
       IF r.off < 0 THEN <<>> ELSE <<r.off>> \o NodesFrom(f, r.off))
AllNodes(f) == NodesFrom(f, -1)
FirstNode(f, o, P(_)) ==
    LET ok == SelectSeq(NodesFrom(f, o), P) IN IF ok = <<>> THEN NOTFOUND ELSE ok[1]

GetMaxPhandle(f) == Max({0} \union {GetPhandle(f, o) : o \in Range(AllNodes(f))})
ByPhandle(f, ph) ==
    IF ph = 0 THEN BADPHANDLE ELSE FirstNode(f, -1, LAMBDA o : GetPhandle(f, o) = ph)
ByPropValue(f, o, name, val) ==
    FirstNode(f, o, LAMBDA n : GetProperty(f, n, name) >= 0 /\ PropVal(f, GetProperty(f, n, name)) = val)

(* fdt_supernode_atdepth_offset, fdt_node_depth, fdt_parent_offset         *)
RECURSIVE SupernodeScan(_, _, _, _, _, _)
SupernodeScan(f, node, want, o, d, super) ==
    IF o >= 0 /\ o <= node
    THEN LET s == IF d = want THEN o ELSE super
         IN IF o = node THEN [off |-> IF want > d THEN NOTFOUND ELSE s, d |-> d]
            ELSE Bind(NextNode(f, o, d, TRUE), LAMBDA r : SupernodeScan(f, node, want, r.off, r.d, s))
    ELSE [off |-> IF o = NOTFOUND \/ o >= 0 THEN BADOFFSET
                  ELSE IF o = BADOFFSET THEN BADSTRUCTURE ELSE o, d |-> d]
Supernode(f, node, want) ==
    IF want < 0 THEN [off |-> NOTFOUND, d |-> 0] ELSE SupernodeScan(f, node, want, 0, 0, -13)
NodeDepth(f, o) == Bind(Supernode(f, o, 0), LAMBDA r : IF r.off < 0 THEN r.off ELSE r.d)
ParentOffset(f, o) ==
    IF NodeDepth(f, o) < 0 THEN NodeDepth(f, o) ELSE Supernode(f, o, NodeDepth(f, o) - 1).off

(* fdt_get_path into a buffer of buflen characters, a name having one: the *)
(* path holds depth + 1 components once every one of them fitted.          *)
RECURSIVE PathScan(_, _, _, _, _, _)
PathScan(f, node, buflen, o, d, path) ==
    IF o < 0 \/ o > node THEN BADOFFSET
    ELSE LET up == SubSeq(path, 1, IF Len(path) > d THEN d ELSE Len(path))
             used == IF up = <<>> THEN 0 ELSE 2 * Len(up) - 1
             fits == Len(up) >= d /\ used + (IF d = 0 THEN 0 ELSE 1) + 1 <= buflen
             now == IF fits THEN Append(up, GetName(f, o)) ELSE up
         IN IF o = node THEN IF Len(now) < d + 1 THEN NOSPACE ELSE Tail(now)
            ELSE LET r == NextNode(f, o, d, TRUE) IN PathScan(f, node, buflen, r.off, r.d, now)
GetPath(f, o, buflen) == IF buflen < 2 THEN NOSPACE ELSE PathScan(f, o, buflen, 0, 0, <<>>)

(* The string list functions: the strings of a value, or an error when the *)
(* last is not terminated.                                                 *)
RECURSIVE Strings(_, _)
Strings(val, cur) ==
    IF val = <<>> THEN <<>>
    ELSE IF val[1] = 0 THEN <<cur>> \o Strings(Tail(val), <<>>) ELSE Strings(Tail(val), Append(cur, val[1]))
StringlistCount(val) ==
    IF val # <<>> /\ Last(val) # 0 THEN BADVALUE ELSE Len(Strings(val, <<>>))
StringlistSearch(val, str) ==
    LET ss == Strings(val, <<>>)
        ok == {i \in DOMAIN ss : ss[i] = str}
    IN IF ok # {} THEN (CHOOSE i \in ok : \A j \in ok : i <= j) - 1
       ELSE IF val # <<>> /\ Last(val) # 0 THEN BADVALUE ELSE NOTFOUND
StringlistGet(val, idx) ==
    LET ss == Strings(val, <<>>)
    IN IF idx + 1 \in DOMAIN ss THEN ss[idx + 1]
       ELSE IF val # <<>> /\ Last(val) # 0 THEN BADVALUE ELSE NOTFOUND
(* fdt_stringlist_contains on a terminated list.                           *)
RECURSIVE StringlistContains(_, _)
StringlistContains(val, str) ==
    /\ Len(val) >= Len(str) + 1
    /\ \/ SubSeq(val, 1, Len(str) + 1) = Append(str, 0)
       \/ StringlistContains(SubSeq(val, SelectInSeq(val, LAMBDA b : b = 0) + 1, Len(val)), str)
NodeCheckCompatible(f, o, str) ==
    LET p == GetProperty(f, o, "compatible")
    IN IF p < 0 THEN p ELSE IF StringlistContains(PropVal(f, p), str) THEN 0 ELSE 1
ByCompatible(f, o, str) == FirstNode(f, o, LAMBDA n : NodeCheckCompatible(f, n, str) = 0)

(* fdt_cells with the default of fdt_address_cells or fdt_size_cells.      *)
Cells(f, o, name, default) ==
    LET p == GetProperty(f, o, name)
    IN  CASE p = NOTFOUND -> default
          [] p < 0 /\ p # NOTFOUND -> p
          [] OTHER -> IF PropLen(f, p) # Word THEN BADNCELLS
                      ELSE IF Number(PropVal(f, p)) \notin 1..4 THEN BADNCELLS
                      ELSE Number(PropVal(f, p))

(* fdt_check_full: one walk over all tags, counting the depth.             *)
RECURSIVE FullFrom(_, _, _)
FullFrom(f, o, d) ==
    LET t == NextTag(f, o)
    IN  CASE t.next < 0 -> t.next
          [] t.next >= 0 /\ t.tag = "X" -> IF d = 0 THEN 0 ELSE BADSTRUCTURE
          [] t.next >= 0 /\ t.tag = "B" -> FullFrom(f, t.next, d + 1)
          [] t.next >= 0 /\ t.tag = "E" -> IF d = 0 THEN BADSTRUCTURE ELSE FullFrom(f, t.next, d - 1)
          [] OTHER -> FullFrom(f, t.next, d)

NumMemRsv(f) == SelectInSeq(f.rsv, LAMBDA size : size = 0) - 1

-----------------------------------------------------------------------------
(* fdt_rw.c.  Every operation returns the tree and a result; all fail on a *)
(* tree that is not finished.                                              *)

Result(f, ret) == [f |-> f, ret |-> ret]
DataSize(f) == Header + Len(f.rsv) + Len(f.st) + Len(f.strs)

(* fdt_splice_struct_: the words from o on, old of them, become new.       *)
SpliceStruct(f, o, old, new) ==
    IF DataSize(f) - old + Len(new) > f.total THEN Result(f, NOSPACE)
    ELSE Result([f EXCEPT !.st = SubSeq(@, 1, o) \o new \o SubSeq(@, o + old + 1, Len(@))], 0)

FindString(f, name) == SelectInSeq(f.strs, LAMBDA s : s = name)
FindAddString(f, name) ==
    IF FindString(f, name) # 0 THEN Result(f, FindString(f, name) - 1)
    ELSE IF DataSize(f) + 1 > f.total THEN Result(f, NOSPACE)
    ELSE Result([f EXCEPT !.strs = Append(@, name)], Len(f.strs))

AddMemRsv(f, size) ==
    IF DataSize(f) + 1 > f.total THEN Result(f, NOSPACE)
    ELSE Result([f EXCEPT !.rsv = SubSeq(@, 1, NumMemRsv(f)) \o <<size>> \o SubSeq(@, NumMemRsv(f) + 1, Len(@))], 0)
DelMemRsv(f, n) ==
    IF n >= NumMemRsv(f) THEN Result(f, NOTFOUND)
    ELSE Result([f EXCEPT !.rsv = SubSeq(@, 1, n) \o SubSeq(@, n + 2, Len(@))], 0)

(* fdt_add_property_: in front of the other properties.                    *)
AddProperty(f, o, name, val) ==
    IF CheckNodeOffset(f, o) < 0 THEN Result(f, CheckNodeOffset(f, o))
    ELSE LET s == FindAddString(f, name)
         IN IF s.ret < 0 THEN s
            ELSE SpliceStruct(s.f, CheckNodeOffset(f, o), 0, PropCells(s.ret, val))

(* fdt_setprop: resized in place when there, added when not.               *)
SetProp(f, o, name, val) ==
    Bind(GetProperty(f, o, name), LAMBDA p :
        CASE p = NOTFOUND -> AddProperty(f, o, name, val)
          [] p < 0 /\ p # NOTFOUND -> Result(f, p)
          [] OTHER ->
             LET r == SpliceStruct(f, p + 3, Words(PropLen(f, p)), DataCells(val))
             IN IF r.ret # 0 THEN r
                ELSE Result([r.f EXCEPT !.st[p + 2] = Cell("len", <<Len(val)>>)], 0))

AppendProp(f, o, name, val) ==
    LET p == GetProperty(f, o, name)
    IN IF p >= 0 THEN SetProp(f, o, name, PropVal(f, p) \o val) ELSE AddProperty(f, o, name, val)

DelProp(f, o, name) ==
    LET p == GetProperty(f, o, name)
    IN IF p < 0 THEN Result(f, p) ELSE SpliceStruct(f, p, 3 + Words(PropLen(f, p)), <<>>)

SetName(f, o, name) ==
    IF CheckNodeOffset(f, o) < 0 THEN Result(f, CheckNodeOffset(f, o))
    ELSE SpliceStruct(f, o + 1, 1, <<Cell("name", <<name>>)>>)

(* fdt_add_subnode_namelen: after the properties of the parent.            *)
RECURSIVE SkipProps(_, _)
SkipProps(f, o) ==
    LET t == NextTag(f, o) IN IF t.tag \in {"P", "N"} THEN SkipProps(f, t.next) ELSE o
AddSubnode(f, o, name) ==
    LET found == SubnodeOffset(f, o, name)
    IN  CASE found >= 0 -> Result(f, EXISTS)
          [] found < 0 /\ found # NOTFOUND -> Result(f, found)
          [] OTHER -> LET at == SkipProps(f, NextTag(f, o).next)
                          r == SpliceStruct(f, at, 0, NodeCells(name))
                      IN IF r.ret # 0 THEN r ELSE Result(r.f, at)

(* fdt_node_end_offset_, fdt_del_node                                      *)
RECURSIVE EndFrom(_, _, _)
EndFrom(f, o, d) ==
    IF o < 0 \/ d < 0 THEN o ELSE LET r == NextNode(f, o, d, TRUE) IN EndFrom(f, r.off, r.d)
NodeEndOffset(f, o) == EndFrom(f, o, 0)
DelNode(f, o) ==
    LET e == NodeEndOffset(f, o)
    IN IF e < 0 THEN Result(f, e) ELSE SpliceStruct(f, o, e - o, <<>>)

(* fdt_open_into a buffer of that size, fdt_pack                           *)
OpenInto(f, size) ==
    IF f.total > size THEN Result(f, NOSPACE) ELSE Result([f EXCEPT !.total = size], 0)
Pack(f) == Result([f EXCEPT !.total = DataSize(f)], 0)

-----------------------------------------------------------------------------
(* fdt_wip.c: in place.                                                    *)

Nops(f, o, n) == [f EXCEPT !.st = [i \in DOMAIN @ |-> IF i \in (o + 1)..(o + n) THEN Tag("N") ELSE @[i]]]
SetPropInplacePartial(f, o, name, idx, val) ==
    Bind(GetProperty(f, o, name), LAMBDA p :
        IF p < 0 THEN Result(f, p)
        ELSE IF PropLen(f, p) < Len(val) + idx THEN Result(f, NOSPACE)
        ELSE LET old == PropVal(f, p)
                 new == [i \in DOMAIN old |-> IF i \in (idx + 1)..(idx + Len(val)) THEN val[i - idx] ELSE old[i]]
             IN Result([f EXCEPT !.st = SubSeq(@, 1, p + 3) \o DataCells(new)
                                        \o SubSeq(@, p + 4 + Words(Len(old)), Len(@))], 0))
SetPropInplace(f, o, name, val) ==
    LET p == GetProperty(f, o, name)
    IN  IF p < 0 THEN Result(f, p)
        ELSE IF PropLen(f, p) # Len(val) THEN Result(f, NOSPACE)
        ELSE SetPropInplacePartial(f, o, name, 0, val)
NopProperty(f, o, name) ==
    LET p == GetProperty(f, o, name)
    IN IF p < 0 THEN Result(f, p) ELSE Result(Nops(f, p, 3 + Words(PropLen(f, p))), 0)
NopNode(f, o) ==
    LET e == NodeEndOffset(f, o)
    IN IF e < 0 THEN Result(f, e) ELSE Result(Nops(f, o, e - o), 0)

-----------------------------------------------------------------------------
(* fdt_sw.c: the sequential writer.  The strings grow down from the end.   *)

Create(size) ==
    [st |-> <<>>, strs |-> <<>>, rsv |-> <<>>, total |-> size, magic |-> "sw", structs |-> FALSE]
GrabSpace(f, cells) ==
    IF DataSize(f) + Len(cells) > f.total THEN Result(f, NOSPACE)
    ELSE Result([f EXCEPT !.st = @ \o cells], 0)
AddReservemapEntry(f, size) ==
    IF f.magic # "sw" \/ f.structs THEN Result(f, BADSTATE)
    ELSE IF Header + Len(f.rsv) + 1 > f.total THEN Result(f, NOSPACE)
    ELSE Result([f EXCEPT !.rsv = Append(@, size)], 0)
FinishReservemap(f) ==
    LET r == AddReservemapEntry(f, 0)
    IN IF r.ret # 0 THEN r ELSE Result([r.f EXCEPT !.structs = TRUE], 0)
InStruct(f) == f.magic = "sw" /\ f.structs
BeginNode(f, name) ==
    IF ~InStruct(f) THEN Result(f, BADSTATE) ELSE GrabSpace(f, <<Tag("B"), Cell("name", <<name>>)>>)
EndNode(f) == IF ~InStruct(f) THEN Result(f, BADSTATE) ELSE GrabSpace(f, <<Tag("E")>>)
SwFindAddString(f, name) ==
    IF FindString(f, name) # 0 THEN Result(f, FindString(f, name) - 1 - Len(f.strs))
    ELSE IF DataSize(f) + 1 > f.total THEN Result(f, 0)
    ELSE Result([f EXCEPT !.strs = <<name>> \o @], -(Len(f.strs) + 1))
Property(f, name, val) ==
    IF ~InStruct(f) THEN Result(f, BADSTATE)
    ELSE LET s == SwFindAddString(f, name)
         IN IF s.ret = 0 THEN Result(f, NOSPACE) ELSE GrabSpace(s.f, PropCells(s.ret, val))

(* fdt_finish: the terminator, then every name offset is moved by the size *)
(* of the strings block as the structure is walked.                        *)
RECURSIVE Relocate(_, _)
Relocate(f, o) ==
    LET t == NextTag(f, o)
    IN  CASE t.tag = "X" -> f
          [] t.tag = "P" -> Relocate([f EXCEPT !.st[o + 3] = Cell("off", <<@.v[1] + Len(f.strs)>>)], t.next)
          [] OTHER -> Relocate(f, t.next)
Finish(f) ==
    IF ~InStruct(f) THEN Result(f, BADSTATE)
    ELSE LET r == GrabSpace(f, <<Tag("X")>>)
         IN IF r.ret # 0 THEN r
            ELSE Result([Relocate(r.f, 0) EXCEPT !.magic = "fdt", !.total = DataSize(r.f)], 0)
(* fdt_resize                                                              *)
Resize(f, size) ==
    IF f.magic # "sw" THEN Result(f, BADSTATE)
    ELSE IF DataSize(f) > size THEN Result(f, NOSPACE) ELSE Result([f EXCEPT !.total = size], 0)

(* fdt_create_empty_tree: the steps up to the first that fails.            *)
EmptyTree(size) ==
    LET then(r, S(_)) == IF r.ret # 0 THEN r ELSE S(r.f)
        named == then(FinishReservemap(Create(size)), LAMBDA f : BeginNode(f, 0))
    IN then(then(then(named, EndNode), Finish), LAMBDA f : OpenInto(f, size))

-----------------------------------------------------------------------------
(* A device tree as the tree of nodes it is: a node has a name n, a        *)
(* sequence p of properties <<name, value>> and a sequence c of children.  *)
(* A path is a sequence of positions among children.                       *)
Leaf(name) == [n |-> name, p |-> <<>>, c |-> <<>>]
RECURSIVE PathsOf(_)
PathsOf(t) ==
    <<<<>>>> \o FlattenSeq([i \in DOMAIN t.c |->
        LET sub == PathsOf(t.c[i]) IN [j \in DOMAIN sub |-> <<i>> \o sub[j]]])
RECURSIVE At(_, _)
At(t, path) == IF path = <<>> THEN t ELSE At(t.c[Head(path)], Tail(path))
RECURSIVE With(_, _, _)
With(t, path, new) ==
    IF path = <<>> THEN new ELSE [t EXCEPT !.c[Head(path)] = With(@, Tail(path), new)]
Names(t, path) == [i \in DOMAIN path |-> At(t, SubSeq(path, 1, i)).n]
Prop(node, name) == SelectInSeq(node.p, LAMBDA q : q[1] = name)
PropOr(node, name, default) == IF Prop(node, name) = 0 THEN default ELSE node.p[Prop(node, name)][2]
Terminated(val) == val # <<>> /\ Last(val) = 0
(* The strings of a terminated value, by where its NULs are.               *)
InList(val, str) ==
    \E e \in DOMAIN val :
        /\ val[e] = 0 /\ e > Len(str) /\ SubSeq(val, e - Len(str), e - 1) = str
        /\ e - Len(str) = 1 \/ val[e - Len(str) - 1] = 0

(* The blob a device tree compiler makes of a tree: every name in the      *)
(* strings block once, a property as its words, children after properties. *)
RECURSIVE PropNamesOf(_)
PropNamesOf(t) == {q[1] : q \in Range(t.p)} \union UNION {PropNamesOf(k) : k \in Range(t.c)}
RECURSIVE StructOf(_, _)
StructOf(t, strs) ==
    <<Tag("B"), Cell("name", <<t.n>>)>>
    \o FlattenSeq([i \in DOMAIN t.p |->
            PropCells(SelectInSeq(strs, LAMBDA s : s = t.p[i][1]) - 1, t.p[i][2])])
    \o FlattenSeq([i \in DOMAIN t.c |-> StructOf(t.c[i], strs)])
    \o <<Tag("E")>>
FlatTree(t) ==
    LET strs == FoldSet(LAMBDA name, s : Append(s, name), <<>>, PropNamesOf(t))
    IN [st |-> Append(StructOf(t, strs), Tag("X")), strs |-> strs, rsv |-> <<0>>,
        total |-> 1000, magic |-> "fdt", structs |-> TRUE]

-----------------------------------------------------------------------------
(* The unflattened device tree of drivers/of: struct device_node with its  *)
(* parent, child and sibling pointers, the unflattening of fdt.c that      *)
(* builds it, and the lookups of base.c and property.c over it.            *)
(*                                                                         *)
(* d.node is the sequence of device nodes in the order they were created,  *)
(* and 0 is NULL:                                                          *)
(*   name  full_name;  props  sequence of <<name, value>>;  dead  the      *)
(*   removed ones;  phandle, parent, child, sibling                        *)
(* d.cache, d.aliases, d.of_aliases, d.chosen, d.stdout: phandle_cache,    *)
(* aliases_lookup, of_aliases, of_chosen and of_stdout.                    *)
(*                                                                         *)
(* Names are numbers here too; a path is a sequence of names.              *)

NULL == 0
EINVAL == -22
ENODATA == -61
EOVERFLOW == -75
EILSEQ == -84
ENOENT == -2
EEXIST == -17
ENODEV == -19
EFAULT == -14

(* The names and strings the code itself compares with.                    *)
Chosen == 4
CpusNode == 5
CpuNode == 6
Ports == 7
Port == 8
ChosenAt0 == 9
OkayStr == <<1>>
OkStr == <<2>>
CpuStr == <<3>>
Comma == 15

(* The string at the start of a value, and all strings of a value.         *)
CString(val) == SubSeq(val, 1, SelectInSeq(Append(val, 0), LAMBDA b : b = 0) - 1)
(* of_read_number: n cells from the i-th on.                               *)
ReadNumber(val, i, n) == Number(SubSeq(val, i * Word + 1, (i + n) * Word))
NCells(val) == Len(val) \div Word

-----------------------------------------------------------------------------
(* fdt.c: unflattening                                                     *)

FdtAvailable(f, o) ==
    LET p == GetProperty(f, o, "status") IN p < 0 \/ CString(PropVal(f, p)) \in {OkayStr, OkStr}

RECURSIVE FlatProps(_, _)
FlatProps(f, o) ==
    IF o < 0 THEN <<>> ELSE <<<<PropName(f, o), PropVal(f, o)>>>> \o FlatProps(f, NextPropertyOffset(f, o))
(* populate_properties: the properties in order, the phandle, and a name   *)
(* made up from the unit name when there is none.                          *)
PopulatePhandle(props) ==
    FoldLeft(LAMBDA ph, q : IF (q[1] \in {"phandle", "linux,phandle"} /\ ph = 0) \/ q[1] = "ibm,phandle"
                            THEN ReadNumber(q[2], 0, 1) ELSE ph, 0, props)
PopulateProperties(props, name) ==
    IF \E i \in DOMAIN props : props[i][1] = "name" THEN props
    ELSE Append(props, <<"name", <<Base[name], 0>>>>)

(* populate_node: linked in front of the children of its parent.           *)
PopulateNode(s, f, o, d) ==
    LET id == Len(s.node) + 1
        dad == s.nps[d]
        props == FlatProps(f, FirstPropertyOffset(f, o))
        np == [name |-> GetName(f, o), props |-> PopulateProperties(props, GetName(f, o)), dead |-> <<>>,
               phandle |-> PopulatePhandle(props), parent |-> dad, child |-> NULL,
               sibling |-> IF dad = NULL THEN NULL ELSE s.node[dad].child]
    IN  [node |-> Append(IF dad = NULL THEN s.node ELSE [s.node EXCEPT ![dad].child = id], np),
         nps |-> [s.nps EXCEPT ![d + 1] = id]]

(* unflatten_dt_nodes: nps[d] is the last node seen one level above d.  A  *)
(* node that is not available is left out; nps keeps what it had.          *)
RECURSIVE UnflattenFrom(_, _, _, _)
UnflattenFrom(s, f, o, d) ==
    IF o < 0 \/ d < 0 THEN s.node
    ELSE LET now == IF FdtAvailable(f, o) THEN PopulateNode(s, f, o, d) ELSE s
             r == NextNode(f, o, d, TRUE)
         IN UnflattenFrom(now, f, r.off, r.d)

RECURSIVE SiblingsFrom(_, _)
SiblingsFrom(node, n) == IF n = NULL THEN <<>> ELSE <<n>> \o SiblingsFrom(node, node[n].sibling)
Kids(node, n) == SiblingsFrom(node, node[n].child)
(* reverse_nodes: every child list is turned round.                        *)
(* A plausible slip: the lists stay in the order of insertion.             *)
ReverseNodesNot(node) == node
ReverseNodes(node) ==
    [n \in DOMAIN node |->
        [node[n] EXCEPT
           !.child = IF Kids(node, n) = <<>> THEN NULL ELSE Last(Kids(node, n)),
           !.sibling = IF node[n].parent = NULL THEN NULL
                       ELSE LET k == Kids(node, node[n].parent)
                                i == SelectInSeq(k, LAMBDA x : x = n)
                            IN IF i <= 1 THEN NULL ELSE k[i - 1]]]

MaxDepth == 8
Unflatten(f) == ReverseNodes(UnflattenFrom([node |-> <<>>, nps |-> [i \in 0..MaxDepth |-> NULL]], f, 0, 0))

-----------------------------------------------------------------------------
(* base.c: properties and walks                                            *)

FindProperty(node, n, name) == SelectInSeq(node[n].props, LAMBDA q : q[1] = name)
HasProp(node, n, name) == n # NULL /\ FindProperty(node, n, name) # 0
GetProp(node, n, name) == node[n].props[FindProperty(node, n, name)][2]

(* __of_find_all_nodes: the next node in depth-first order.                *)
RECURSIVE UpToSibling(_, _)
UpToSibling(node, n) ==
    IF node[n].parent # NULL /\ node[n].sibling = NULL THEN UpToSibling(node, node[n].parent)
    ELSE node[n].sibling
FindAllNodes(node, prev) ==
    IF prev = NULL THEN 1
    ELSE IF node[prev].child # NULL THEN node[prev].child ELSE UpToSibling(node, prev)
RECURSIVE AllFrom(_, _)
AllFrom(node, prev) ==
    LET n == FindAllNodes(node, prev) IN IF n = NULL THEN <<>> ELSE <<n>> \o AllFrom(node, n)
FirstOr(s) == IF s = <<>> THEN NULL ELSE s[1]

NameEq(node, n, name) == n # NULL /\ Base[node[n].name] = name
IsType(node, n, str) == HasProp(node, n, "device_type") /\ CString(GetProp(node, n, "device_type")) = str
DeviceIsAvailable(node, n) ==
    /\ n # NULL
    /\ HasProp(node, n, "status") => LET v == GetProp(node, n, "status")
                                     IN Len(v) > 0 /\ CString(v) \in {OkayStr, OkStr}

(* of_property_read_u32 of the first cell: <<>> or the value.              *)
FirstU32(v) == IF Len(v) >= Word THEN <<ReadNumber(v, 0, 1)>> ELSE <<>>
ReadU32(node, n, name) == IF HasProp(node, n, name) THEN FirstU32(GetProp(node, n, name)) ELSE <<>>
(* of_n_addr_cells, of_n_size_cells: looked for from the parent upwards.   *)
RECURSIVE NCellsUp(_, _, _)
NCellsUp(node, n, name) ==
    LET up == IF node[n].parent # NULL THEN node[n].parent ELSE n
    IN  IF ReadU32(node, up, name) # <<>> THEN ReadU32(node, up, name)[1]
        ELSE IF node[up].parent # NULL THEN NCellsUp(node, up, name) ELSE 1

(* The children, the available ones, and the cpu nodes, in order.          *)
Children(node, n) == IF n = NULL THEN <<>> ELSE Kids(node, n)
AvailableChildren(node, n) == SelectSeq(Children(node, n), LAMBDA k : DeviceIsAvailable(node, k))
GetChildByName(node, n, name) == FirstOr(SelectSeq(Children(node, n), LAMBDA k : NameEq(node, k, name)))

(* of_find_node_opts_by_path.  A path is absolute, or starts with an alias;*)
(* what follows the separator is handed back and is left out here.         *)
RECURSIVE FullPath(_, _, _)
FullPath(node, n, path) ==
    IF n = NULL \/ path = <<>> THEN n
    ELSE FullPath(node, FirstOr(SelectSeq(Kids(node, n), LAMBDA k : node[k].name = Head(path))), Tail(path))
FindNodeByPath(node, path) == FullPath(node, 1, path)
FindNodeByAlias(d, alias, path) ==
    IF d.of_aliases = NULL \/ ~HasProp(d.node, d.of_aliases, alias) THEN NULL
    ELSE LET np == FindNodeByPath(d.node, CString(GetProp(d.node, d.of_aliases, alias)))
         IN IF np = NULL THEN NULL ELSE FullPath(d.node, np, path)

CpuNodes(node) ==
    SelectSeq(Children(node, FindNodeByPath(node, <<CpusNode>>)),
              LAMBDA k : NameEq(node, k, CpuNode) \/ IsType(node, k, CpuStr))
(* __of_find_n_match_cpu_property and of_get_cpu_node; the physical id of  *)
(* a logical cpu is its number.                                            *)
CpuMatches(node, n, cpu) ==
    Bind(NCellsUp(node, n, "#address-cells"), LAMBDA ac :
    LET val == IF HasProp(node, n, "reg") THEN GetProp(node, n, "reg") ELSE <<>>
    IN  IF HasProp(node, n, "reg") /\ ac # 0
        THEN \E t \in 0..((NCells(val) \div ac) - 1) : ReadNumber(val, t * ac, ac) = cpu
        ELSE ~HasProp(node, n, "reg") /\ ac = 0 /\ cpu = 0)
GetCpuNode(node, cpu) == FirstOr(SelectSeq(CpuNodes(node), LAMBDA n : CpuMatches(node, n, cpu)))
CpuNodeToId(node, n, possible) ==
    LET ok == {c \in possible : GetCpuNode(node, c) = n}
    IN IF ok = {} THEN ENODEV ELSE CHOOSE c \in ok : \A e \in ok : c <= e

(* __of_device_is_compatible: a score, with "" for any.                    *)
AnyStr == <<>>
IntMaxHalf == 1000
IsCompatible(node, n, compat, type, name) ==
    LET list == IF HasProp(node, n, "compatible") THEN Strings(GetProp(node, n, "compatible"), <<>>) ELSE <<>>
        index == SelectInSeq(list, LAMBDA s : s = compat) - 1
    IN  IF \/ compat # AnyStr /\ index < 0
           \/ type # AnyStr /\ ~IsType(node, n, type)
           \/ name # AnyStr /\ ~NameEq(node, n, name[1])
        THEN 0
        ELSE (IF compat # AnyStr THEN IntMaxHalf - 4 * index ELSE 0)
             + (IF type # AnyStr THEN 2 ELSE 0) + (IF name # AnyStr THEN 1 ELSE 0)
DeviceIsCompatible(node, n, compat) == IsCompatible(node, n, compat, AnyStr, AnyStr)
DeviceCompatibleMatch(node, n, compats) ==
    FoldLeft(LAMBDA s, c : IF DeviceIsCompatible(node, n, c) > s THEN DeviceIsCompatible(node, n, c) ELSE s, 0, compats)

(* __of_match_node: the first entry of the table with the best score, 0    *)
(* when none matches.  An entry is [c, t, n].                              *)
MatchNode(node, n, table) ==
    FoldLeft(LAMBDA best, i :
                LET sc == IsCompatible(node, n, table[i].c, table[i].t, table[i].n)
                IN IF sc > best.score THEN [score |-> sc, i |-> i] ELSE best,
             [score |-> 0, i |-> 0], [i \in DOMAIN table |-> i]).i

FindNodeByName(node, from, name) == FirstOr(SelectSeq(AllFrom(node, from), LAMBDA n : NameEq(node, n, name)))
FindNodeByType(node, from, type) == FirstOr(SelectSeq(AllFrom(node, from), LAMBDA n : IsType(node, n, type)))
FindCompatibleNode(node, from, type, compat) ==
    FirstOr(SelectSeq(AllFrom(node, from), LAMBDA n : IsCompatible(node, n, compat, type, AnyStr) # 0))
FindNodeWithProperty(node, from, name) ==
    FirstOr(SelectSeq(AllFrom(node, from), LAMBDA n : HasProp(node, n, name)))
FindMatchingNode(node, from, table) ==
    FirstOr(SelectSeq(AllFrom(node, from), LAMBDA n : MatchNode(node, n, table) # 0))
GetCompatibleChild(node, n, compat) ==
    FirstOr(SelectSeq(Children(node, n), LAMBDA k : DeviceIsCompatible(node, k, compat) # 0))
(* of_modalias_node: what follows the vendor prefix of the first string.   *)
ModaliasNode(node, n) ==
    IF ~HasProp(node, n, "compatible") THEN <<>>
    ELSE LET s == CString(GetProp(node, n, "compatible"))
             i == SelectInSeq(s, LAMBDA b : b = Comma)
         IN SubSeq(s, i + 1, Len(s))
=============================================================================
