----------------------------- MODULE IrqDomains -----------------------------
(***************************************************************************)
(* Interrupt numbers and interrupt domains: the descriptors of             *)
(* kernel/core/irq/irqdesc.c and the mapping of hardware interrupts to     *)
(* them in irqdomain.c, flat and hierarchical.  Every operation runs under *)
(* sparse_irq_lock or irq_domain_mutex and is one step here.               *)
(*                                                                         *)
(*   nr        nr_irqs                                                     *)
(*   alloc     allocated_irqs, the bitmap                                  *)
(*   desc      irq_desc_tree: the descriptors by interrupt number          *)
(*   list      irq_domain_list;  default  irq_default_domain               *)
(*   token     bus_token;  count  mapcount;  map  revmap_tree              *)
(*   wired     the levels the controllers were told to deliver (activate)  *)
(*   open      the lines unmasked in the outermost controller              *)
(*                                                                         *)
(* A descriptor has a chain of struct irq_data, one per domain of the      *)
(* hierarchy.  The first is embedded in the descriptor (at = 0), the       *)
(* others are heap objects, and a reverse map entry points at one of them, *)
(* written <<irq, at>>.  Names are left out.  The callbacks of a domain    *)
(* (map, alloc, free, activate) belong to drivers that are not in the      *)
(* tree: they may fail, and otherwise do what the library functions for    *)
(* them do.                                                                *)
(***************************************************************************)
EXTENDS Integers, FiniteSets, Sequences, FiniteSetsExt, SequencesExt

(* Bind(v, LAMBDA x : e) is LET x == v IN e, with v evaluated once.        *)
Bind(v, Op(_)) == Op(v)

CONSTANTS BitmapBits, NrIrqs, Legacy,  \* IRQ_BITMAP_BITS, NR_IRQS, preallocated
          Doms,         \* the domains and their ops: name |-> configuration
          Boards,       \* what may be probed: the domains in the order they are
                        \* added, the firmware nodes, the trigger types tried
          Hwirqs,       \* hardware numbers tried
          MaxIrqs,      \* bound: descriptors in use at once
          None

VARIABLE ds

EINVAL == -22
ENOMEM == -12
EEXIST == -17
ENOSYS == -38

Wrap == 4      \* mapcount is unsigned; its width in the model

Drop(f, S) == [x \in DOMAIN f \ S |-> f[x]]
With(f, x, v) == [y \in DOMAIN f \cup {x} |-> IF y = x THEN v ELSE f[y]]

-----------------------------------------------------------------------------
(* irqdesc.c                                                               *)

(* desc_set_defaults: no domain, no chip, the interrupt not to be          *)
(* requested.                                                              *)
NewDesc ==
    [chain |-> <<[dom |-> None, hw |-> 0, chip |-> None, at |-> 0]>>,
     norequest |-> TRUE, type |-> 0, handler |-> FALSE, action |-> FALSE,
     active |-> FALSE]

InsertDescs(s, irqs) ==
    [s EXCEPT !.desc = [i \in DOMAIN @ \cup irqs |-> IF i \in irqs THEN NewDesc ELSE @[i]]]
FreeDescs(s, irqs) == [s EXCEPT !.desc = Drop(@, irqs)]

(* bitmap_find_next_zero_area, or a start past the end when there is none. *)
NextZeroArea(s, from, cnt) ==
    LET ok == {b \in from..(BitmapBits - cnt) : (b..(b + cnt - 1)) \cap s.alloc = {}}
    IN IF ok = {} THEN BitmapBits ELSE Min(ok)

(* alloc_descs: the allocation number f fails, none when f = cnt; those    *)
(* made before it are freed again.                                         *)
AllocDescs(s, start, cnt, f) ==
    IF f < cnt
    THEN [s |-> FreeDescs(InsertDescs(s, start..(start + f - 1)), start..(start + f - 1)),
          ret |-> ENOMEM]
    ELSE [s |-> [InsertDescs(s, start..(start + cnt - 1)) EXCEPT
                    !.alloc = @ \cup (start..(start + cnt - 1))],
          ret |-> start]

(* __irq_alloc_descs with irq_expand_nr_irqs.                              *)
IrqAllocDescs(s, irq, from0, cnt, f) ==
    LET from == IF irq >= 0 THEN irq ELSE from0
        start == NextZeroArea(s, from, cnt)
    IN  CASE cnt = 0 \/ (irq >= 0 /\ from0 > irq) -> [s |-> s, ret |-> EINVAL]
          [] OTHER ->
             CASE irq >= 0 /\ start # irq       -> [s |-> s, ret |-> EEXIST]
               [] start + cnt > BitmapBits      -> [s |-> s, ret |-> ENOMEM]
               [] OTHER -> AllocDescs([s EXCEPT !.nr = Max({@, start + cnt})], start, cnt, f)

IrqFreeDescs(s, from, cnt) ==
    IF from >= s.nr \/ from + cnt > s.nr THEN s
    ELSE [FreeDescs(s, from..(from + cnt - 1)) EXCEPT !.alloc = @ \ (from..(from + cnt - 1))]

(* irq_domain_alloc_descs: from the hint hwirq % nr_irqs, then from 1.     *)
DomainAllocDescs(s, virq, cnt, hw, f, g) ==
    IF virq >= 0 THEN IrqAllocDescs(s, virq, virq, cnt, f)
    ELSE LET hint == IF hw % s.nr = 0 THEN 1 ELSE hw % s.nr
             r == IrqAllocDescs(s, -1, hint, cnt, f)
         IN IF r.ret <= 0 /\ hint > 1 THEN IrqAllocDescs(r.s, -1, 1, cnt, g) ELSE r

-----------------------------------------------------------------------------
(* chip.c, as far as a descriptor's chain goes.                            *)

Chain(s, v) == s.desc[v].chain
Root(s, v) == Chain(s, v)[1]
SetRoot(s, v, r) == [s EXCEPT !.desc[v].chain[1] = r]

(* irq_modify_status: the settings change, the trigger type stays.         *)
ModifyStatus(s, v, norequest) == [s EXCEPT !.desc[v].norequest = norequest]

(* irq_set_chip_and_handler(irq, NULL, NULL): the chip goes first.         *)
UnsetChipAndHandler(s, v) ==
    [s EXCEPT !.desc[v].chain[1].chip = None, !.desc[v].handler = FALSE]

(* __irq_set_handler: installed when some level has a chip.                *)
SetHandler(s, v) ==
    IF \A k \in DOMAIN Chain(s, v) : Chain(s, v)[k].chip = None THEN s
    ELSE [s EXCEPT !.desc[v].handler = TRUE]

(* irq_chip_mask_parent, irq_chip_unmask_parent, irq_chip_enable_parent    *)
(* and irq_chip_disable_parent: every chip but the last hands the call on. *)
Line(chain) == <<chain[Len(chain)].dom, chain[Len(chain)].hw>>

-----------------------------------------------------------------------------
(* Reverse maps.                                                           *)

(* radix_tree_insert refuses a second entry, and its error is ignored.     *)
SetMapping(s, dom, hw, p) ==
    IF hw \in DOMAIN s.map[dom] THEN s ELSE [s EXCEPT !.map[dom] = With(@, hw, p)]
ClearMapping(s, dom, hw) == [s EXCEPT !.map[dom] = Drop(@, {hw})]

(* A plausible slip: the entry is left pointing at the old location.       *)
FixRevmapNot(s, dom, hw, p) == s
FixRevmap(s, dom, hw, p) ==
    IF hw \in DOMAIN s.map[dom] THEN [s EXCEPT !.map[dom][hw] = p] ELSE s

FindMapping(s, dom0, hw) ==
    LET dom == IF dom0 = None THEN s.default ELSE dom0
    IN IF dom = None \/ (dom # None /\ hw \notin DOMAIN s.map[dom]) THEN 0 ELSE s.map[dom][hw][1]

(* __handle_domain_irq, generic_handle_irq: the descriptor that handles.   *)
HandleDomainIrq(s, dom, hw) ==
    LET v == FindMapping(s, dom, hw)
    IN IF v = 0 \/ v >= s.nr \/ v \notin DOMAIN s.desc THEN None ELSE v

-----------------------------------------------------------------------------
(* Flat domains.                                                           *)

Associate(s, dom, v, hw, fail) ==
    CASE hw >= Doms[dom].max \/ v \notin DOMAIN s.desc -> [s |-> s, ret |-> EINVAL]
      [] OTHER ->
         CASE Root(s, v).dom # None -> [s |-> s, ret |-> EINVAL]
           [] fail  -> [s |-> SetRoot(s, v, [Root(s, v) EXCEPT !.dom = None, !.hw = 0]), ret |-> EINVAL]
           [] OTHER ->
              LET t == SetRoot(s, v, [Root(s, v) EXCEPT !.dom = dom, !.hw = hw, !.chip = dom])
                  u == SetMapping([t EXCEPT !.count[dom] = (@ + 1) % Wrap], dom, hw, <<v, 0>>)
              IN [s |-> ModifyStatus(SetHandler(u, v), v, FALSE), ret |-> 0]

(* irq_domain_associate_many goes on after an interrupt that fails.        *)
AssociateMany(s, dom, v, hw, cnt, fail) ==
    FoldLeftDomain(LAMBDA t, i : Associate(t, dom, v + i - 1, hw + i - 1, fail = i).s,
                   s, [i \in 1..cnt |-> i])

Disassociate(s, dom, v) ==
    IF v \notin DOMAIN s.desc THEN s
    ELSE IF Root(s, v).dom # dom THEN s
    ELSE LET hw == Root(s, v).hw
             t == UnsetChipAndHandler(ModifyStatus(s, v, TRUE), v)
             u == SetRoot(t, v, [Root(t, v) EXCEPT !.dom = None, !.hw = 0])
         IN ClearMapping([u EXCEPT !.count[dom] = (@ + Wrap - 1) % Wrap], dom, hw)

(* irq_create_mapping; the descriptor is freed if it cannot be associated. *)
CreateMapping(s, dom0, hw, f, g, fail) ==
    LET dom == IF dom0 = None THEN s.default ELSE dom0
    IN  IF dom = None THEN [s |-> s, ret |-> 0]
        ELSE IF FindMapping(s, dom, hw) # 0 THEN [s |-> s, ret |-> FindMapping(s, dom, hw)]
        ELSE Bind(DomainAllocDescs(s, -1, 1, hw, f, g), LAMBDA r :
                IF r.ret <= 0 THEN [s |-> r.s, ret |-> 0]
                ELSE LET a == Associate(r.s, dom, r.ret, hw, fail)
                     IN IF a.ret # 0 THEN [s |-> IrqFreeDescs(a.s, r.ret, 1), ret |-> 0]
                        ELSE [s |-> a.s, ret |-> r.ret])

CreateStrictMappings(s, dom, v, hw, cnt, f, fail) ==
    LET r == IrqAllocDescs(s, v, v, cnt, f)
    IN IF r.ret < 0 THEN r ELSE [s |-> AssociateMany(r.s, dom, v, hw, cnt, fail), ret |-> 0]

-----------------------------------------------------------------------------
(* Hierarchies.                                                            *)

(* The domain and its parents, outermost controller last.                  *)
Up[n \in 0..Cardinality(DOMAIN Doms), dom \in DOMAIN Doms \cup {None}] ==
    IF dom = None \/ n = 0 THEN <<>> ELSE <<dom>> \o Up[n - 1, Doms[dom].parent]
Ancestry(dom) == Up[Cardinality(DOMAIN Doms), dom]

(* irq_domain_alloc_irq_data: the allocation number f of all fails; what   *)
(* was built of this and the earlier interrupts is taken down again.       *)
FreeIrqData(s, v, cnt) ==
    [s EXCEPT !.desc = [i \in DOMAIN @ |->
        IF i \in v..(v + cnt - 1)
        THEN [@[i] EXCEPT !.chain = <<[@[1] EXCEPT !.dom = None]>>] ELSE @[i]]]
AllocIrqData(s, dom, v, cnt, f) ==
    LET heap == Len(Ancestry(dom)) - 1
        full == [s EXCEPT !.desc = [i \in DOMAIN @ |->
                    IF i \in v..(v + cnt - 1)
                    THEN [@[i] EXCEPT !.chain = [k \in DOMAIN Ancestry(dom) |->
                            [dom |-> Ancestry(dom)[k], hw |-> 0, chip |-> None, at |-> k - 1]]]
                    ELSE @[i]]]
    IN IF f < heap * cnt THEN [s |-> FreeIrqData(s, v, f \div heap + 1), ret |-> ENOMEM]
       ELSE [s |-> full, ret |-> 0]

(* The alloc callback of the domain at level k of the chain: the parents   *)
(* allocate first, then irq_domain_set_hwirq_and_chip; a domain that was   *)
(* pushed on top has its parents already.  hws gives each domain a number. *)
DriverAlloc(s, dom, v, cnt, hws, fail) ==
    LET doms == IF Doms[dom].pushed THEN {dom} ELSE Range(Ancestry(dom))
        done == {d \in doms : \/ fail \notin doms
                              \/ Len(Ancestry(d)) < Len(Ancestry(fail))}
        set(c, i) == [k \in DOMAIN c |->
            IF c[k].dom \in done THEN [c[k] EXCEPT !.hw = hws[c[k].dom] + i - v, !.chip = c[k].dom]
            ELSE c[k]]
        t == [s EXCEPT !.desc = [i \in DOMAIN @ |->
                IF i \in v..(v + cnt - 1) THEN [@[i] EXCEPT !.chain = set(@, i)] ELSE @[i]]]
    IN [s |-> t, ret |-> IF fail \in doms THEN EINVAL ELSE 0]

(* irq_domain_insert_irq and irq_domain_remove_irq walk the whole chain.   *)
InsertIrq(s, v) ==
    ModifyStatus(SetHandler(
        FoldLeft(LAMBDA t, e : SetMapping([t EXCEPT !.count[e.dom] = (@ + 1) % Wrap], e.dom, e.hw, <<v, e.at>>),
                 s, Chain(s, v)), v), v, FALSE)
RemoveIrq(s, v) ==
    LET t == UnsetChipAndHandler(ModifyStatus(s, v, TRUE), v)
    IN FoldLeft(LAMBDA u, e : ClearMapping([u EXCEPT !.count[e.dom] = (@ + Wrap - 1) % Wrap], e.dom, e.hw),
                t, Chain(t, v))

EachIrq(Op(_, _), s, v, cnt) == FoldLeft(LAMBDA t, i : Op(t, v + i), s, [i \in 1..cnt |-> i - 1])

(* __irq_domain_alloc_irqs: what fails is undone back to the descriptors,  *)
(* those the caller brought along (realloc) included.                      *)
DomainAllocIrqs(s, dom0, base, cnt, realloc, hws, f, g, h, fail) ==
    LET dom == IF dom0 = None THEN s.default ELSE dom0
    IN  CASE dom = None -> [s |-> s, ret |-> EINVAL]
          [] OTHER ->
             IF ~Doms[dom].hier THEN [s |-> s, ret |-> ENOSYS]
             ELSE Bind(IF realloc /\ base >= 0 THEN [s |-> s, ret |-> base]
                       ELSE DomainAllocDescs(s, base, cnt, 0, f, g), LAMBDA r :
                     IF r.ret < 0 THEN r
                     ELSE LET d == AllocIrqData(r.s, dom, r.ret, cnt, h)
                          IN IF d.ret # 0
                             THEN [s |-> IrqFreeDescs(d.s, r.ret, cnt), ret |-> d.ret]
                             ELSE LET a == DriverAlloc(d.s, dom, r.ret, cnt, hws, fail)
                                  IN IF a.ret < 0
                                     THEN [s |-> IrqFreeDescs(FreeIrqData(a.s, r.ret, cnt), r.ret, cnt),
                                           ret |-> a.ret]
                                     ELSE [s |-> EachIrq(InsertIrq, a.s, r.ret, cnt), ret |-> r.ret])

(* irq_domain_free_irqs_common as the free callback: the levels are reset. *)
DriverFree(s, v, cnt) ==
    [s EXCEPT !.desc = [i \in DOMAIN @ |->
        IF i \in v..(v + cnt - 1)
        THEN [@[i] EXCEPT !.chain = [k \in DOMAIN @ |-> [@[k] EXCEPT !.hw = 0, !.chip = None]]]
        ELSE @[i]]]
DomainFreeIrqs(s, v, cnt) ==
    IrqFreeDescs(FreeIrqData(DriverFree(EachIrq(RemoveIrq, s, v, cnt), v, cnt), v, cnt), v, cnt)

DisposeMapping(s, v) ==
    IF v = 0 \/ v \notin DOMAIN s.desc THEN s
    ELSE IF Root(s, v).dom = None THEN s
    ELSE IF Doms[Root(s, v).dom].hier THEN DomainFreeIrqs(s, v, 1)
    ELSE IrqFreeDescs(Disassociate(s, Root(s, v).dom, v), v, 1)

(* irq_domain_push_irq: the root moves to a heap object.                   *)
FreshAt(chain) == 1 + Max({chain[k].at : k \in DOMAIN chain})
PushIrq(s, dom, v, hws, fail) ==
    LET child == [Root(s, v) EXCEPT !.at = FreshAt(Chain(s, v))]
        t == [s EXCEPT !.desc[v].chain =
                <<[dom |-> dom, hw |-> 0, chip |-> None, at |-> 0], child>> \o Tail(@)]
        a == DriverAlloc(t, dom, v, 1, hws, fail)
    IN IF a.ret # 0 THEN s
       ELSE SetMapping(FixRevmap(a.s, child.dom, child.hw, <<v, child.at>>),
                       dom, Root(a.s, v).hw, <<v, 0>>)

(* irq_domain_pop_irq: the heap object moves back into the descriptor.     *)
PopIrq(s, dom, v) ==
    LET t == ClearMapping(s, dom, Root(s, v).hw)
        c == [Chain(s, v)[2] EXCEPT !.at = 0]
    IN FixRevmap([t EXCEPT !.desc[v].chain = <<c>> \o Tail(Tail(@))], c.dom, c.hw, <<v, 0>>)

-----------------------------------------------------------------------------
(* Activation.                                                             *)

Levels(chain, ks) == {<<chain[k].dom, chain[k].hw>> : k \in ks}

(* __irq_domain_activate_irq: the parents first; when level k fails the    *)
(* levels below it are deactivated again.                                  *)
ActivateIrq(s, v, k) ==
    LET c == Chain(s, v)
    IN IF k \in DOMAIN c
       THEN [s |-> [s EXCEPT !.wired = (@ \cup Levels(c, (k + 1)..Len(c)))
                                       \ Levels(c, (k + 1)..Len(c))],
             ret |-> EINVAL]
       ELSE [s |-> [s EXCEPT !.wired = @ \cup Levels(c, DOMAIN c), !.desc[v].active = TRUE],
             ret |-> 0]
DeactivateIrq(s, v) ==
    IF ~s.desc[v].active THEN s
    ELSE [s EXCEPT !.wired = @ \ Levels(Chain(s, v), DOMAIN Chain(s, v)), !.desc[v].active = FALSE]

-----------------------------------------------------------------------------
(* Firmware specifiers.                                                    *)

(* irq_find_matching_fwspec: the newest domain of the node with that token.*)
MatchingFwspec(s, node, token) ==
    LET ok == {k \in DOMAIN s.list : /\ Doms[s.list[k]].node = node
                                     /\ token = "any" \/ s.token[s.list[k]] = token}
    IN IF ok = {} THEN None ELSE s.list[Min(ok)]
FwspecDomain(s, node) ==
    IF node = None THEN s.default
    ELSE IF MatchingFwspec(s, node, "wired") # None THEN MatchingFwspec(s, node, "wired")
    ELSE MatchingFwspec(s, node, "any")

(* The xlate functions: the hardware number and the trigger type.          *)
Xlate(dom, cells) ==
    CASE Doms[dom].xlate = "onecell" /\ Len(cells) >= 1 -> [ok |-> TRUE, hw |-> cells[1], type |-> 0]
      [] Doms[dom].xlate = "twocell" /\ Len(cells) >= 2 -> [ok |-> TRUE, hw |-> cells[1], type |-> cells[2]]
      [] Doms[dom].xlate = "onetwocell" /\ Len(cells) >= 1 ->
            [ok |-> TRUE, hw |-> cells[1], type |-> IF Len(cells) > 1 THEN cells[2] ELSE 0]
      [] Doms[dom].xlate = "none" -> [ok |-> TRUE, hw |-> cells[1], type |-> 0]
      [] OTHER -> [ok |-> FALSE, hw |-> 0, type |-> 0]

(* irq_create_fwspec_mapping                                               *)
MapExisting(s, v, type) ==
    CASE type = 0 \/ type = s.desc[v].type -> [s |-> s, ret |-> v]
      [] s.desc[v].type = 0 -> [s |-> [s EXCEPT !.desc[v].type = type], ret |-> v]
      [] OTHER -> [s |-> s, ret |-> 0]
MapNew(s, dom, x, hws, f, g, h, fail) ==
    Bind(IF Doms[dom].hier
         THEN DomainAllocIrqs(s, dom, -1, 1, FALSE, [hws EXCEPT ![dom] = x.hw], f, g, h, fail)
         ELSE CreateMapping(s, dom, x.hw, f, g, fail = dom), LAMBDA r :
       IF r.ret <= 0 THEN [s |-> r.s, ret |-> 0]
       ELSE [s |-> [r.s EXCEPT !.desc[r.ret].type = x.type], ret |-> r.ret])
FwspecMapping(s, node, cells, hws, f, g, h, fail) ==
    LET dom == FwspecDomain(s, node)
    IN  IF dom = None THEN [s |-> s, ret |-> 0]
        ELSE LET x == Xlate(dom, cells)
             IN IF ~x.ok THEN [s |-> s, ret |-> 0]
                ELSE IF FindMapping(s, dom, x.hw) # 0
                     THEN MapExisting(s, FindMapping(s, dom, x.hw), x.type)
                     ELSE MapNew(s, dom, x, hws, f, g, h, fail)

-----------------------------------------------------------------------------
(* The actions.  A failure is chosen by the number of the allocation or    *)
(* the domain that fails; every bound below is a bound of the exploration. *)
(* A call meets one failure: of the descriptors at the hinted number, of   *)
(* the chain's data, or of a domain's callback.                            *)
OneFault(f, h, fail) == Cardinality({i \in 1..3 : <<f, h, fail # None>>[i]}) <= 1

(* early_irq_init *)
DomainsInit ==
    \E board \in Boards :
    ds = [board |-> board, nr |-> Max({NrIrqs, Legacy}), alloc |-> 0..(Legacy - 1),
          desc |-> [i \in 0..(Legacy - 1) |-> NewDesc],
          list |-> <<>>, default |-> None,
          token |-> [d \in DOMAIN Doms |-> "any"],
          count |-> [d \in DOMAIN Doms |-> 0],
          map |-> [d \in DOMAIN Doms |-> <<>>],
          wired |-> {}, open |-> {}]

Listed(dom) == \E k \in DOMAIN ds.list : ds.list[k] = dom
Quiet(v) == v \in DOMAIN ds.desc /\ ~ds.desc[v].action
Unmapped(dom, hw) == hw \notin DOMAIN ds.map[dom]
Room(n) == Cardinality(DOMAIN ds.desc) + n <= MaxIrqs
Step(r) == ds' = r.s
Do(s) == ds' = s

(* A hierarchy allocates numbers of its own that are free; a specifier     *)
(* names the number in the domain it is for.                               *)
FreeHw(dom, cnt) ==
    {h \in Hwirqs : \A i \in 0..(cnt - 1) : Unmapped(dom, h + i) /\ h + i < Doms[dom].max}
HwChoice(cnt) ==
    [d \in DOMAIN Doms |-> IF FreeHw(d, cnt) = {} THEN 0 ELSE Min(FreeHw(d, cnt))]
HasFree(dom, cnt) == \A d \in Range(Ancestry(dom)) : FreeHw(d, cnt) # {}
Faults(dom) == {None} \cup Range(Ancestry(dom))

(* __irq_domain_add, irq_domain_create_hierarchy: at the head of the list, *)
(* in the order the drivers probe.                                         *)
DomainAdd ==
    /\ Len(ds.list) < Len(ds.board.probe)
    /\ \E dom \in {ds.board.probe[Len(ds.list) + 1]} :
          Do([ds EXCEPT !.list = <<dom>> \o @, !.token[dom] = "any", !.count[dom] = 0])

(* irq_domain_remove, once the mappings are gone as its caller must see to.*)
DomainRemove ==
    /\ ds.list # <<>> /\ ds.map[ds.list[1]] = <<>>
    /\ Do([ds EXCEPT !.list = Tail(@), !.default = IF @ = ds.list[1] THEN None ELSE @])

UpdateBusToken ==
    \E dom \in DOMAIN Doms :
       Listed(dom) /\ Doms[dom].wired /\ ds.token[dom] = "any" /\ Do([ds EXCEPT !.token[dom] = "wired"])

SetDefaultHost ==
    \E dom \in DOMAIN Doms \cup {None} :
       (dom # None => Listed(dom) /\ Doms[dom].host) /\ Do([ds EXCEPT !.default = dom])

(* The mapping calls of flat domains.  A number that is mapped already is  *)
(* not given to irq_domain_associate or irq_create_strict_mappings again.  *)
DoCreateMapping ==
    \E dom \in DOMAIN Doms \cup {None}, hw \in Hwirqs, f, g \in 0..1, fail \in BOOLEAN :
       /\ Room(1)
       /\ (dom = None /\ ds.default # None) => ~Doms[ds.default].hier
       /\ dom # None => Listed(dom) /\ ~Doms[dom].hier
       /\ Step(CreateMapping(ds, dom, hw, f, g, fail))

DoStrictMappings ==
    \E dom \in DOMAIN Doms, v \in 1..(BitmapBits - 1), hw \in Hwirqs, cnt \in 1..2, f, fail \in 0..2 :
       /\ Room(cnt) /\ Listed(dom) /\ ~Doms[dom].hier /\ f <= cnt /\ fail <= cnt
       /\ \A i \in 0..(cnt - 1) : Unmapped(dom, hw + i)
       /\ Step(CreateStrictMappings(ds, dom, v, hw, cnt, f, fail))

DoAssociate ==
    \E dom \in DOMAIN Doms, v \in 1..(BitmapBits - 1), hw \in Hwirqs, fail \in BOOLEAN :
       /\ Listed(dom) /\ ~Doms[dom].hier /\ Unmapped(dom, hw)
       /\ Step(Associate(ds, dom, v, hw, fail))

DoDisassociate ==
    \E dom \in DOMAIN Doms, v \in DOMAIN ds.desc :
       Quiet(v) /\ Listed(dom) /\ ~Doms[dom].hier /\ Do(Disassociate(ds, dom, v))

(* Descriptors without a domain, for a driver that maps them itself.       *)
DoAllocDescs ==
    \E irq \in -1..(BitmapBits - 1), from \in 0..1, cnt \in 0..2, f \in 0..2 :
       irq # 0 /\ Room(cnt) /\ f <= cnt /\ Step(IrqAllocDescs(ds, irq, from, cnt, f))
DoFreeDescs ==
    \E v \in DOMAIN ds.desc :
       Quiet(v) /\ Root(ds, v).dom = None /\ Do(IrqFreeDescs(ds, v, 1))

(* __irq_domain_alloc_irqs and irq_domain_free_irqs; realloc is for        *)
(* descriptors that have no domain yet.                                    *)
DoAllocIrqs ==
    \E dom \in DOMAIN Doms, base \in {-1} \cup (1..2), cnt \in 1..2, realloc \in BOOLEAN, f \in {0, 2}, h \in 0..4 :
       /\ Listed(dom) /\ ~Doms[dom].pushed
       /\ Doms[dom].hier => HasFree(dom, cnt)
       /\ (~realloc \/ base < 0) => Room(cnt)
       /\ realloc => \A i \in 0..(cnt - 1) :
             base + i \in DOMAIN ds.desc => Root(ds, base + i).dom = None
       /\ (realloc /\ base >= 0) => \A i \in 0..(cnt - 1) : base + i \in DOMAIN ds.desc
       /\ \E fail \in Faults(dom) :
             /\ OneFault(f = 0, h < 4, fail)
             /\ Step(DomainAllocIrqs(ds, dom, base, cnt, realloc, HwChoice(cnt), f, cnt, h, fail))

DoFreeIrqs ==
    \E v \in DOMAIN ds.desc, cnt \in 1..2 :
       /\ \A i \in 0..(cnt - 1) : Quiet(v + i)
       /\ Root(ds, v).dom # None /\ Doms[Root(ds, v).dom].hier
       /\ \A i \in 0..(cnt - 1) : Root(ds, v + i).dom = Root(ds, v).dom
       /\ Do(DomainFreeIrqs(ds, v, cnt))

DoDispose == \E v \in DOMAIN ds.desc : Quiet(v) /\ Do(DisposeMapping(ds, v))

DoFwspec ==
    \E node \in ds.board.nodes \cup {None}, hw \in Hwirqs, type \in {-1} \cup ds.board.types, f, g \in 0..1, h \in 0..2 :
       LET cells == IF type < 0 THEN <<hw>> ELSE <<hw, type>>
           dom == FwspecDomain(ds, node)
       IN /\ Room(1)
          /\ dom # None => (~Doms[dom].hier \/ HasFree(dom, 1)) /\ ~Doms[dom].pushed
          /\ \E fail \in IF dom = None THEN {None} ELSE Faults(dom) :
                /\ OneFault(f = 0, h < 2, fail)
                /\ Step(FwspecMapping(ds, node, cells, HwChoice(1), f, g, h, fail))

(* irq_domain_push_irq and irq_domain_pop_irq, between requests.           *)
DoPush ==
    \E dom \in DOMAIN Doms, v \in DOMAIN ds.desc, fail \in BOOLEAN :
       /\ Quiet(v) /\ Listed(dom) /\ Doms[dom].pushed /\ FreeHw(dom, 1) # {}
       /\ Doms[dom].parent = Root(ds, v).dom
       /\ Do(PushIrq(ds, dom, v, HwChoice(1), IF fail THEN dom ELSE None))
DoPop ==
    \E dom \in DOMAIN Doms, v \in DOMAIN ds.desc :
       /\ Quiet(v) /\ Root(ds, v).dom = dom /\ Len(Chain(ds, v)) > 1 /\ Doms[dom].pushed
       /\ Do(PopIrq(ds, dom, v))

(* A driver requests the interrupt (activation, then the line is opened    *)
(* through the chips) and frees it.                                        *)
RequestIrq ==
    \E v \in DOMAIN ds.desc, k \in 0..3 :
       /\ Quiet(v) /\ ~ds.desc[v].norequest /\ ds.desc[v].handler
       /\ LET r == ActivateIrq(ds, v, k)
          IN IF r.ret # 0 THEN Step(r)
             ELSE Do([r.s EXCEPT !.desc[v].action = TRUE, !.open = @ \cup {Line(Chain(ds, v))}])
FreeIrq ==
    \E v \in DOMAIN ds.desc :
       /\ ds.desc[v].action
       /\ Do([DeactivateIrq(ds, v) EXCEPT !.desc[v].action = FALSE, !.open = @ \ {Line(Chain(ds, v))}])

DomainsNext ==
    \/ DomainAdd \/ DomainRemove \/ UpdateBusToken \/ SetDefaultHost
    \/ DoCreateMapping \/ DoStrictMappings \/ DoAssociate \/ DoDisassociate
    \/ DoAllocDescs \/ DoFreeDescs \/ DoAllocIrqs \/ DoFreeIrqs \/ DoDispose
    \/ DoFwspec \/ DoPush \/ DoPop \/ RequestIrq \/ FreeIrq

-----------------------------------------------------------------------------
Mapped(v) == Root(ds, v).dom # None

(* The number space, the reverse maps and the hierarchies agree after any  *)
(* sequence of calls and failures (irqdesc.c, irqdomain.c): the bitmap     *)
(* holds the numbers that have a descriptor, all below nr_irqs; a reverse  *)
(* map entry leads to the one live irq_data of that domain and hardware    *)
(* number, and every irq_data of a mapped interrupt is found by one, so a  *)
(* hardware interrupt is handled by the descriptor mapped to it; the       *)
(* chain of an interrupt follows the parents of its domain; mapcount       *)
(* counts the entries of a domain that is never pushed; a mapped interrupt *)
(* can be requested and no other; and the controllers are told to deliver, *)
(* level by level, the interrupts in use and no others.                    *)
DomainsExact ==
    /\ DOMAIN ds.desc = ds.alloc /\ ds.alloc \subseteq 0..(ds.nr - 1) /\ ds.nr <= BitmapBits
    /\ \A dom \in DOMAIN Doms :
          /\ {<<hw, ds.map[dom][hw]>> : hw \in DOMAIN ds.map[dom]}
               = UNION {{<<Chain(ds, v)[k].hw, <<v, Chain(ds, v)[k].at>>>> :
                            k \in {j \in DOMAIN Chain(ds, v) : Chain(ds, v)[j].dom = dom}} :
                         v \in DOMAIN ds.desc}
          /\ (~ \E d \in DOMAIN Doms : Doms[d].pushed /\ d = dom)
                => ds.count[dom] = Cardinality(DOMAIN ds.map[dom])
    /\ \A v \in DOMAIN ds.desc :
          /\ Mapped(v) => [k \in DOMAIN Chain(ds, v) |-> Chain(ds, v)[k].dom] = Ancestry(Root(ds, v).dom)
          /\ \A k \in DOMAIN Chain(ds, v) :
                Mapped(v) => HandleDomainIrq(ds, Chain(ds, v)[k].dom, Chain(ds, v)[k].hw) = v
          /\ ds.desc[v].norequest = ~Mapped(v)
          /\ ~Mapped(v) => Len(Chain(ds, v)) = 1 /\ Root(ds, v).hw = 0
          /\ ds.desc[v].active = ds.desc[v].action
    /\ ds.wired = UNION {Levels(Chain(ds, v), DOMAIN Chain(ds, v)) :
                           v \in {w \in DOMAIN ds.desc : ds.desc[w].action}}
    /\ ds.open = {Line(Chain(ds, v)) : v \in {w \in DOMAIN ds.desc : ds.desc[w].action}}
    /\ ds.default = None \/ Listed(ds.default)
=============================================================================
