----------------------------- MODULE MCServices -----------------------------
(***************************************************************************)
(* What drivers rely on, in one instance: interrupts and their domains,    *)
(* bus addresses, soft interrupts, cross calls and reference counts.  part *)
(* says which component a behaviour is of and never changes.               *)
(***************************************************************************)
EXTENDS IrqDomains

CONSTANTS c1, c2

VARIABLES part,
          inner      \* the state of the others but "domains"

vars == <<part, inner, ds>>

-----------------------------------------------------------------------------
\* A linear domain and one of a hierarchy; a hierarchy of three, whose last
\* domain is pushed onto an interrupt later.  Three interrupt numbers, of
\* which the first is not given out, and two hardware numbers.
Domain(parent, hier, max, wired, node, xlate) ==
    [parent |-> parent, hier |-> hier, pushed |-> node = "n3", max |-> max, wired |-> wired,
     host |-> ~hier, node |-> node, xlate |-> xlate]
Domains == [flat |-> Domain("none", FALSE, 1, FALSE, "n1", "onetwocell"),
            gic |-> Domain("none", TRUE, 4, TRUE, "n2", "twocell"),
            its |-> Domain("none", TRUE, 4, FALSE, "n2", "twocell"),
            msi |-> Domain("its", TRUE, 4, FALSE, "n2", "none"),
            top |-> Domain("msi", TRUE, 4, FALSE, "n3", "onecell")]
TwoBoards == {[probe |-> <<"gic", "flat">>, nodes |-> {"n1", "n2"}, types |-> {1, 2}],
              [probe |-> <<"its", "msi", "top">>, nodes |-> {"n2"}, types |-> {1}]}

-----------------------------------------------------------------------------
\* Two buses under a root: plain, PCI and ISA ones, with one or more windows,
\* an empty "ranges" or none.
Window(f, c, p, len) == [f |-> f, c |-> c, p |-> p, s |-> len]
NoWindows == <<"none", <<>>>>
Windows(e) == <<"some", e>>
BusNode(k, na, ns, r, dma, co) == [kind |-> k, na |-> na, ns |-> ns, ranges |-> r, dma |-> dma, coherent |-> co]
ThreeWindows == Windows(<<Window(2, 1, 2, 2), Window(2, 2, 6, 2), Window(1, 0, 9, 3)>>)
TwoWindows == Windows(<<Window(2, 0, 3, 3), Window(2, 3, 6, 2)>>)
SomeRoots == {BusNode("default", na, ns, NoWindows, NoWindows, FALSE) : na \in {1, 2}, ns \in {0, 1}}
SomeBuses == {BusNode("default", 1, 1, ThreeWindows, TwoWindows, FALSE),
              BusNode("default", 2, 2, TwoWindows, NoWindows, TRUE),
              BusNode("default", 1, 2, Windows(<<>>), Windows(<<>>), FALSE),
              BusNode("default", 2, 0, ThreeWindows, NoWindows, FALSE),
              BusNode("pci", 3, 2, TwoWindows, ThreeWindows, FALSE),
              BusNode("pci", 3, 2, ThreeWindows, NoWindows, FALSE),
              BusNode("isa", 2, 1, ThreeWindows, NoWindows, FALSE),
              BusNode("default", 1, 1, NoWindows, NoWindows, FALSE)}
SomeRegs == {<<>>, <<[f |-> 2, a |-> 3, s |-> 2], [f |-> 1, a |-> 1, s |-> 1]>>}
Address == INSTANCE OfAddress WITH
    ba <- inner, Word <- 2, Header <- 2, Base <- [n \in 0 .. 14 |-> n], MaxBuses <- 2, MaxAddr <- 9,
    RootBuses <- SomeRoots, Buses <- SomeBuses, Regs <- SomeRegs

-----------------------------------------------------------------------------
Conf(flow, chip, oneshot, unlazy, managed) ==
    [flow |-> flow, chip |-> chip, oneshot |-> oneshot, unlazy |-> unlazy, managed |-> managed]

\* Every flow handler over a plain chip, one that acknowledges as it masks and,
\* for some, one that enables; with IRQS_ONESHOT where the handler looks at it;
\* lines that are disabled at once, with an affinity the kernel manages.
Flows == {"level", "fasteoi", "edge", "edge_eoi", "fasteoi_ack", "fasteoi_mask",
          "simple", "untracked", "nested", "percpu", "percpu_devid"}
Oneshots == {"fasteoi", "fasteoi_ack", "fasteoi_mask"}
Confs ==
    {Conf(f, ch, FALSE, FALSE, "no") : f \in Flows, ch \in {{}, {"mask_ack"}}}
    \cup {Conf(f, {"enable", "startup"}, FALSE, FALSE, "no") : f \in {"level", "edge", "percpu_devid"}}
    \cup {Conf(f, {}, TRUE, FALSE, "no") : f \in Oneshots}
    \cup {Conf(f, {}, FALSE, TRUE, m) : f \in {"edge", "level"}, m \in {"no", "online", "offline"}}

Cpus == {0, 1, 2}

Irq  == INSTANCE IrqFlow WITH irq <- inner, Cpus <- {c1, c2}, Confs <- Confs
Soft == INSTANCE SoftIrq WITH si <- inner, NrSoftirqs <- 2, MaxRestart <- 2, MaxBh <- 2
Call == INSTANCE CrossCall WITH call <- inner, Cpus <- Cpus, Boot <- 0, Wired <- TRUE, MaxCalls <- 2
Refs == INSTANCE DecAndLock WITH dl <- inner, Threads <- {"t1", "t2", "t3"}

Init == \/ part = "domains" /\ DomainsInit /\ inner = 0
        \/ /\ ds = 0
           /\ \/ part = "irq" /\ Irq!Init
              \/ part = "softirq" /\ Soft!Init
              \/ part = "call" /\ Call!Init
              \/ part = "refs" /\ Refs!Init
              \/ part = "address" /\ Address!AddressInit

Next == /\ \/ part = "domains" /\ DomainsNext /\ UNCHANGED inner
           \/ /\ \/ part = "irq" /\ Irq!Next
                 \/ part = "softirq" /\ Soft!Next
                 \/ part = "call" /\ Call!Next
                 \/ part = "refs" /\ Refs!Next
                 \/ part = "address" /\ Address!AddressNext
              /\ UNCHANGED ds
        /\ UNCHANGED part

IrqFairness ==
    \A c \in {c1, c2} : /\ WF_vars(part = "irq" /\ Irq!Deliver(c) /\ UNCHANGED <<part, ds>>)
                       /\ WF_vars(part = "irq" /\ Irq!CpuStep(c) /\ UNCHANGED <<part, ds>>)

SoftFairness ==
    /\ WF_vars(part = "softirq" /\ Soft!IrqLeave /\ UNCHANGED <<part, ds>>)
    /\ SF_vars(part = "softirq" /\ Soft!RunVector /\ UNCHANGED <<part, ds>>)
    /\ SF_vars(part = "softirq" /\ (\E again \in BOOLEAN : Soft!SoftirqDone(again)) /\ UNCHANGED <<part, ds>>)
    /\ SF_vars(part = "softirq" /\ Soft!LocalBhEnable /\ UNCHANGED <<part, ds>>)
    /\ SF_vars(part = "softirq" /\ Soft!LocalBhEnable /\ inner.bh = 1 /\ UNCHANGED <<part, ds>>)
    /\ SF_vars(part = "softirq" /\ Soft!Schedule /\ inner.runner = "task" /\ UNCHANGED <<part, ds>>)
    /\ SF_vars(part = "softirq" /\ Soft!RunKsoftirqd /\ UNCHANGED <<part, ds>>)
    /\ SF_vars(part = "softirq" /\ Soft!SpawnKsoftirqd /\ UNCHANGED <<part, ds>>)

CallFairness ==
    \A c \in Cpus : /\ WF_vars(part = "call" /\ Call!Step(c) /\ UNCHANGED <<part, ds>>)
                   /\ WF_vars(part = "call" /\ Call!HandleCallIpi(c) /\ UNCHANGED <<part, ds>>)

Spec == Init /\ [][Next]_vars /\ IrqFairness /\ SoftFairness /\ CallFairness

-----------------------------------------------------------------------------
(* chip.c: an event of an enabled interrupt that the flow handler keeps    *)
(* track of is served in the end, whatever disables and enables race it.   *)
(* softirq.c: a raised softirq is run in the end, by irq_exit(),           *)
(* local_bh_enable() or ksoftirqd.                                         *)
EventServed ==
    /\ (part = "irq" /\ Irq!EventWaits) ~> (part = "irq" /\ ~Irq!EventWaits)
    /\ \A v \in {0, 1} : (part = "softirq" /\ v \in inner.pending) ~> (part = "softirq" /\ v \in inner.ran)

(* smp.c: while all CPUs are up, a caller that waits for a csd or for the  *)
(* function to have run elsewhere comes back.                              *)
CallReturns ==
    \A c \in Cpus : (part = "call" /\ Call!Waits(c))
        ~> (part = "call" /\ (inner.pc[c].at = "idle" \/ inner.online # Cpus))

(* chip.c: the actions of a descriptor never run on two CPUs at once, and  *)
(* IRQD_IRQ_INPROGRESS and the mask bit say what is so.                    *)
HandlerExclusive == part = "irq" => Irq!HandlerExclusive

(* chip.c: an event of the device is raised, pending or about to be looked *)
(* at until it is served, and out of the flow handlers an enabled          *)
(* interrupt is open.                                                      *)
EventKept == part = "irq" => Irq!EventKept /\ Irq!OpenAtRest

(* softirq.c: a pending softirq has someone on the way to run it, and one  *)
(* __do_softirq() never starts inside another.                             *)
SoftirqKept == part = "softirq" => Soft!SoftirqKept

(* smp.c: a csd is in one queue, once, while its function has to run, and  *)
(* a synchronous caller leaves only after it ran.                          *)
CallsExact == part = "call" => Call!CallsExact

(* dec_and_lock.c: the count is the references out, an object with         *)
(* references is on the list, and a count of zero on the list is seen only *)
(* by the one who holds the lock to take it off.                           *)
ReferencesExact == part = "refs" => Refs!ReferencesExact

(* irqdomain.c, irqdesc.c: whatever mappings were made, pushed, popped and *)
(* disposed of, each hardware number leads to the interrupt it was mapped  *)
(* to and back, at every level of a hierarchy, and nothing is left of an   *)
(* interrupt that was freed.  of/address.c: an address is translated       *)
(* through the windows of every bus above it, or refused.                  *)
MappingsExact == /\ part = "domains" => DomainsExact
                 /\ part = "address" => Address!AddressesExact
=============================================================================
