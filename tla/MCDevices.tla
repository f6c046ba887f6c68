------------------------------ MODULE MCDevices ------------------------------
(***************************************************************************)
(* What describes the machine, in one instance: the device tree, flat and  *)
(* unflattened, its overlays, and the CPUs it names, with their features.  *)
(* part says which of them moves and never changes.                        *)
(***************************************************************************)
EXTENDS FdtEdit, OfTree, CpuFeature, TLC

VARIABLES part,
          inner      \* "bringup"; fs is the state of "flat", ov of "overlay", os
                 \* of "tree" and cf of "features"

vars == <<part, fs, ov, os, cf, inner>>

-----------------------------------------------------------------------------
\* Trees with a clock and a uart that refers to it.
Phandle(n) == "phandle" :> <<n>>
Empty == [x \in {} |-> <<>>]
ClockTree(c, room) ==
    [tree |-> [nodes |-> (<<>> :> Empty) @@ (<<"soc">> :> Empty) @@ (<<"soc", "clk">> :> Phandle(c))
                         @@ (<<"soc", "uart">> :> (Phandle(2) @@ ("clocks" :> <<c>>))),
               symbols |-> ("clk" :> <<"soc", "clk">>) @@ ("uart" :> <<"soc", "uart">>), room |-> room],
     refs |-> {<<(<<"soc", "uart">>), "clocks", 0, (<<"soc", "clk">>)>>}]
Local(at, prop, off) == [at |-> at, prop |-> prop, off |-> off]
Fixup(l, at, prop, off) == [label |-> l, at |-> at, prop |-> prop, off |-> off]
Symbol(l, path) == [label |-> l, path |-> path]
Blob(frags, nodes, tpath, local, fix, sym) ==
    [frags |-> frags, nodes |-> nodes, tpath |-> tpath, local |-> local, fixups |-> fix, symbols |-> sym]
V == "__overlay__"
\* a device under the uart, named by its label, with a clock of its own and a
\* reference to the tree's
Gadget(clk) ==
    Blob(<<"f0", "f1">>,
         (<<"f0">> :> ("target" :> <<0>>)) @@ (<<"f0", V>> :> ("status" :> <<1>>))
         @@ (<<"f0", V, "dev">> :> ("clocks" :> <<clk, 0>>)) @@ (<<"f1">> :> Empty)
         @@ (<<"f1", V>> :> Empty) @@ (<<"f1", V, "pll">> :> Phandle(clk)),
         "f1" :> <<"soc">>, <<Local(<<"f0", V, "dev">>, "clocks", 0)>>,
         <<Fixup("uart", <<"f0">>, "target", 0), Fixup("clk", <<"f0", V, "dev">>, "clocks", 1)>>,
         <<Symbol("pll", <<"f1", V, "pll">>)>>)
\* a fragment whose target is what the other brings, and a symbol of Gadget
Bus == Blob(<<"f0", "f1">>,
            (<<"f0">> :> Empty) @@ (<<"f0", V>> :> Empty) @@ (<<"f0", V, "bus">> :> ("linux,phandle" :> <<1>>))
            @@ (<<"f1">> :> ("target" :> <<1>>)) @@ (<<"f1", V>> :> ("parent" :> <<0>>))
            @@ (<<"f1", V, "leaf">> :> ("up" :> <<1>>)),
            "f0" :> <<>>, <<Local(<<"f1">>, "target", 0), Local(<<"f1", V, "leaf">>, "up", 0)>>,
            <<Fixup("pll", <<"f1", V>>, "parent", 0)>>, <<Symbol("leaf", <<"f1", V, "leaf">>)>>)
\* another clock and a phandle for the uart
Reclock == Blob(<<"f0">>, (<<"f0">> :> ("target" :> <<0>>)) @@ (<<"f0", V>> :> (Phandle(3) @@ ("clocks" :> <<0>>))),
                Empty, <<>>, <<Fixup("uart", <<"f0">>, "target", 0), Fixup("clk", <<"f0", V>>, "clocks", 0)>>, <<>>)
\* badly written ones: no target, an unknown target, a fixup and a symbol
\* outside the overlay
BadBlobs ==
    {Blob(<<"f0", "f1">>, (<<"f0">> :> Empty) @@ (<<"f1">> :> Empty) @@ (<<"f1", V>> :> Empty), Empty, <<>>, <<>>, <<>>),
     Blob(<<"f0">>, (<<"f0">> :> ("target" :> <<7>>)) @@ (<<"f0", V>> :> Empty), Empty, <<>>, <<>>, <<>>),
     Blob(<<"f0">>, (<<"f0">> :> Empty) @@ (<<"f0", V>> :> ("x" :> <<1>>)), "f0" :> <<"soc">>,
          <<Local(<<"f0", V>>, "x", 1)>>, <<>>, <<>>),
     Blob(<<"f0">>, (<<"f0">> :> Empty) @@ (<<"f0", V>> :> ("x" :> <<1>>)), "f0" :> <<"soc">>,
          <<>>, <<>>, <<Symbol("s", <<"f0", V>>)>>)}

ClockTrees == {ClockTree(c, r) : c \in {1, 9}, r \in {24, 60}}
Blobs == {Gadget(1), Gadget(6), Bus, Reclock} \cup BadBlobs

\* Names, of which some differ only in their unit address; for edits, a blob
\* of 10 words that is opened into one of 17.
NameBases == [n \in 0 .. 15 |-> CASE n = 9 -> 4 [] n \in {10, 11} -> 6 [] n \in {12, 13} -> 8 [] n = 15 -> 3 [] OTHER -> n]
PropVals == {<<0, 1>>, <<3, 3, 0>>}

-----------------------------------------------------------------------------
\* A tree with aliases, CPUs, a cache and lists of references, and one with a
\* graph of ports, an interrupt map and a disabled node; one edit.
Num(x) == <<0, x>>
Nums(xs) == IF Len(xs) = 0 THEN <<>> ELSE [i \in 1 .. 2 * Len(xs) |-> IF i % 2 = 0 THEN xs[i \div 2] ELSE 0]
TNode(n, p, c) == [n |-> n, p |-> p, c |-> c]
ListedRefs == <<<<1, <<5>>>>, <<0, <<>>>>, <<3, <<6, 7>>>>>>
AliasTree ==
    TNode(0, <<<<"#address-cells", Num(1)>>, <<"compatible", <<1, 0>>>>>>,
     <<TNode(3, <<<<"dev0", <<1, 0>>>>, <<"dev3", <<2, 0>>>>, <<"dev1", <<5, 10, 0>>>>, <<"con", <<1, 0>>>>>>, <<>>),
       TNode(4, <<<<"stdout-path", <<2, 0>>>>>>, <<>>),
       TNode(5, <<<<"#address-cells", Num(1)>>>>,
        <<TNode(10, <<<<"device_type", <<3, 0>>>>, <<"reg", Num(0)>>, <<"next-level-cache", Num(3)>>>>, <<>>),
          TNode(11, <<<<"reg", Num(1)>>>>, <<>>)>>),
       TNode(1, <<<<"phandle", Num(1)>>, <<"#cells", Num(1)>>, <<"compatible", <<1, 0, 2, 15, 7, 0>>>>>>, <<>>),
       TNode(2, <<<<"#cells", Num(2)>>, <<"linux,phandle", Num(3)>>, <<"phandle", Num(3)>>,
                 <<"cache-level", Num(2)>>, <<"list", Nums(<<1, 5, 0, 3, 6, 7>>)>>>>, <<>>)>>)
GraphTree ==
    TNode(0, <<>>,
     <<TNode(9, <<<<"map", Nums(<<2, 2, 1, 1, 1, 4, 7, 3, 3, 2, 0, 1>>)>>, <<"map-mask", Num(3)>>>>, <<>>),
       TNode(1, <<<<"status", <<1, 0>>>>>>,
        <<TNode(7, <<>>,
           <<TNode(12, <<<<"reg", Num(0)>>>>,
              <<TNode(14, <<<<"phandle", Num(4)>>, <<"remote-endpoint", Num(2)>>>>, <<>>)>>),
             TNode(2, <<>>, <<>>),
             TNode(13, <<<<"reg", Num(1)>>>>, <<TNode(14, <<>>, <<>>), TNode(1, <<<<"reg", Num(1)>>>>, <<>>)>>)>>)>>),
       TNode(2, <<>>,
        <<TNode(8, <<>>, <<TNode(14, <<<<"phandle", Num(2)>>, <<"remote-endpoint", Num(4)>>>>, <<>>)>>)>>)>>)
Match(c, t, n) == [c |-> c, t |-> t, n |-> n]
TwoTrees == {AliasTree, GraphTree}
Aliases == ("dev0" :> <<"dev", 0>>) @@ ("dev3" :> <<"dev", 3>>) @@ ("dev1" :> <<"dev", 1>>)
           @@ ("con" :> <<"con", -1>>)
SomeEdits == {<<"compatible", <<2, 15, 7, 0, 1, 0>>>>, <<"status", <<2, 0>>>>, <<"status", <<9, 0>>>>,
              <<"reg", Num(1)>>, <<"x", <<1>>>>}
MatchTable == <<Match(<<>>, <<>>, <<6>>), Match(<<1>>, <<>>, <<>>), Match(<<2, 15, 7>>, <<>>, <<1>>),
                Match(<<1>>, <<>>, <<1>>), Match(<<>>, <<3>>, <<>>)>>

-----------------------------------------------------------------------------
\* CPU models that differ in a strict field, a lower-safe, a higher-safe and
\* an exact one, in what the workarounds match, and in what others lack.
FieldOf(r, f) == <<r, f>>
Common == (FieldOf("CTR", "RES1") :> 1) @@ (FieldOf("CTR", "DMINLINE") :> 4) @@ (FieldOf("CTR", "IMINLINE") :> 4)
    @@ (FieldOf("CTR", "L1IP") :> 3) @@ (FieldOf("CTR", "CWG") :> 4) @@ (FieldOf("PFR0", "EL0") :> 2)
    @@ (FieldOf("PFR0", "GIC") :> 1) @@ (FieldOf("ISAR0", "AES") :> 2) @@ (FieldOf("ISAR0", "CRC32") :> 1)
    @@ (FieldOf("MMFR0", "PARANGE") :> 5) @@ (FieldOf("MMFR0", "ASID") :> 2) @@ (FieldOf("MMFR0", "TGRAN16") :> 1)
    @@ (FieldOf("CNTFRQ", "VALUE") :> 9)
CpuModel(r) == [regs |-> r @@ Common, clidr |-> FALSE, midr |-> "a57", sre |-> TRUE]
CpuModels ==
    { CpuModel(<<>>),
      CpuModel((FieldOf("CTR", "IDC") :> 1) @@ (FieldOf("CTR", "DIC") :> 1) @@ (FieldOf("MMFR2", "FWB") :> 1)),
      [CpuModel(FieldOf("ISAR0", "AES") :> 1) EXCEPT !.clidr = TRUE],
      CpuModel((FieldOf("PFR0", "FP") :> 15) @@ (FieldOf("PFR0", "ASIMD") :> 15) @@ (FieldOf("MMFR0", "TGRAN4") :> 15)
            @@ (FieldOf("PFR0", "EL0") :> 1)),
      CpuModel((FieldOf("CTR", "DMINLINE") :> 3) @@ (FieldOf("CTR", "CWG") :> 5) @@ (FieldOf("CTR", "L1IP") :> 0)
            @@ (FieldOf("PFR0", "FP") :> 1)),
      [CpuModel((FieldOf("CTR", "RES") :> 1) @@ (FieldOf("MMFR0", "PARANGE") :> 7) @@ (FieldOf("CTR", "L1IP") :> 2))
           EXCEPT !.midr = "thunderx", !.sre = FALSE],
      CpuModel((FieldOf("MMFR0", "ASID") :> 0) @@ (FieldOf("CNTFRQ", "VALUE") :> 8)) }

\* Up to three CPU nodes, among them duplicates, an invalid one and one with
\* another method, over firmware of several versions.
CpuEntry(r, m) == [reg |-> r, method |-> m]
CpuEntries == {CpuEntry(0, "psci"), CpuEntry(1, "psci"), CpuEntry(2, "psci"), CpuEntry(1, "spin-table"), CpuEntry(99, "psci")}
Firmware(v, tos, c, smccc) == [version |-> v, tos |-> tos, tos_cpu |-> c, smccc |-> smccc]
Psci(c, a, m, ids, fw) == [compatible |-> c, available |-> a, method |-> m, ids |-> ids, fw |-> fw]
OldFirmware == Firmware(<<0, 1>>, "mp", 99, 10)
GoodPsci == Psci("arm,psci-1.0", TRUE, "smc", {}, Firmware(<<1, 0>>, "mp", 99, 11))
OtherPscis ==
    {Psci("arm,psci-0.2", TRUE, "hvc", {}, Firmware(<<0, 2>>, "up_no_migrate", 1, 10)),
     Psci("arm,psci-0.2", TRUE, "hvc", {}, OldFirmware),
     Psci("arm,psci", TRUE, "smc", {"cpu_on"}, OldFirmware), Psci("arm,psci", TRUE, "smc", {"cpu_off"}, OldFirmware),
     Psci("arm,psci", FALSE, "smc", {"cpu_on"}, OldFirmware),
     Psci("arm,psci-1.0", TRUE, "none", {}, Firmware(<<1, 0>>, "up_migrate", 0, 11)),
     Psci("arm,psci-1.0", TRUE, "smc", {}, Firmware(<<1, 0>>, "up_migrate", 0, 11))}
Bringup == INSTANCE CpuBringup WITH
    bu <- inner, NrCpus <- 3, BootHwid <- 0, Invalid <- 99, Callbacks <- {"gic", "timer"}, MaxUps <- 2,
    Trees <- {[cpus |-> c, psci |-> GoodPsci] : c \in UNION {[1 .. n -> CpuEntries] : n \in 1 .. 3}}
             \cup {[cpus |-> <<CpuEntry(0, "psci"), CpuEntry(1, "psci"), CpuEntry(2, "psci")>>, psci |-> p] : p \in OtherPscis}

-----------------------------------------------------------------------------
Init == /\ part \in {"flat", "overlay", "tree", "features", "bringup"}
        /\ IF part = "flat" THEN FdtInit ELSE fs = 0
        /\ IF part = "overlay" THEN OverlayInit ELSE ov = 0
        /\ IF part = "tree" THEN OfInit ELSE os = 0
        /\ IF part = "features" THEN FeaturesInit ELSE cf = 0
        /\ IF part = "bringup" THEN Bringup!Init ELSE inner = 0

Next == /\ \/ part = "flat" /\ FdtNext /\ UNCHANGED <<ov, os, cf, inner>>
           \/ part = "overlay" /\ OverlayNext /\ UNCHANGED <<fs, os, cf, inner>>
           \/ part = "tree" /\ OfNext /\ UNCHANGED <<fs, ov, cf, inner>>
           \/ part = "features" /\ FeaturesNext /\ UNCHANGED <<fs, ov, os, inner>>
           \/ part = "bringup" /\ Bringup!Next /\ UNCHANGED <<fs, ov, os, cf>>
        /\ UNCHANGED part

Spec == Init /\ [][Next]_vars

-----------------------------------------------------------------------------
(* fdt_ro.c, fdt_rw.c, fdt_sw.c, fdt_wip.c, fdt_overlay.c: after any edits *)
(* the blob is well formed and stands for the tree the edits describe, all *)
(* readers agree with that tree, and an overlay adds what it says, with    *)
(* its references to what they were written for, or changes nothing of the *)
(* meaning of the tree.                                                    *)
BlobsExact == /\ part = "flat" => FdtExact
              /\ part = "overlay" => OverlayExact

(* drivers/of: the nodes unflattened from a blob are its nodes, with their *)
(* names, aliases, phandles and properties, and searches and references    *)
(* find what the tree says.                                                *)
TreesExact == part = "tree" => OfExact

(* cpufeature.c: the kernel relies on a feature only when every CPU that   *)
(* runs has it; smp.c, psci.c, cpu.c: a CPU is possible, present and up    *)
(* exactly when the device tree, the firmware and the calls make it so.    *)
ProcessorsExact == /\ part = "features" => FeaturesExact
                   /\ part = "bringup" => Bringup!BringupExact
=============================================================================
