----------------------------- MODULE CpuBringup -----------------------------
(***************************************************************************)
(* From the device tree to the CPUs online: smp_init_cpus() and            *)
(* smp_prepare_cpus() of arch/arm64/core/smp.c, cpu_ops.c, the PSCI probe  *)
(* of drivers/firmware/psci.c, core/cpu.c with its starting callbacks, and *)
(* smp_send_stop().                                                        *)
(*                                                                         *)
(* A device tree is the sequence of its cpu nodes (the affinity in reg,    *)
(* Invalid when it is missing or has other bits, and the enable-method)    *)
(* and its psci node; a firmware says what PSCI calls return.  No code of  *)
(* this tree calls smp_prepare_cpus() or __cpu_up(); they are called here  *)
(* the way smp_init() is meant to.  A CPU that was powered on comes online *)
(* by the calls secondary_start_kernel() makes.                            *)
(***************************************************************************)
EXTENDS Integers, Sequences, SequencesExt

CONSTANTS NrCpus, BootHwid, Invalid, Trees, Callbacks, MaxUps
VARIABLE bu

Ids == 0 .. NrCpus - 1

(* get_set_conduit_method(), psci_0_2_init() and psci_0_1_init(): what     *)
(* psci_dt_init() leaves in psci_ops.                                      *)
NoPsci == [conduit |-> "none", cpu_on |-> FALSE, resident |-> -1, smccc |-> 10]
get_logical_index(map, hwid) ==
    LET at == {c \in Ids : map[c] = hwid} IN IF at = {} THEN -22 ELSE CHOOSE c \in at : \A d \in at : c <= d
psci_init_migrate(fw, map) ==
    IF fw.tos \in {"up_migrate", "up_no_migrate"} /\ fw.tos_cpu # Invalid /\ get_logical_index(map, fw.tos_cpu) >= 0
    THEN get_logical_index(map, fw.tos_cpu) ELSE -1
psci_init_smccc(fw) == IF fw.version[1] >= 1 /\ fw.smccc = 11 THEN 11 ELSE 10
psci_probe(fw, map, ops) ==
    IF fw.version[1] = 0 /\ fw.version[2] < 2 THEN ops
    ELSE [ops EXCEPT !.cpu_on = TRUE, !.resident = psci_init_migrate(fw, map), !.smccc = psci_init_smccc(fw)]
psci_dt_init(node, map) ==
    IF ~node.available \/ node.method \notin {"hvc", "smc"} THEN NoPsci
    ELSE LET ops == [NoPsci EXCEPT !.conduit = node.method] IN
         IF node.compatible = "arm,psci" THEN [ops EXCEPT !.cpu_on = "cpu_on" \in node.ids] ELSE psci_probe(node.fw, map, ops)

is_mpidr_duplicate(map, cpu, hwid) == \E i \in 1 .. cpu - 1 : i < NrCpus /\ map[i] = hwid

(* of_parse_and_init_cpus(): a node that is not taken uses up a number all *)
(* the same, only the boot CPU's does not.                                 *)
ParseCpu(s, node) ==
    LET next == [s EXCEPT !.count = @ + 1] IN
    IF node.reg = Invalid \/ is_mpidr_duplicate(s.map, s.count, node.reg) THEN next
    ELSE IF node.reg = BootHwid THEN IF s.valid THEN next ELSE [s EXCEPT !.valid = TRUE]
    ELSE IF s.count >= NrCpus THEN next
    ELSE [next EXCEPT !.map[s.count] = node.reg]
of_parse_and_init_cpus(nodes, map) == FoldLeft(ParseCpu, [map |-> map, count |-> 1, valid |-> FALSE], nodes)

(* cpu_read_ops(): the enable-method of the node with this CPU's hwid.     *)
of_get_cpu_node(nodes, hwid) == {i \in DOMAIN nodes : nodes[i].reg = hwid /\ \A j \in 1 .. i - 1 : nodes[j].reg # hwid}
cpu_read_ops(nodes, hwid) == \E i \in of_get_cpu_node(nodes, hwid) : nodes[i].method = "psci"
(* smp_init_cpus(), smp_cpu_setup(): cpu_psci_cpu_init() never fails.      *)
smp_init_cpus(nodes, map) ==
    LET p == of_parse_and_init_cpus(nodes, map)
        up == IF p.valid THEN {c \in Ids \ {0} : p.map[c] # Invalid /\ cpu_read_ops(nodes, p.map[c])} ELSE {}
    IN [map |-> [c \in Ids |-> IF c # 0 /\ p.valid /\ c \notin up THEN Invalid ELSE p.map[c]], possible |-> {0} \union up]

(* smp_setup_processor_id(), boot_cpu_init() and setup_arch(): the PSCI    *)
(* probe comes before the logical map is filled.                           *)
Init == \E t \in Trees :
    LET map0 == [c \in Ids |-> IF c = 0 THEN BootHwid ELSE Invalid]
        psci == psci_dt_init(t.psci, map0)
        init == smp_init_cpus(t.cpus, map0)
    IN bu = [tree |-> t, psci |-> psci, map |-> init.map, possible |-> init.possible, present |-> {0}, online |-> {0},
             nr |-> NrCpus, step |-> "arch", powered |-> {BootHwid}, up |-> -1, ups |-> 0, startup |-> {},
             started |-> [c \in Ids |-> {}], due |-> [c \in Ids |-> {}], ipi |-> {}, stopper |-> -1]

setup_nr_cpu_ids ==
    /\ bu.step = "arch"
    /\ bu' = [bu EXCEPT !.step = "boot", !.nr = 1 + CHOOSE c \in bu.possible : \A d \in bu.possible : d <= c]

(* cpu_prepare() of a CPU fails when PSCI has no CPU_ON.                   *)
cpu_psci_cpu_prepare == bu.psci.cpu_on
smp_prepare_cpus(max_cpus) ==
    /\ bu.step = "boot"
    /\ bu' = [bu EXCEPT !.step = "run", !.present = IF max_cpus > 0 /\ cpu_psci_cpu_prepare THEN @ \union bu.possible ELSE @]

(* __cpuhp_setup_state(): for the CPUs that are yet to start; the callback *)
(* is not invoked on those that have.                                      *)
cpuhp_setup_state(state) ==
    /\ bu.stopper = -1 /\ bu' = [bu EXCEPT !.startup = @ \union {state}]

(* __cpu_up(): psci_cpu_on(); the firmware refuses a CPU that is on.       *)
psci_to_errno(ret) == CASE ret = "success" -> 0 [] ret = "not_supported" -> -95 [] ret = "denied" -> -1 [] OTHER -> -22
CpuUp(c, ret) ==
    /\ bu.step = "run" /\ bu.stopper = -1 /\ bu.up = -1 /\ bu.ups < MaxUps
    /\ c \in bu.present \ bu.online
    /\ (ret = "success") => bu.map[c] \notin bu.powered
    /\ (ret = "already_on") => bu.map[c] \in bu.powered
    /\ bu' = IF psci_to_errno(ret) # 0 THEN [bu EXCEPT !.ups = @ + 1]
             ELSE [bu EXCEPT !.ups = @ + 1, !.up = c, !.powered = @ \union {bu.map[c]}, !.due[c] = bu.startup]
(* It waits for the CPU to be online, or for a second.                     *)
CpuUpDone == /\ bu.up # -1 /\ bu' = [bu EXCEPT !.up = -1]

(* The CPU itself: notify_cpu_starting(), then it is online.               *)
SecondaryStart(c) ==
    /\ bu.map[c] \in bu.powered /\ c \in bu.present \ bu.online /\ c \notin bu.ipi /\ bu.stopper = -1
    /\ bu' = [bu EXCEPT !.online = @ \union {c}, !.started[c] = bu.startup]

(* smp_send_stop(): the stop IPI to every other CPU online, which takes    *)
(* itself off; after a second the caller goes on whatever happened.        *)
smp_send_stop(c) ==
    /\ bu.step = "run" /\ bu.stopper = -1 /\ c \in bu.online
    /\ bu' = [bu EXCEPT !.stopper = c, !.ipi = bu.online \ {c}, !.step = "stopping"]
ipi_cpu_stop(c) ==
    /\ c \in bu.ipi /\ bu' = [bu EXCEPT !.ipi = @ \ {c}, !.online = @ \ {c}]
StopDone(timeout) ==
    /\ bu.step = "stopping" /\ (bu.online # {bu.stopper} => timeout)
    /\ bu' = [bu EXCEPT !.step = IF timeout THEN "failed" ELSE "stopped"]

Next ==
    \/ setup_nr_cpu_ids
    \/ \E max \in {0, NrCpus} : smp_prepare_cpus(max)
    \/ \E s \in Callbacks : cpuhp_setup_state(s)
    \/ \E c \in Ids, ret \in {"success", "already_on", "denied", "not_supported"} : CpuUp(c, ret)
    \/ CpuUpDone
    \/ \E c \in Ids : SecondaryStart(c) \/ smp_send_stop(c) \/ ipi_cpu_stop(c)
    \/ \E t \in BOOLEAN : StopDone(t)
Spec == Init /\ [][Next]_bu
-----------------------------------------------------------------------------
(* Logical CPU n is the n-th node that is not the boot CPU's (a node that  *)
(* is not taken counts); a CPU listed twice has the first of its numbers,  *)
(* one beyond NR_CPUS none; and without the boot CPU's node, or with a     *)
(* foreign enable-method, a CPU is never possible.  The CPUs online are    *)
(* present ones, those present are possible, and no two have one hwid.     *)
NumberOf(i) == i - (IF \E j \in 1 .. i - 1 : bu.tree.cpus[j].reg = BootHwid THEN 1 ELSE 0)
CpusExact ==
    LET nodes == bu.tree.cpus
        listed == \E i \in DOMAIN nodes : nodes[i].reg = BootHwid
        wanted == {i \in DOMAIN nodes : /\ nodes[i].reg \notin {Invalid, BootHwid} /\ NumberOf(i) < NrCpus
                                        /\ \A j \in 1 .. i - 1 : nodes[j].reg # nodes[i].reg}
        usable == {i \in wanted : listed /\ nodes[i].method = "psci"}
    IN /\ bu.possible = {0} \union {NumberOf(i) : i \in usable}
       /\ \A i \in usable : bu.map[NumberOf(i)] = nodes[i].reg
       /\ bu.map[0] = BootHwid
       /\ \A c, d \in Ids : c # d /\ bu.map[c] # Invalid => bu.map[c] # bu.map[d]
       /\ bu.present \subseteq bu.possible /\ bu.online \subseteq bu.present
       /\ bu.step # "arch" => \A c \in bu.possible : c < bu.nr
       /\ bu.present # {0} => bu.psci.conduit # "none"
(* A CPU online was powered on under its own hwid and has run every        *)
(* callback that was installed when it was told to come.                   *)
StartExact == \A c \in bu.online \ {0} : bu.map[c] \in bu.powered /\ bu.due[c] \subseteq bu.started[c]
(* The Trusted OS is on the CPU that is said to hold it; and when no       *)
(* timeout struck, the CPU that stopped the others is alone.               *)
RestExact ==
    /\ bu.psci.resident >= 0 => bu.map[bu.psci.resident] = bu.tree.psci.fw.tos_cpu
    /\ bu.step = "stopped" => bu.online = {bu.stopper}
BringupExact == CpusExact /\ StartExact /\ RestExact
=============================================================================
