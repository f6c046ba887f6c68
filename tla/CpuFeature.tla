----------------------------- MODULE CpuFeature -----------------------------
(***************************************************************************)
(* arch/arm64/core/cpufeature.c with cpuinfo.c, cpu_errata.c and the       *)
(* bring-up of a CPU in smp.c: what the kernel finds out about the CPUs    *)
(* it is started on, CPU by CPU, and what it then tells itself and the     *)
(* user about all of them.                                                 *)
(*                                                                         *)
(* A CPU is one of Models: its ID registers (the fields that are not 0;    *)
(* the field RES stands for bits that no table covers), whether CLIDR_EL1  *)
(* says that caches need no cleaning, its part number and whether its      *)
(* GICv3 system registers can be enabled.  cf.reg is the system's view:    *)
(* the value of every field and the masks of arm64_ftr_reg as sets of      *)
(* fields.                                                                 *)
(*                                                                         *)
(* secondary_start_kernel() has no body in this tree and smp_init() only   *)
(* panics; the steps a secondary takes are the calls that cpufeature.h     *)
(* says it makes.  StopMachine says whether stop_machine() runs the        *)
(* function it is given, as its header promises, or returns at once, as    *)
(* stop_machine.c does.  Timeouts lets __cpu_up() give up on a CPU that    *)
(* is still coming.                                                        *)
(***************************************************************************)
EXTENDS Integers, Sequences, FiniteSets, FiniteSetsExt

-----------------------------------------------------------------------------
(* The tables of arch/arm64/core/cpufeature.c and cpu_errata.c: the fields *)
(* of every ID register with the way their system-wide value is found, the *)
(* registers in the order of their encodings, the capabilities with their  *)
(* scope and test, and the ELF hwcaps.  A field is known by its name; its  *)
(* value is what its bits hold, read as the table says (sign).             *)
(* A field of a register: 4 unsigned bits unless said otherwise.           *)
Ftr(names, visible, strict, type, safe) ==
    {[name |-> n, sign |-> FALSE, visible |-> visible, strict |-> strict, type |-> type, width |-> 4, safe |-> safe] : n \in names}
Signed(fields) == {[f EXCEPT !.sign = TRUE] : f \in fields}
Wide(w, fields) == {[f EXCEPT !.width = w] : f \in fields}

Shown(names, safe) == Ftr(names, TRUE, TRUE, "lower", safe)
Hidden(names, safe) == Ftr(names, FALSE, TRUE, "lower", safe)
Loose(names) == Ftr(names, FALSE, FALSE, "lower", 0)

ftr_id_aa64isar0 == Shown({"TS", "FHM", "DP", "SM4", "SM3", "SHA3", "RDM", "ATOMICS", "CRC32", "SHA2", "SHA1", "AES"}, 0)
ftr_id_aa64isar1 ==   \* pointer authentication is not configured
    Shown({"SB", "LRCPC", "FCMA", "JSCVT", "DPB"}, 0) \union Hidden({"GPI", "GPA", "API", "APA"}, 0)
ftr_id_aa64pfr0 ==
    Loose({"CSV3", "CSV2", "EL3"}) \union Shown({"DIT"}, 0) \union Hidden({"SVE", "RAS", "GIC", "EL2"}, 0)
      \union Signed(Shown({"ASIMD", "FP"}, 15)) \union Hidden({"EL1", "EL0"}, 1)
ftr_id_aa64pfr1 == Shown({"SSBS"}, 0)
ftr_id_aa64mmfr0 ==
    Signed(Hidden({"TGRAN4", "TGRAN64"}, 15)) \union Hidden({"TGRAN16", "BIGENDEL0", "BIGENDEL", "ASID"}, 0)
      \union Loose({"SNSMEM", "PARANGE"})
ftr_id_aa64mmfr1 == Hidden({"PAN", "LOR", "HPD", "VHE", "VMIDBITS", "HADBS"}, 0)
ftr_id_aa64mmfr2 == Hidden({"FWB", "LVA", "IESB", "LSM", "UAO", "CNP"}, 0) \union Shown({"AT"}, 0)
ftr_ctr ==
    Wide(1, Ftr({"RES1"}, TRUE, TRUE, "exact", 1)) \union Wide(1, Shown({"DIC", "IDC"}, 1))
      \union Ftr({"CWG", "ERG"}, TRUE, TRUE, "higher", 0) \union Shown({"DMINLINE"}, 1)
      \union Wide(2, Ftr({"L1IP"}, TRUE, FALSE, "exact", 2)) \union Shown({"IMINLINE"}, 0)
ftr_id_aa64dfr0 ==
    Wide(28, Ftr({"HIGH"}, FALSE, TRUE, "exact", 0)) \union Loose({"PMSVER"}) \union Hidden({"CTX_CMPS", "WRPS", "BRPS"}, 0)
      \union Signed(Ftr({"PMUVER"}, FALSE, FALSE, "exact", 0)) \union Ftr({"TRACEVER"}, FALSE, TRUE, "exact", 0)
      \union Ftr({"DEBUGVER"}, FALSE, TRUE, "exact", 6)
ftr_dczid == Wide(1, Ftr({"DZP"}, TRUE, TRUE, "exact", 1)) \union Shown({"BS"}, 0)
ftr_single32 == Wide(32, Ftr({"VALUE"}, FALSE, TRUE, "exact", 0))
ftr_raz == {}

(* The 32-bit registers and ZCR are in the table, but no one initialises   *)
(* them: only that they are found and where matters, not their fields.     *)
ftr_unused == {}

(* sys_reg() without Op0, which is 3 for all of them.                      *)
sys_reg(op1, crn, crm, op2) == op1 * 2048 + crn * 128 + crm * 8 + op2
ARM64_FTR_REG(name, id, bits) == [name |-> name, id |-> id, bits |-> bits]
arm64_ftr_regs == <<
    ARM64_FTR_REG("ID_PFR0", sys_reg(0, 0, 1, 0), ftr_unused), ARM64_FTR_REG("ID_PFR1", sys_reg(0, 0, 1, 1), ftr_unused),
    ARM64_FTR_REG("ID_DFR0", sys_reg(0, 0, 1, 2), ftr_unused), ARM64_FTR_REG("ID_MMFR0", sys_reg(0, 0, 1, 4), ftr_unused),
    ARM64_FTR_REG("ID_MMFR1", sys_reg(0, 0, 1, 5), ftr_unused), ARM64_FTR_REG("ID_MMFR2", sys_reg(0, 0, 1, 6), ftr_unused),
    ARM64_FTR_REG("ID_MMFR3", sys_reg(0, 0, 1, 7), ftr_unused),
    ARM64_FTR_REG("ID_ISAR0", sys_reg(0, 0, 2, 0), ftr_unused), ARM64_FTR_REG("ID_ISAR1", sys_reg(0, 0, 2, 1), ftr_unused),
    ARM64_FTR_REG("ID_ISAR2", sys_reg(0, 0, 2, 2), ftr_unused), ARM64_FTR_REG("ID_ISAR3", sys_reg(0, 0, 2, 3), ftr_unused),
    ARM64_FTR_REG("ID_ISAR4", sys_reg(0, 0, 2, 4), ftr_unused), ARM64_FTR_REG("ID_ISAR5", sys_reg(0, 0, 2, 5), ftr_unused),
    ARM64_FTR_REG("ID_MMFR4", sys_reg(0, 0, 2, 6), ftr_unused),
    ARM64_FTR_REG("MVFR0", sys_reg(0, 0, 3, 0), ftr_unused), ARM64_FTR_REG("MVFR1", sys_reg(0, 0, 3, 1), ftr_unused),
    ARM64_FTR_REG("MVFR2", sys_reg(0, 0, 3, 2), ftr_unused),
    ARM64_FTR_REG("PFR0", sys_reg(0, 0, 4, 0), ftr_id_aa64pfr0), ARM64_FTR_REG("PFR1", sys_reg(0, 0, 4, 1), ftr_id_aa64pfr1),
    ARM64_FTR_REG("ZFR0", sys_reg(0, 0, 4, 4), ftr_raz),
    ARM64_FTR_REG("DFR0", sys_reg(0, 0, 5, 0), ftr_id_aa64dfr0), ARM64_FTR_REG("DFR1", sys_reg(0, 0, 5, 1), ftr_raz),
    ARM64_FTR_REG("ISAR0", sys_reg(0, 0, 6, 0), ftr_id_aa64isar0), ARM64_FTR_REG("ISAR1", sys_reg(0, 0, 6, 1), ftr_id_aa64isar1),
    ARM64_FTR_REG("MMFR0", sys_reg(0, 0, 7, 0), ftr_id_aa64mmfr0), ARM64_FTR_REG("MMFR1", sys_reg(0, 0, 7, 1), ftr_id_aa64mmfr1),
    ARM64_FTR_REG("MMFR2", sys_reg(0, 0, 7, 2), ftr_id_aa64mmfr2), ARM64_FTR_REG("ZCR", sys_reg(0, 1, 2, 0), ftr_unused),
    ARM64_FTR_REG("CTR", sys_reg(3, 0, 0, 1), ftr_ctr), ARM64_FTR_REG("DCZID", sys_reg(3, 0, 0, 7), ftr_dczid),
    ARM64_FTR_REG("CNTFRQ", sys_reg(3, 14, 0, 0), ftr_single32) >>

(* The capabilities, by number, with the scopes and the leave to differ    *)
(* that their type gives, and what tests and enables them.                 *)
SYSTEM_FEATURE == {"system", "permitted"}
LOCAL_CPU_ERRATUM == {"local", "optional"}
WEAK_LOCAL_CPU_FEATURE == {"local", "optional", "permitted"}
NoField == <<"", "">>
Cap(num, type, matches, field, min, enable) ==
    [num |-> num, type |-> type, matches |-> matches, field |-> field, sign |-> FALSE, min |-> min, enable |-> enable]
arm64_features == {
    Cap(3, SYSTEM_FEATURE, "gicv3_cpuif", <<"PFR0", "GIC">>, 1, "none"),
    Cap(8, WEAK_LOCAL_CPU_FEATURE, "no_hw_prefetch", NoField, 0, "none"),
    Cap(13, SYSTEM_FEATURE, "cpuid", <<"PFR0", "EL0">>, 2, "none"),
    Cap(16, SYSTEM_FEATURE, "no_fpsimd", NoField, 0, "none"),
    Cap(27, SYSTEM_FEATURE, "cache_idc", NoField, 0, "effective_ctr"),
    Cap(28, SYSTEM_FEATURE, "cache_dic", NoField, 0, "none"),
    Cap(32, SYSTEM_FEATURE, "cpuid", <<"MMFR2", "FWB">>, 1, "fwb"),
    Cap(33, SYSTEM_FEATURE, "cpuid", <<"ISAR0", "CRC32">>, 1, "none"),
    Cap(36, SYSTEM_FEATURE, "cpuid", <<"ISAR1", "SB">>, 1, "none")}
arm64_errata == {Cap(31, LOCAL_CPU_ERRATUM, "mismatched_cache_type", NoField, 0, "trap_ctr")}

(* The hwcaps: register field, sign, least value, and the name advertised. *)
HWCAP_CAP(reg, field, sign, min, cap) ==
    [num |-> cap, type |-> SYSTEM_FEATURE, matches |-> "cpuid", field |-> <<reg, field>>, sign |-> sign, min |-> min, enable |-> "none"]
Simple(reg, fields) == {HWCAP_CAP(reg, f, FALSE, 1, f) : f \in fields}
arm64_elf_hwcaps ==
    Simple("ISAR0", {"AES", "SHA1", "SHA2", "CRC32", "RDM", "SHA3", "SM3", "SM4", "DP", "FHM", "TS"})
      \union Simple("ISAR1", {"DPB", "JSCVT", "FCMA", "LRCPC", "SB"}) \union Simple("MMFR2", {"AT"})
      \union {HWCAP_CAP("ISAR0", "AES", FALSE, 2, "PMULL"), HWCAP_CAP("ISAR0", "SHA2", FALSE, 2, "SHA512"),
              HWCAP_CAP("ISAR0", "ATOMICS", FALSE, 2, "ATOMICS"), HWCAP_CAP("ISAR1", "LRCPC", FALSE, 2, "ILRCPC"),
              HWCAP_CAP("PFR0", "FP", TRUE, 0, "FP"), HWCAP_CAP("PFR0", "FP", TRUE, 1, "FPHP"),
              HWCAP_CAP("PFR0", "ASIMD", TRUE, 0, "ASIMD"), HWCAP_CAP("PFR0", "ASIMD", TRUE, 1, "ASIMDHP"),
              HWCAP_CAP("PFR0", "DIT", TRUE, 1, "DIT"), HWCAP_CAP("PFR1", "SSBS", FALSE, 2, "SSBS")}

-----------------------------------------------------------------------------
CONSTANTS Cpus, Boot, Models, StopMachine, Timeouts
VARIABLE cf

FtrRegs == {arm64_ftr_regs[i] : i \in DOMAIN arm64_ftr_regs}
Field == [k \in UNION {{<<r.name, f.name>> : f \in r.bits} : r \in FtrRegs} |->
            CHOOSE f \in UNION {r.bits : r \in {q \in FtrRegs : q.name = k[1]}} : f.name = k[2]]
Fields == DOMAIN Field

(* cpuid_feature_extract_field_width(): two's complement when signed.      *)
Extract(raw, width, sign) == IF sign /\ raw >= 2^(width - 1) THEN raw - 2^width ELSE raw
arm64_ftr_value(f, raw) == Extract(raw, f.width, f.sign)
arm64_ftr_set_value(f, val) == IF f.width >= 28 THEN val ELSE val % 2^f.width
arm64_ftr_safe_value(f, new, cur) ==
    CASE f.type = "exact" -> f.safe
      [] f.type = "lower" -> Min({new, cur})
      [] f.type = "higher" -> Max({new, cur})

(* The registers of a CPU, and CTR_EL0 with its effective IDC.             *)
read_cpuid(m, k) == IF k \in DOMAIN m.regs THEN m.regs[k] ELSE 0
read_cpuid_effective(m, k) == IF k = <<"CTR", "IDC">> /\ m.clidr THEN 1 ELSE read_cpuid(m, k)

(* bsearch() over the table: the index of id, or 0.                        *)
bsearch(id) ==
    LET look[base \in Nat, num \in 0 .. Len(arm64_ftr_regs)] ==
          IF num = 0 THEN 0
          ELSE LET pivot == base + (num \div 2) IN
               CASE id = arm64_ftr_regs[pivot].id -> pivot
                 [] id > arm64_ftr_regs[pivot].id -> look[pivot + 1, (num - 1) \div 2]
                 [] OTHER -> look[base, num \div 2]
    IN look[1, Len(arm64_ftr_regs)]
sort_ftr_regs == \A i \in 2 .. Len(arm64_ftr_regs) : arm64_ftr_regs[i].id >= arm64_ftr_regs[i - 1].id

Kept == {"CTR", "DCZID", "CNTFRQ", "DFR0", "DFR1", "ISAR0", "ISAR1", "MMFR0", "MMFR1", "MMFR2", "PFR0", "PFR1", "ZFR0"}
KeptFields == {k \in Fields : k[1] \in Kept}
NoRegs == [sys_val |-> [k \in Fields |-> 0], strict |-> {}, user |-> {}, user_val |-> [k \in Fields |-> 0]]
(* init_cpu_ftr_reg() of every register cpuinfo keeps.                     *)
init_cpu_ftr_reg(m) ==
    [sys_val |-> [k \in Fields |-> IF k \in KeptFields
                                   THEN arm64_ftr_set_value(Field[k], arm64_ftr_value(Field[k], read_cpuid_effective(m, k))) ELSE 0],
     strict |-> {k \in KeptFields : Field[k].strict} \union {<<r, "RES">> : r \in Kept},
     user |-> {k \in KeptFields : Field[k].visible},
     user_val |-> [k \in Fields |-> IF k \in KeptFields /\ ~Field[k].visible THEN arm64_ftr_set_value(Field[k], Field[k].safe) ELSE 0]]
update_cpu_ftr_reg(reg, m) ==
    [reg EXCEPT !.sys_val = [k \in Fields |->
        IF k \notin KeptFields THEN @[k]
        ELSE LET cur == arm64_ftr_value(Field[k], @[k])
                 new == arm64_ftr_value(Field[k], read_cpuid_effective(m, k))
             IN IF cur = new THEN @[k] ELSE arm64_ftr_set_value(Field[k], arm64_ftr_safe_value(Field[k], new, cur))]]
(* check_update_ftr_reg() of any register: a strict field differs from the *)
(* boot CPU's.                                                             *)
check_update_ftr_reg(reg, m, boot) ==
    \E k \in reg.strict : read_cpuid_effective(m, k) # read_cpuid_effective(boot, k)

(* The tests.  In the local scope a register is read on the CPU itself.    *)
has_cpuid_feature(reg, c, scope, m) ==
    Extract(IF scope = "system" THEN reg.sys_val[c.field] ELSE read_cpuid(m, c.field), 4, c.sign) >= c.min
has_mismatched_cache_type(reg, m) ==
    LET mask == {k \in reg.strict : k[1] = "CTR"}
        sys(k) == IF k \in Fields THEN reg.sys_val[k] ELSE 0
    IN /\ \E k \in mask : read_cpuid(m, k) # sys(k)
       /\ \E k \in mask : read_cpuid_effective(m, k) # sys(k)
CtrBit(reg, bit, scope, local) == (IF scope = "system" THEN reg.sys_val[<<"CTR", bit>>] ELSE local) = 1
matches(reg, c, scope, m) ==
    CASE c.matches = "cpuid" -> has_cpuid_feature(reg, c, scope, m)
      [] c.matches = "gicv3_cpuif" -> has_cpuid_feature(reg, c, scope, m) /\ m.sre
      [] c.matches = "no_hw_prefetch" -> m.midr = "thunderx"
      [] c.matches = "no_fpsimd" -> Extract(reg.sys_val[<<"PFR0", "FP">>], 4, TRUE) < 0
      [] c.matches = "cache_idc" -> CtrBit(reg, "IDC", scope, read_cpuid_effective(m, <<"CTR", "IDC">>))
      [] c.matches = "cache_dic" -> CtrBit(reg, "DIC", scope, read_cpuid(m, <<"CTR", "DIC">>))
      [] c.matches = "mismatched_cache_type" -> has_mismatched_cache_type(reg, m)

(* cpu_hwcaps_ptrs: no number is used twice and none is out of range.      *)
ARM64_NCAPS == 42
CapsList == {c \in arm64_features \union arm64_errata : c.num < ARM64_NCAPS}
Scope(c) == CHOOSE s \in {"local", "system", "boot"} : s \in c.type

(* Does cpu_enable() of c make this CPU trap CTR_EL0?                      *)
Traps(reg, c, m) ==
    CASE c.enable = "effective_ctr" -> read_cpuid(m, <<"CTR", "IDC">>) = 0
      [] c.enable = "trap_ctr" ->
           \E k \in {q \in reg.strict : q[1] = "CTR"} : read_cpuid(m, k) # (IF k \in Fields THEN reg.sys_val[k] ELSE 0)
      [] OTHER -> FALSE
CpuEnable(cpu, reg, cs) ==
    [cpu EXCEPT !.on = @ \union {c.num : c \in {d \in cs : d.enable # "none"}},
                !.trap = @ \/ \E c \in cs : Traps(reg, c, cpu.model)]

(* update_cpu_capabilities(): those of the scopes found now, on this CPU.  *)
update_cpu_capabilities(s, scopes, m) ==
    s.caps \union {c.num : c \in {d \in CapsList : Scope(d) \in scopes /\ d.num \notin s.caps /\ matches(s.reg, d, Scope(d), m)}}
Detected(s, scopes) == {c \in CapsList : Scope(c) \in scopes /\ c.num \in s.caps}

(* cpuinfo_detect_icache_policy()                                          *)
icache(flags, m) ==
    CASE read_cpuid(m, <<"CTR", "L1IP">>) = 3 -> flags
      [] read_cpuid(m, <<"CTR", "L1IP">>) = 0 -> flags \union {"vpipt"}
      [] OTHER -> flags \union {"aliasing"}

OffCpu == [st |-> "off", model |-> CHOOSE m \in Models : TRUE, on |-> {}, trap |-> FALSE]
NoCpu == "none"
FeaturesInit == cf = [cpu |-> [c \in Cpus |-> OffCpu], reg |-> NoRegs, caps |-> {}, keys |-> {}, ready |-> FALSE, elf |-> {}, fin |-> FALSE,
              icache |-> {}, taint |-> FALSE, up |-> NoCpu, done |-> 0, status |-> "mmu_off", present |-> Cpus, stuck |-> 0,
              panic |-> FALSE, late |-> FALSE]

(* smp_prepare_boot_cpu(): cpuinfo_store_boot_cpu(), init_cpu_features()   *)
(* with the capabilities of the boot scope enabled at once.                *)
BootCpu(m) ==
    /\ cf.cpu[Boot].st = "off" /\ sort_ftr_regs
    /\ LET s1 == [cf EXCEPT !.reg = init_cpu_ftr_reg(m), !.icache = icache(@, m)]
           s2 == [s1 EXCEPT !.caps = update_cpu_capabilities(s1, {"boot", "local"}, m)]
           boot == Detected(s2, {"boot"})
       IN cf' = [s2 EXCEPT !.keys = {c.num : c \in boot},
                           !.cpu[Boot] = CpuEnable([st |-> "online", model |-> m, on |-> {}, trap |-> FALSE], s2.reg, boot)]

(* __cpu_up(): one CPU at a time is told to come; its status is unknown.   *)
CpuUp(c, m) ==
    /\ cf.cpu[Boot].st = "online" /\ cf.up = NoCpu /\ ~cf.panic /\ c \in cf.present /\ cf.cpu[c].st = "off"
    /\ cf' = [cf EXCEPT !.up = c, !.status = "mmu_off", !.cpu[c] = [OffCpu EXCEPT !.st = "starting", !.model = m]]

(* cpu_die_early() and cpu_panic_kernel(): the CPU parks with its status.  *)
Park(s, c, status, absent) ==
    [s EXCEPT !.cpu[c].st = "parked", !.status = status, !.present = IF absent THEN @ \ {c} ELSE @]

(* verify_local_cpu_caps(): by number, up to the first conflict.           *)
Conflict(s, c, m) ==
    LET has == matches(s.reg, c, "local", m) IN
    IF c.num \in s.caps THEN ~has /\ "optional" \notin c.type ELSE has /\ "permitted" \notin c.type
verify_local_cpu_caps(s, cpu, scopes) ==
    LET mine == {c \in CapsList : Scope(c) \in scopes}
        bad == {c.num : c \in {d \in mine : Conflict(s, d, cpu.model)}}
    IN [ok |-> bad = {},
        cpu |-> CpuEnable(cpu, s.reg, {c \in mine : c.num \in s.caps /\ \A b \in bad : c.num < b})]
(* A plausible slip: only the capabilities are compared, not the hwcaps.   *)
VerifyLocalElfHwcapsNot(s, m) == TRUE
verify_local_elf_hwcaps(s, m) == \A h \in arm64_elf_hwcaps : h.num \in s.elf => matches(s.reg, h, "local", m)
get_cpu_asid_bits(m) == IF read_cpuid(m, <<"MMFR0", "ASID">>) = 2 THEN 16 ELSE 8

(* check_local_cpu_capabilities() on the starting CPU: the early features, *)
(* then either a chance to add to the capabilities or their verification.  *)
check_local_cpu_capabilities(c) ==
    /\ cf.cpu[c].st = "starting"
    /\ LET cpu == cf.cpu[c]
           early == verify_local_cpu_caps(cf, cpu, {"boot"})
           late == verify_local_cpu_caps(cf, early.cpu, {"local", "system"})
           here == [cf EXCEPT !.cpu[c] = [late.cpu EXCEPT !.st = "checked"], !.late = TRUE]
       IN cf' = IF get_cpu_asid_bits(cpu.model) < get_cpu_asid_bits(cf.cpu[Boot].model) \/ ~early.ok THEN Park(cf, c, "panic", FALSE)
                ELSE IF ~cf.fin THEN [cf EXCEPT !.caps = update_cpu_capabilities(cf, {"local"}, cpu.model), !.cpu[c].st = "checked"]
                ELSE IF late.ok /\ verify_local_elf_hwcaps(cf, cpu.model) THEN here
                ELSE Park(here, c, "stuck", TRUE)

(* cpuinfo_store_cpu(): update_cpu_features() against the boot CPU.        *)
cpuinfo_store_cpu(c) ==
    /\ cf.cpu[c].st = "checked"
    /\ LET m == cf.cpu[c].model IN
       cf' = [cf EXCEPT !.reg = update_cpu_ftr_reg(@, m), !.icache = icache(@, m), !.cpu[c].st = "stored",
                        !.taint = @ \/ check_update_ftr_reg(cf.reg, m, cf.cpu[Boot].model)]
(* ... and the CPU is online and completes cpu_running.                    *)
Online(c) ==
    /\ cf.cpu[c].st = "stored"
    /\ cf' = [cf EXCEPT !.cpu[c].st = "online", !.status = "success", !.done = @ + 1]

(* The rest of __cpu_up(), when the completion or its timeout comes.       *)
CpuUpDone ==
    /\ cf.up # NoCpu
    /\ (cf.done = 0 /\ cf.cpu[cf.up].st # "parked") => Timeouts
    /\ LET s == [cf EXCEPT !.up = NoCpu, !.done = IF @ > 0 THEN @ - 1 ELSE 0] IN
       cf' = IF cf.cpu[cf.up].st = "online" THEN s
             ELSE CASE cf.status = "stuck" -> [s EXCEPT !.stuck = @ + 1]
                    [] cf.status = "panic" -> [s EXCEPT !.panic = TRUE]
                    [] OTHER -> s

(* smp_cpus_done(): setup_cpu_features().                                  *)
setup_cpu_features ==
    /\ cf.cpu[Boot].st = "online" /\ cf.up = NoCpu /\ ~cf.fin /\ ~cf.panic
    /\ LET m == cf.cpu[Boot].model
           s1 == [cf EXCEPT !.caps = update_cpu_capabilities(cf, {"system"}, m)]
           enable == Detected(s1, {"local", "system"})
           elf == {h.num : h \in {x \in arm64_elf_hwcaps : matches(s1.reg, x, "system", m)}}
       IN cf' = [s1 EXCEPT !.keys = @ \union {c.num : c \in enable}, !.ready = TRUE, !.elf = {"CPUID"} \union elf, !.fin = TRUE,
                           !.cpu = [c \in Cpus |-> IF StopMachine /\ @[c].st = "online" THEN CpuEnable(@[c], s1.reg, enable) ELSE @[c]]]

FeaturesNext ==
    \/ \E m \in Models : BootCpu(m)
    \/ \E c \in Cpus \ {Boot}, m \in Models : CpuUp(c, m)
    \/ \E c \in Cpus \ {Boot} : check_local_cpu_capabilities(c) \/ cpuinfo_store_cpu(c) \/ Online(c)
    \/ CpuUpDone
    \/ setup_cpu_features
-----------------------------------------------------------------------------
(* do_emulate_mrs(): what a user reads from the register of an encoding,   *)
(* as the fields that are shown; the ID registers of CRm = 0 by name.      *)
is_emulated(id) == id < 128 /\ (id \div 8) \in {0, 4, 5, 6, 7}
emulate_id_reg(id) ==
    CASE id = sys_reg(0, 0, 0, 0) -> "midr" [] id = sys_reg(0, 0, 0, 5) -> "mpidr" [] id = sys_reg(0, 0, 0, 6) -> "zero" [] OTHER -> "einval"
(* arm64_ftr_reg_user_value()                                              *)
UserValue(r) == [k \in {q \in Fields : q[1] = r} |-> IF k \in cf.reg.user THEN cf.reg.sys_val[k] ELSE cf.reg.user_val[k]]
emulate_sys_reg(id) ==
    IF ~is_emulated(id) THEN [rc |-> "einval", val |-> <<>>]
    ELSE IF id \div 8 = 0 THEN [rc |-> emulate_id_reg(id), val |-> <<>>]
    ELSE [rc |-> "ok", val |-> IF bsearch(id) = 0 THEN <<>> ELSE UserValue(arm64_ftr_regs[bsearch(id)].name)]

cpus_have_const_cap(num) == IF cf.ready THEN num \in cf.keys ELSE num \in cf.caps
Sys(k) == cf.reg.sys_val[k]
system_supports_32bit_el0 == cpus_have_const_cap(13)
system_supports_fpsimd == ~cpus_have_const_cap(16)
system_supports_4kb_granule == Sys(<<"MMFR0", "TGRAN4">>) = 0
system_supports_64kb_granule == Sys(<<"MMFR0", "TGRAN64">>) = 0
system_supports_16kb_granule == Sys(<<"MMFR0", "TGRAN16">>) = 1
system_supports_mixed_endian == Sys(<<"MMFR0", "BIGENDEL">>) = 1
phys_shift(parange) == IF parange \in 0 .. 6 THEN <<32, 36, 40, 42, 44, 48, 52>>[parange + 1] ELSE 48

-----------------------------------------------------------------------------
UpCpus(c) == cf.cpu[c].st = "online"
Known == {c \in Cpus : cf.cpu[c].st \in {"stored", "online"}}
Model(c) == cf.cpu[c].model

(* The system-wide value of a field does not depend on the order in which  *)
(* CPUs came: it is their common value, or else the least, the greatest or *)
(* the predefined safe one.                                                *)
SysExact ==
    cf.reg # NoRegs => \A k \in KeptFields :
        LET f == Field[k]
            seen == {read_cpuid_effective(Model(c), k) : c \in Known}
            as(v) == IF f.sign /\ v >= 2^(f.width - 1) THEN v - 2^f.width ELSE v
        IN cf.reg.sys_val[k] =
             IF Cardinality(seen) = 1 THEN CHOOSE v \in seen : TRUE
             ELSE CASE f.type = "exact" -> f.safe
                    [] f.type = "lower" -> CHOOSE v \in seen : \A w \in seen : as(v) <= as(w)
                    [] OTHER -> CHOOSE v \in seen : \A w \in seen : as(v) >= as(w)

(* A user's read of an ID register is emulated for the registers of the    *)
(* feature space alone; of a field it shows the system's value when the    *)
(* field is visible and the safe value when not.                           *)
UserExact ==
    cf.reg # NoRegs => \A id \in 0 .. 127 :
        LET r == {q \in FtrRegs : q.id = id}
            seen == {k \in Fields : \E q \in r : k[1] = q.name}
        IN emulate_sys_reg(id) =
             CASE id \in 32 .. 63 -> [rc |-> "ok", val |-> [k \in seen |-> IF Field[k].visible THEN Sys(k) ELSE Field[k].safe]]
               [] id \in {0, 5, 6} -> [rc |-> [i \in {0, 5, 6} |-> IF i = 0 THEN "midr" ELSE IF i = 5 THEN "mpidr" ELSE "zero"][id], val |-> <<>>]
               [] OTHER -> [rc |-> "einval", val |-> <<>>]

(* What is advertised is there on every CPU online: every hwcap, and every *)
(* capability of the system scope.  Whether the GIC's system registers can *)
(* be enabled is tried on one CPU for all of them.                         *)
Advertised ==
    cf.fin => \A c \in Cpus : UpCpus(c) =>
        /\ \A h \in arm64_elf_hwcaps : h.num \in cf.elf => matches(cf.reg, h, "local", Model(c))
        /\ \A d \in CapsList : Scope(d) = "system" /\ d.num \in cf.caps =>
              IF d.field # NoField THEN has_cpuid_feature(cf.reg, d, "local", Model(c)) ELSE matches(cf.reg, d, "local", Model(c))
        /\ system_supports_32bit_el0 => read_cpuid(Model(c), <<"PFR0", "EL0">>) = 2
        /\ system_supports_fpsimd => read_cpuid(Model(c), <<"PFR0", "FP">>) # 15
(* ... and so for what is read from the sanitised registers at any time.   *)
Supported ==
    \A c \in Known :
        /\ system_supports_4kb_granule => read_cpuid(Model(c), <<"MMFR0", "TGRAN4">>) # 15
        /\ system_supports_64kb_granule => read_cpuid(Model(c), <<"MMFR0", "TGRAN64">>) # 15
        /\ system_supports_16kb_granule => read_cpuid(Model(c), <<"MMFR0", "TGRAN16">>) > 0
        /\ system_supports_mixed_endian => read_cpuid(Model(c), <<"MMFR0", "BIGENDEL">>) > 0
        /\ phys_shift(Sys(<<"MMFR0", "PARANGE">>)) <= phys_shift(read_cpuid(Model(c), <<"MMFR0", "PARANGE">>))
        /\ cf.icache = {} => read_cpuid(Model(c), <<"CTR", "L1IP">>) = 3

(* "For each successfully booted CPU, this method is called for each       *)
(* globally detected capability": once the capabilities are final,         *)
(* cpu_enable() has run on every CPU online for all of them.               *)
Enabled ==
    cf.fin => \A c \in Cpus, d \in CapsList : UpCpus(c) /\ d.num \in cf.caps /\ d.enable # "none" => d.num \in cf.cpu[c].on
(* Every CPU shows a user the same CTR_EL0, or traps the read.  A CPU that *)
(* comes after the capabilities are final may still change the system's    *)
(* value, and the CPUs before it are not told.                             *)
CtrConsistent ==
    cf.fin /\ ~cf.late => \A c \in Cpus : UpCpus(c) => \/ cf.cpu[c].trap
        \/ \A k \in {q \in cf.reg.strict : q[1] = "CTR" /\ q \in Fields} : read_cpuid(Model(c), k) = Sys(k)
(* After the keys are in use they agree with the capabilities found.       *)
KeysExact == cf.ready => cf.keys = cf.caps

FeaturesExact == SysExact /\ UserExact /\ Advertised /\ Supported /\ Enabled /\ CtrConsistent /\ KeysExact
=============================================================================
