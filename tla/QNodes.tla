------------------------------- MODULE QNodes -------------------------------
(***************************************************************************)
(* The per-CPU MCS nodes of core/locking/qspinlock.c: how an execution     *)
(* context that enters the slow path gets a node of its own, while an      *)
(* interrupt may arrive between any two instructions and enter the slow    *)
(* path of another lock on the same CPU, and how the lock word names that  *)
(* node.                                                                   *)
(*                                                                         *)
(* A CPU runs a stack of contexts: 0 task, 1 softirq, 2 hardirq, 3 NMI; a  *)
(* context is interrupted only by a higher one and resumes when that one   *)
(* returns.  `count' of the first node counts the nodes in use.  Neither   *)
(* node->count++ nor __this_cpu_dec (raw_cpu_generic_to_op) is atomic, so  *)
(* both are a load and a store.                                            *)
(***************************************************************************)
EXTENDS Integers

CONSTANTS Cpus,     \* the CPUs of the instance, numbered as smp_processor_id()
          NrCpus    \* CONFIG_NR_CPUS

TailCpuLimit == 16384  \* 1U << _Q_TAIL_CPU_BITS, for NR_CPUS < 16K
MaxNodes == 4          \* MAX_NODES
Contexts == 0..3

\* BUILD_BUG_ON(CONFIG_NR_CPUS >= (1U << _Q_TAIL_CPU_BITS))
ASSUME NrCpusAssumption == NrCpus \in Nat /\ NrCpus < TailCpuLimit
ASSUME CpusAssumption == Cpus \subseteq 0..(NrCpus - 1)

VARIABLES phase,    \* what each context of each CPU is doing
          count,    \* qnodes[0].mcs.count of each CPU
          idx,      \* the slow path's local idx
          tmp,      \* the count loaded by a decrement in progress
          owner     \* the context that initialised each node (0 once released)

vars == <<phase, count, idx, tmp, owner>>

Phases == {"off",    \* not on the CPU's stack
           "run",    \* running or interrupted outside the node's life
           "load",   \* idx loaded, count not yet stored
           "store",  \* count stored, node not yet initialised
           "use",    \* node initialised, in the queue
           "dec"}    \* count loaded for the decrement

Init ==
    /\ phase = [c \in Cpus |-> [l \in Contexts |-> IF l = 0 THEN "run" ELSE "off"]]
    /\ count = [c \in Cpus |-> 0]
    /\ idx = [c \in Cpus |-> [l \in Contexts |-> 0]]
    /\ tmp = [c \in Cpus |-> [l \in Contexts |-> 0]]
    /\ owner = [c \in Cpus |-> [i \in 0..(MaxNodes - 1) |-> 0]]

\* The context the CPU executes.
Top(c, l) == phase[c][l] # "off" /\ \A m \in Contexts : m > l => phase[c][m] = "off"
Enter(c, l, p) == phase' = [phase EXCEPT ![c][l] = p]

Interrupt(c, l) ==
    /\ \A m \in Contexts : m >= l => phase[c][m] = "off"
    /\ Enter(c, l, "run")
    /\ UNCHANGED <<count, idx, tmp, owner>>

InterruptReturn(c, l) ==
    /\ l > 0 /\ Top(c, l) /\ phase[c][l] = "run"
    /\ Enter(c, l, "off")
    /\ UNCHANGED <<count, idx, tmp, owner>>

LoadCount(c, l) ==
    /\ Top(c, l) /\ phase[c][l] = "run"
    /\ idx' = [idx EXCEPT ![c][l] = count[c]]
    /\ Enter(c, l, "load")
    /\ UNCHANGED <<count, tmp, owner>>

\* Mutated form: the node is initialised before count is stored.
StoreCountLate(c, l) ==
    /\ Top(c, l) /\ phase[c][l] = "load"
    /\ owner' = [owner EXCEPT ![c][idx[c][l]] = l]
    /\ Enter(c, l, "use")
    /\ UNCHANGED <<count, idx, tmp>>

StoreCount(c, l) ==
    /\ Top(c, l) /\ phase[c][l] = "load"
    /\ count' = [count EXCEPT ![c] = idx[c][l] + 1]
    /\ Enter(c, l, "store")
    /\ UNCHANGED <<idx, tmp, owner>>

InitNode(c, l) ==
    /\ Top(c, l) /\ phase[c][l] = "store"
    /\ owner' = [owner EXCEPT ![c][idx[c][l]] = l]
    /\ Enter(c, l, "use")
    /\ UNCHANGED <<count, idx, tmp>>

LoadForDecrement(c, l) ==
    /\ Top(c, l) /\ phase[c][l] = "use"
    /\ tmp' = [tmp EXCEPT ![c][l] = count[c]]
    /\ Enter(c, l, "dec")
    /\ UNCHANGED <<count, idx, owner>>

StoreDecrement(c, l) ==
    /\ Top(c, l) /\ phase[c][l] = "dec"
    /\ count' = [count EXCEPT ![c] = tmp[c][l] - 1]
    /\ idx' = [idx EXCEPT ![c][l] = 0]
    /\ tmp' = [tmp EXCEPT ![c][l] = 0]
    /\ owner' = [owner EXCEPT ![c][idx[c][l]] = 0]
    /\ Enter(c, l, "run")

Next ==
    \E c \in Cpus, l \in Contexts :
        \/ Interrupt(c, l) \/ InterruptReturn(c, l)
        \/ LoadCount(c, l) \/ StoreCount(c, l) \/ InitNode(c, l)
        \/ LoadForDecrement(c, l) \/ StoreDecrement(c, l)

Spec == Init /\ [][Next]_vars

-----------------------------------------------------------------------------
\* The upper half of the 32-bit lock word: 2 bits of index, 14 of CPU + 1.
\* Mutated form: CPU 0 is not told apart from "no tail".
EncodeTailFromZero(cpu, i) == (cpu * 4 + i) % 65536

EncodeTail(cpu, i) == ((cpu + 1) * 4 + i) % 65536
DecodeTail(tail) == <<(tail \div 4) - 1, tail % 4>>

-----------------------------------------------------------------------------
Counted(c, l) == IF phase[c][l] \in {"store", "use", "dec"} THEN 1 ELSE 0
\* How many contexts below l hold a node.
Below(c, l) == (IF l > 0 THEN Counted(c, 0) ELSE 0)
             + (IF l > 1 THEN Counted(c, 1) ELSE 0)
             + (IF l > 2 THEN Counted(c, 2) ELSE 0)
UsesNode(c, l) == phase[c][l] \in {"use", "dec"}

(* Types; in particular no index reaches MAX_NODES, although the code does  *)
(* not test it ("we can never have more than 4 nested contexts").           *)
TypeOK ==
    /\ phase \in [Cpus -> [Contexts -> Phases]]
    /\ count \in [Cpus -> 0..MaxNodes]
    /\ idx \in [Cpus -> [Contexts -> 0..(MaxNodes - 1)]]
    /\ tmp \in [Cpus -> [Contexts -> 0..MaxNodes]]
    /\ owner \in [Cpus -> [0..(MaxNodes - 1) -> Contexts]]

(* count is the number of nodes in use although its updates are torn by      *)
(* interrupts, and each context holds the index of its depth.                *)
CountExact ==
    \A c \in Cpus :
        /\ count[c] = Below(c, 3) + Counted(c, 3)
        /\ \A l \in Contexts :
             /\ phase[c][l] \in {"load", "store", "use", "dec"} =>
                    idx[c][l] = Below(c, l)
             /\ phase[c][l] = "dec" => tmp[c][l] = Below(c, l) + 1

(* "Ensure that we increment the head node->count before initialising the    *)
(* actual node [...] an IRQ could overwrite our assignments": the node a     *)
(* context put into the queue is still the one it initialised, whatever      *)
(* interrupts took nodes meanwhile.                                          *)
NodeIntact ==
    \A c \in Cpus, l \in Contexts : UsesNode(c, l) => owner[c][idx[c][l]] = l

(* The tail in the lock word names one context of one CPU, is never the      *)
(* "no tail" value 0, and decodes to the node it was made from.              *)
TailsUnambiguous ==
    \A c \in Cpus, l \in Contexts : UsesNode(c, l) =>
        LET tail == EncodeTail(c, idx[c][l]) IN
        /\ tail # 0
        /\ DecodeTail(tail) = <<c, idx[c][l]>>
        /\ \A d \in Cpus, m \in Contexts :
              UsesNode(d, m) /\ EncodeTail(d, idx[d][m]) = tail
                  => d = c /\ m = l

=============================================================================
