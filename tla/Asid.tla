-------------------------------- MODULE Asid --------------------------------
(***************************************************************************)
(* The ASID allocator of arch/arm64/mm/context.c.  A context switch tags   *)
(* the TLB entries of the next address space with its ASID; when the ASIDs *)
(* run out a new generation starts, which keeps only the ASIDs that CPUs   *)
(* are running with and has every CPU flush its TLB before its next slow   *)
(* switch.  The fast path takes no lock: it races with the rollover on     *)
(* active_asids, one access per step here.  What is only accessed under    *)
(* cpu_asid_lock is changed in one step.                                   *)
(*                                                                         *)
(* An ASID value of the code is a generation and an index; the value zero  *)
(* is the index 0 of generation 0.  A TLB is what it may hold: walks are   *)
(* speculative, so it holds an entry of every address space that TTBR0     *)
(* pointed to since the last flush.                                        *)
(***************************************************************************)
EXTENDS Integers, FiniteSets, TLC

CONSTANTS NumCpus,        \* num_possible_cpus()
          Mms,            \* address spaces
          NoMm,           \* no address space
          NumAsids,       \* NUM_USER_ASIDS
          MaxGeneration   \* bound: switches start only while rollovers remain below it

Cpus == 0..(NumCpus - 1)

\* asids_init: "at least one more ASID than CPUs", besides ASID 0.
ASSUME EnoughAsids == /\ NumCpus \in Nat \ {0}
                      /\ NumAsids \in Nat /\ NumAsids - 1 > NumCpus

ASSUME NoMmIsNone == NoMm \notin Mms

VARIABLES cnp,            \* system_supports_cnp(): CPUs may share TLB entries
          generation,     \* asid_generation
          map,            \* asid_map: the indices in use
          cur_idx,
          id,             \* mm->context.id
          active,         \* active_asids
          reserved,       \* reserved_asids
          flush_pending,  \* tlb_flush_pending
          lock,           \* the holder of cpu_asid_lock, or NumCpus
          pc, next, asid, \* per CPU: position, the next mm and the local asid
          visit,          \* the loop variable of flush_context
          ttbr,           \* per CPU: <<mm, index>> the walks use, or <<>>
          tlb             \* per CPU: the <<mm, index>> it may hold entries of

locals == <<pc, next, asid>>
tables == <<map, cur_idx, reserved, flush_pending, visit>>
vars == <<cnp, generation, id, active, lock, ttbr, tlb, locals, tables>>

Zero == [gen |-> 0, idx |-> 0]

Nobody == NumCpus

Init ==
    /\ cnp \in BOOLEAN
    /\ generation = 1
    /\ map = {} /\ cur_idx = 1
    /\ id = [m \in Mms |-> Zero]
    /\ active = [c \in Cpus |-> Zero]
    /\ reserved = [c \in Cpus |-> Zero]
    /\ flush_pending = {}
    /\ lock = Nobody
    /\ pc = [c \in Cpus |-> "run"]
    /\ next = [c \in Cpus |-> NoMm]
    /\ asid = [c \in Cpus |-> Zero]
    /\ visit = 0
    /\ ttbr = [c \in Cpus |-> <<>>]
    /\ tlb = [c \in Cpus |-> {}]

\* A local that is no longer used is reset, so that it tells no states apart.
Goto(c, to) == pc' = [pc EXCEPT ![c] = to]

SetAsid(c, a) == asid' = [asid EXCEPT ![c] = a]

Runs(c, m) == ttbr[c] # <<>> /\ ttbr[c][1] = m

InFlight == {c \in Cpus : pc[c] # "run"}

-----------------------------------------------------------------------------
(* check_and_switch_context, without the lock                              *)

\* Mutated form: the old tables stay installed although TLBs may be shared.
KeepTtbr0(c) == ttbr

\* CPUs that share TLB entries install the empty tables first.
LeaveMm(c) == IF cnp THEN [ttbr EXCEPT ![c] = <<>>] ELSE ttbr

\* switch_mm: prev != next, and next is not init_mm.
SwitchMm(c, m) ==
    /\ pc[c] = "run" /\ ~Runs(c, m)
    /\ generation + Cardinality(InFlight) < MaxGeneration
    /\ next' = [next EXCEPT ![c] = m]
    /\ ttbr' = LeaveMm(c)
    /\ Goto(c, "read_id")
    /\ UNCHANGED <<generation, id, active, lock, tlb, asid, tables>>

\* switch_mm to init_mm: only TTBR0 changes.
SwitchToInitMm(c) ==
    /\ pc[c] = "run" /\ ttbr[c] # <<>>
    /\ ttbr' = [ttbr EXCEPT ![c] = <<>>]
    /\ UNCHANGED <<generation, id, active, lock, tlb, locals, tables>>

ReadId(c) ==
    /\ pc[c] = "read_id"
    /\ SetAsid(c, id[next[c]])
    /\ Goto(c, "check")
    /\ UNCHANGED <<generation, id, active, lock, ttbr, tlb, next, tables>>

\* The loads of active_asids and of asid_generation.  Only this CPU stores
\* anything but zero in its active_asids, so a value that was not zero is the
\* one cmpxchg compares with unless it has become zero in between.
CheckGeneration(c) ==
    /\ pc[c] = "check"
    /\ IF active[c] # Zero /\ asid[c].gen = generation
       THEN Goto(c, "cmpxchg") /\ UNCHANGED asid
       ELSE Goto(c, "lock") /\ SetAsid(c, Zero)
    /\ UNCHANGED <<generation, id, active, lock, ttbr, tlb, next, tables>>

Cmpxchg(c) ==
    /\ pc[c] = "cmpxchg"
    /\ IF active[c] # Zero
       THEN active' = [active EXCEPT ![c] = asid[c]] /\ Goto(c, "set_reserved")
       ELSE UNCHANGED active /\ Goto(c, "lock")
    /\ SetAsid(c, Zero)
    /\ UNCHANGED <<generation, id, lock, ttbr, tlb, next, tables>>

-----------------------------------------------------------------------------
(* check_and_switch_context, under cpu_asid_lock                           *)

\* The lock is taken and the ASID of the next address space read again; what
\* new_context does is the next step of the lock holder in the code and part of
\* the same one here, as nobody else may read or write what it uses.
Acquire(c) ==
    /\ pc[c] = "lock" /\ lock = Nobody
    /\ lock' = c

Old(c) == id[next[c]]

LockValid(c) ==
    /\ Acquire(c)
    /\ Old(c).gen = generation
    /\ SetAsid(c, Old(c))
    /\ Goto(c, "finish")
    /\ UNCHANGED <<generation, id, active, ttbr, tlb, next, tables>>

\* find_next_zero_bit: the bound when there is none.
NextZero(used, from) ==
    LET free == (from..(NumAsids - 1)) \ used
    IN  IF free = {} THEN NumAsids ELSE CHOOSE i \in free : \A j \in free : i <= j

\* set_asid
Take(c, i, used, gen) ==
    /\ map' = used \cup {i}
    /\ cur_idx' = i
    /\ SetAsid(c, [gen |-> gen, idx |-> i])
    /\ Goto(c, "store_id")

NeedsAsid(c) == Acquire(c) /\ Old(c).gen # generation

\* Mutated form: reserved ASIDs are not looked for.
NeverReserved(a) == FALSE

IsReserved(a) == a # Zero /\ \E d \in Cpus : reserved[d] = a

\* Mutated form: the search stops at the first copy.
UpdateFirst(old, new) ==
    LET first == CHOOSE d \in Cpus : reserved[d] = old
    IN  [reserved EXCEPT ![first] = new]

\* All reserved copies of the old ASID move to the current generation.
CheckUpdateReserved(old, new) ==
    [d \in Cpus |-> IF reserved[d] = old THEN new ELSE reserved[d]]

KeepReserved(c) ==
    LET new == [gen |-> generation, idx |-> Old(c).idx]
    IN  /\ NeedsAsid(c)
        /\ IsReserved(Old(c))
        /\ reserved' = CheckUpdateReserved(Old(c), new)
        /\ SetAsid(c, new)
        /\ Goto(c, "store_id")
        /\ UNCHANGED <<generation, id, active, ttbr, tlb, next,
                       map, cur_idx, flush_pending, visit>>

\* The old index is still free in this generation.
Reusable(a) == a # Zero /\ a.idx \notin map

Reuse(c) ==
    /\ NeedsAsid(c)
    /\ ~IsReserved(Old(c)) /\ Reusable(Old(c))
    /\ map' = map \cup {Old(c).idx}
    /\ SetAsid(c, [gen |-> generation, idx |-> Old(c).idx])
    /\ Goto(c, "store_id")
    /\ UNCHANGED <<generation, id, active, ttbr, tlb, next,
                   cur_idx, reserved, flush_pending, visit>>

Allocate(c) ==
    /\ NeedsAsid(c)
    /\ ~IsReserved(Old(c)) /\ ~Reusable(Old(c))
    /\ NextZero(map, cur_idx) # NumAsids
    /\ Take(c, NextZero(map, cur_idx), map, generation)
    /\ UNCHANGED <<generation, id, active, ttbr, tlb, next,
                   reserved, flush_pending, visit>>

\* Out of ASIDs: the generation advances and flush_context starts.
Rollover(c) ==
    /\ NeedsAsid(c)
    /\ ~IsReserved(Old(c)) /\ ~Reusable(Old(c))
    /\ NextZero(map, cur_idx) = NumAsids
    /\ generation' = generation + 1
    /\ map' = {}
    /\ visit' = 0
    /\ Goto(c, "flush_context")
    /\ UNCHANGED <<id, active, ttbr, tlb, next, asid,
                   cur_idx, reserved, flush_pending>>

\* What stays reserved for a CPU: what it was active with or, if it has not
\* switched since the last rollover, what was reserved then.
Reservation(a, r) == IF a = Zero THEN r ELSE a

\* Mutated form: no CPU is asked to flush.
NoFlush == flush_pending

QueueFlush == Cpus

\* One CPU of the loop of flush_context; after the last one the flushes are
\* queued and new_context takes a free index.
FlushContext(c) ==
    LET kept == Reservation(active[visit], reserved[visit])
        used == map \cup {kept.idx}
    IN  /\ pc[c] = "flush_context"
        /\ active' = [active EXCEPT ![visit] = Zero]
        /\ reserved' = [reserved EXCEPT ![visit] = kept]
        /\ IF visit + 1 < NumCpus
           THEN /\ map' = used
                /\ visit' = visit + 1
                /\ UNCHANGED <<cur_idx, flush_pending, pc, asid>>
           ELSE /\ flush_pending' = QueueFlush
                /\ visit' = 0
                /\ Take(c, NextZero(used, 1), used, generation)
        /\ UNCHANGED <<generation, id, lock, ttbr, tlb, next>>

StoreId(c) ==
    /\ pc[c] = "store_id"
    /\ id' = [id EXCEPT ![next[c]] = asid[c]]
    /\ Goto(c, "finish")
    /\ UNCHANGED <<generation, active, lock, ttbr, tlb, next, asid, tables>>

\* The flush leaves what the walks of the address space that is still
\* installed may fetch again.
LocalFlushTlbAll(c) == {ttbr[c]} \ {<<>>}

Finish(c) ==
    /\ pc[c] = "finish"
    /\ flush_pending' = flush_pending \ {c}
    /\ tlb' = [tlb EXCEPT ![c] =
                 IF c \in flush_pending THEN LocalFlushTlbAll(c) ELSE @]
    /\ active' = [active EXCEPT ![c] = asid[c]]
    /\ lock' = Nobody
    /\ Goto(c, "set_reserved")
    /\ SetAsid(c, Zero)
    /\ UNCHANGED <<generation, id, ttbr, next, map, cur_idx, reserved, visit>>

-----------------------------------------------------------------------------
(* cpu_switch_mm                                                           *)

SetReservedTtbr0(c) ==
    /\ pc[c] = "set_reserved"
    /\ ttbr' = [ttbr EXCEPT ![c] = <<>>]
    /\ Goto(c, "switch")
    /\ UNCHANGED <<generation, id, active, lock, tlb, next, asid, tables>>

\* cpu_do_switch_mm reads mm->context.id again.
DoSwitchMm(c) ==
    LET entry == <<next[c], id[next[c]].idx>>
    IN  /\ pc[c] = "switch"
        /\ ttbr' = [ttbr EXCEPT ![c] = entry]
        /\ tlb' = [tlb EXCEPT ![c] = @ \cup {entry}]
        /\ next' = [next EXCEPT ![c] = NoMm]
        /\ Goto(c, "run")
        /\ UNCHANGED <<generation, id, active, lock, asid, tables>>

Step(c) ==
    \/ ReadId(c) \/ CheckGeneration(c) \/ Cmpxchg(c)
    \/ LockValid(c) \/ KeepReserved(c) \/ Reuse(c) \/ Allocate(c) \/ Rollover(c)
    \/ FlushContext(c) \/ StoreId(c) \/ Finish(c)
    \/ SetReservedTtbr0(c) \/ DoSwitchMm(c)

Next ==
    /\ \E c \in Cpus : Step(c) \/ SwitchToInitMm(c) \/ \E m \in Mms : SwitchMm(c, m)
    /\ UNCHANGED cnp

Spec == Init /\ [][Next]_vars

\* Address spaces are interchangeable.
Symmetry == Permutations(Mms)

-----------------------------------------------------------------------------
(* Properties                                                              *)

Asids == [gen : Nat, idx : 0..(NumAsids - 1)]

Entries == Mms \X (1..(NumAsids - 1))

Holding == {"flush_context", "store_id", "finish"}

\* Types; in particular find_next_zero_bit always finds an index after a
\* rollover ("We have more ASIDs than CPUs, so this will always succeed").
TypeOK ==
    /\ cnp \in BOOLEAN
    /\ generation \in Nat \ {0}
    /\ map \subseteq 0..(NumAsids - 1)
    /\ cur_idx \in 1..(NumAsids - 1)
    /\ id \in [Mms -> Asids]
    /\ active \in [Cpus -> Asids]
    /\ reserved \in [Cpus -> Asids]
    /\ flush_pending \subseteq Cpus
    /\ lock \in Cpus \cup {Nobody}
    /\ pc \in [Cpus -> {"run", "read_id", "check", "cmpxchg", "lock", "set_reserved", "switch"} \cup Holding]
    /\ next \in [Cpus -> Mms \cup {NoMm}]
    /\ asid \in [Cpus -> Asids]
    /\ visit \in Cpus
    /\ ttbr \in [Cpus -> Entries \cup {<<>>}]
    /\ tlb \in [Cpus -> SUBSET Entries]

\* A CPU never translates with the TLB entries of another address space: no
\* entry it may hold carries the ASID it runs with and belongs to another mm.
NoStaleTranslation ==
    \A c \in Cpus : ttbr[c] # <<>> =>
        \A e \in tlb[c] : e[2] = ttbr[c][2] => e[1] = ttbr[c][1]

\* A CPU whose walks matter to others: it runs the address space or, when TLB
\* entries are shared, has it installed at all.
Walks(c) == ttbr[c] # <<>> /\ (cnp \/ pc[c] = "run")

\* Two CPUs never walk different address spaces with the same ASID, rollovers
\* and fast paths in any order.
AsidsDistinct ==
    \A c, d \in Cpus : Walks(c) /\ Walks(d) /\ ttbr[c][2] = ttbr[d][2] =>
        ttbr[c][1] = ttbr[d][1]

\* An invalidation by mm->context.id reaches every CPU that runs the address
\* space, which keeps its ASID meanwhile, and everything a CPU may still hold
\* of it, unless the CPU flushes before it switches to a new ASID.
InvalidationReaches ==
    /\ \A c \in Cpus : Walks(c) => id[ttbr[c][1]].idx = ttbr[c][2]
    /\ \A c \in Cpus \ flush_pending : \A e \in tlb[c] : id[e[1]].idx = e[2]

-----------------------------------------------------------------------------
(* The inductive invariant                                                 *)

\* A rollover is under way: the generation has advanced, and the CPUs from
\* visit on are still active with ASIDs of the one before.
Flushing == lock # Nobody /\ pc[lock] = "flush_context"

Current == IF Flushing THEN generation - 1 ELSE generation

\* The ASID of an address space, stored or about to be.
Storing(m) == lock # Nobody /\ pc[lock] = "store_id" /\ next[lock] = m

Id(m) == IF Storing(m) THEN asid[lock] ELSE id[m]

\* The ASID that a CPU keeps from being given away.
Claim(c) == Reservation(active[c], reserved[c])

\* The locals of a switch are what the lock and the generation make of them.
LocalsInv ==
    \A c \in Cpus :
        /\ pc[c] \in Holding <=> lock = c
        /\ pc[c] # "run" => next[c] \in Mms
        /\ pc[c] = "check" => /\ asid[c].gen <= Current
                              /\ asid[c].gen = Current => asid[c] = id[next[c]]
        /\ pc[c] = "cmpxchg" /\ active[c] # Zero => /\ asid[c].gen = Current
                                                    /\ asid[c] = id[next[c]]
        /\ pc[c] = "flush_context" => /\ id[next[c]].gen # Current
                                      /\ \A d \in Cpus : reserved[d] = id[next[c]] => reserved[d] = Zero
        /\ pc[c] = "store_id" => /\ asid[c].gen = generation /\ asid[c].idx \in map \ {0}
                                 /\ id[next[c]].gen # generation
        /\ pc[c] = "finish" => asid[c].gen = generation /\ asid[c] = id[next[c]]
        /\ cnp /\ pc[c] # "run" => ttbr[c] = <<>>

\* No two address spaces have one ASID, and an ASID of this generation is in
\* the map.
IdsInv ==
    /\ Current # 0
    /\ \A m \in Mms : /\ Id(m).gen <= Current /\ id[m].gen <= Current
                      /\ Id(m) # Zero => Id(m).idx # 0
                      /\ id[m] # Zero => id[m].idx # 0
                      /\ ~Flushing /\ Id(m).gen = generation => Id(m).idx \in map
    /\ \A m, n \in Mms : m # n /\ Id(m) = Id(n) => Id(m) = Zero

\* A reserved index is nobody else's in this generation, and the map of a
\* rollover under way holds nothing else.
ReservedInv ==
    /\ Flushing => map \subseteq {reserved[c].idx : c \in 0..(visit - 1)}
    /\ \A c \in Cpus :
           /\ reserved[c].gen <= Current
           /\ reserved[c] # Zero => reserved[c].idx # 0
           /\ reserved[c] # Zero /\ (Flushing => c < visit) => reserved[c].idx \in map
           /\ \A d \in Cpus : reserved[c].idx = reserved[d].idx => reserved[c] = reserved[d]
           /\ \A m \in Mms : Id(m).gen = Current /\ Id(m).idx = reserved[c].idx => Id(m) = reserved[c]

\* An active ASID is one of this generation, and the CPU has flushed for it.
ActiveInv ==
    \A c \in Cpus : active[c] # Zero =>
        /\ c \notin flush_pending
        /\ Flushing => c >= visit
        /\ \E m \in Mms : Id(m) = active[c] /\ Id(m).gen = Current

\* The address space a CPU runs or is about to run is the one of its claim.
Claims(c, m) == Claim(c) # Zero /\ Claim(c) = Id(m) /\ Claim(c).idx = id[m].idx

ClaimInv ==
    \A c \in Cpus :
        IF pc[c] \in {"set_reserved", "switch"}
        THEN Claims(c, next[c])
        ELSE ttbr[c] # <<>> => Claims(c, ttbr[c][1]) /\ ttbr[c][2] = Claim(c).idx

\* What a TLB may hold: at most one address space under each ASID, under their
\* present ASIDs unless the CPU is to flush, and nothing of another address
\* space under the ASID of the one that is about to run.
TlbInv ==
    \A c \in Cpus :
        /\ ttbr[c] # <<>> => ttbr[c] \in tlb[c]
        /\ \A e, f \in tlb[c] : e[2] = f[2] => e[1] = f[1]
        /\ pc[c] \in {"set_reserved", "switch"} =>
               \A e \in tlb[c] : e[2] = Claim(c).idx => e[1] = next[c]
        /\ c \notin flush_pending =>
               \A e \in tlb[c] : /\ id[e[1]].idx = e[2] /\ Id(e[1]).idx = e[2]
                                 /\ \/ Flushing /\ c < visit
                                    \/ Id(e[1]).gen = Current
                                    \/ Id(e[1]) = reserved[c]

\* What makes the three properties above inductive.
IInv ==
    /\ TypeOK /\ LocalsInv /\ IdsInv /\ ReservedInv /\ ActiveInv /\ ClaimInv /\ TlbInv
=============================================================================
