----------------------------- MODULE AsidSteps ------------------------------
(***************************************************************************)
(* The steps of check_and_switch_context and of the ASID allocator that    *)
(* stay within a generation preserve the inductive invariant of Asid, for  *)
(* any number of CPUs, address spaces and ASIDs. Leaves that are pure      *)
(* first-order reasoning go to Zenon.                                      *)
(***************************************************************************)
EXTENDS Asid, TLAPS

-----------------------------------------------------------------------------
(* What the actions have in common                                         *)

(* The value zero and the ASIDs of address spaces are ASIDs. *)
LEMMA IdTypes ==
    ASSUME TypeOK
    PROVE  /\ Zero \in Asids /\ Zero.gen = 0 /\ Zero.idx = 0
           /\ \A m \in Mms : Id(m) \in Asids /\ id[m] \in Asids
           /\ \A c \in Cpus : Claim(c) \in Asids
<1>1. Zero \in Asids /\ Zero.gen = 0 /\ Zero.idx = 0
  BY EnoughAsids DEF Zero, Asids
<1>2. \A m \in Mms : Id(m) \in Asids /\ id[m] \in Asids
  BY Zenon DEF TypeOK, Id, Storing
<1>3. \A c \in Cpus : Claim(c) \in Asids
  BY Zenon DEF TypeOK, Claim, Reservation
<1> QED BY <1>1, <1>2, <1>3, Zenon

(* ASIDs of the same generation and index are the same. *)
LEMMA AsidEq ==
    ASSUME NEW a \in Asids, NEW b \in Asids, a.gen = b.gen, a.idx = b.idx
    PROVE  a = b
BY DEF Asids

(* A CPU that does not hold the lock changes neither the rollover under    *)
(* way nor the ASID about to be stored. *)
LEMMA Frame ==
    ASSUME TypeOK, LocalsInv, NEW c \in Cpus,
           pc[c] \notin Holding, pc'[c] \notin Holding,
           \A d \in Cpus \ {c} : pc'[d] = pc[d] /\ next'[d] = next[d] /\ asid'[d] = asid[d],
           UNCHANGED <<lock, generation, id>>
    PROVE  /\ Flushing' = Flushing
           /\ Current' = Current
           /\ \A m \in Mms : Id(m)' = Id(m)
<1>1. lock # c
  BY Zenon DEF LocalsInv
<1>2. lock # Nobody => lock \in Cpus \ {c}
  BY <1>1, Zenon DEF TypeOK
<1>3. Flushing' = Flushing
  BY <1>2, Zenon DEF Flushing, Nobody
<1>4. Current' = Current
  BY <1>3, Zenon DEF Current
<1>5. \A m \in Mms : Id(m)' = Id(m)
  BY <1>2, Zenon DEF Id, Storing, Nobody
<1> QED BY <1>3, <1>4, <1>5, Zenon

(* A step that leaves the tables and the ASIDs alone leaves alone what is  *)
(* true of them. *)
LEMMA Quiet ==
    ASSUME IdsInv, ReservedInv, ActiveInv,
           Flushing' = Flushing, Current' = Current,
           \A m \in Mms : Id(m)' = Id(m),
           UNCHANGED <<generation, id, active, map, reserved, flush_pending, visit>>
    PROVE  /\ IdsInv' /\ ReservedInv' /\ ActiveInv'
           /\ \A d \in Cpus : Claim(d)' = Claim(d)
           /\ \A d \in Cpus, m \in Mms : Claims(d, m)' = Claims(d, m)
<1>1. IdsInv'
  BY Zenon DEF IdsInv
<1>2. ReservedInv'
  BY Zenon DEF ReservedInv
<1>3. ActiveInv'
  BY Zenon DEF ActiveInv
<1>4. \A d \in Cpus : Claim(d)' = Claim(d)
  BY Zenon DEF Claim, Reservation
<1>5. \A d \in Cpus, m \in Mms : Claims(d, m)' = Claims(d, m)
  BY <1>4, Zenon DEF Claims
<1> QED BY <1>1, <1>2, <1>3, <1>4, <1>5, Zenon

(* mm->context.id is read while another CPU may be about to change it. *)
LEMMA ReadIdStep ==
    ASSUME IInv, NEW c \in Cpus, ReadId(c), UNCHANGED cnp
    PROVE  IInv'
<1> USE DEF IInv
<1>1. TypeOK'
  BY IdTypes, Zenon DEF TypeOK, ReadId, Goto, SetAsid, tables, LocalsInv, Holding
<1>2. /\ Flushing' = Flushing /\ Current' = Current
      /\ \A m \in Mms : Id(m)' = Id(m)
  BY Frame, Zenon DEF TypeOK, ReadId, Goto, SetAsid, Holding
<1>3. LocalsInv'
  BY <1>2 DEF TypeOK, LocalsInv, IdsInv, ReadId, Goto, SetAsid, tables, Holding
<1>4. /\ IdsInv' /\ ReservedInv' /\ ActiveInv'
      /\ \A d \in Cpus : Claim(d)' = Claim(d)
      /\ \A d \in Cpus, m \in Mms : Claims(d, m)' = Claims(d, m)
  BY <1>2, Quiet, Zenon DEF ReadId, tables
<1>5. ClaimInv'
  BY <1>4 DEF TypeOK, LocalsInv, ClaimInv, ReadId, Goto, Entries
<1>6. TlbInv'
  BY <1>2, <1>4 DEF TypeOK, TlbInv, ReadId, Goto, Entries, tables
<1> QED BY <1>1, <1>3, <1>4, <1>5, <1>6, Zenon

(* switch_mm: the next address space is noted, and where TLB entries are   *)
(* shared the tables of the last one are taken away. *)
LEMMA SwitchMmStep ==
    ASSUME IInv, NEW c \in Cpus, NEW m \in Mms, SwitchMm(c, m), UNCHANGED cnp
    PROVE  IInv'
<1> USE DEF IInv
<1>1. TypeOK'
  BY Zenon DEF TypeOK, SwitchMm, LeaveMm, Goto, tables
<1>2. /\ Flushing' = Flushing /\ Current' = Current
      /\ \A n \in Mms : Id(n)' = Id(n)
  BY Frame, Zenon DEF TypeOK, SwitchMm, Goto, Holding
<1>3. LocalsInv'
  BY <1>2 DEF TypeOK, LocalsInv, SwitchMm, LeaveMm, Goto, tables, Holding
<1>4. /\ IdsInv' /\ ReservedInv' /\ ActiveInv'
      /\ \A d \in Cpus : Claim(d)' = Claim(d)
      /\ \A d \in Cpus, n \in Mms : Claims(d, n)' = Claims(d, n)
  BY <1>2, Quiet, Zenon DEF SwitchMm, tables
<1>5. ClaimInv'
  BY <1>4 DEF TypeOK, LocalsInv, ClaimInv, SwitchMm, LeaveMm, Goto, Entries
<1>6. TlbInv'
  BY <1>2, <1>4 DEF TypeOK, TlbInv, SwitchMm, LeaveMm, Goto, Entries, tables
<1> QED BY <1>1, <1>3, <1>4, <1>5, <1>6, Zenon

(* switch_mm to init_mm: the tables are taken away. *)
LEMMA SwitchToInitMmStep ==
    ASSUME IInv, NEW c \in Cpus, SwitchToInitMm(c), UNCHANGED cnp
    PROVE  IInv'
<1> USE DEF IInv
<1>1. TypeOK'
  BY Zenon DEF TypeOK, SwitchToInitMm, locals, tables
<1>2. /\ Flushing' = Flushing /\ Current' = Current
      /\ \A n \in Mms : Id(n)' = Id(n)
  BY Frame, Zenon DEF TypeOK, SwitchToInitMm, locals, Holding
<1>3. LocalsInv'
  BY <1>2 DEF TypeOK, LocalsInv, SwitchToInitMm, locals, tables, Holding
<1>4. /\ IdsInv' /\ ReservedInv' /\ ActiveInv'
      /\ \A d \in Cpus : Claim(d)' = Claim(d)
      /\ \A d \in Cpus, n \in Mms : Claims(d, n)' = Claims(d, n)
  BY <1>2, Quiet, Zenon DEF SwitchToInitMm, tables
<1>5. ClaimInv'
  BY <1>4 DEF TypeOK, LocalsInv, ClaimInv, SwitchToInitMm, locals, Entries
<1>6. TlbInv'
  BY <1>2, <1>4 DEF TypeOK, TlbInv, SwitchToInitMm, locals, Entries, tables
<1> QED BY <1>1, <1>3, <1>4, <1>5, <1>6, Zenon

(* The fast path goes on only if its ASID is of the present generation:    *)
(* then no rollover is under way and the ASID is still the one stored. *)
LEMMA CheckGenerationStep ==
    ASSUME IInv, NEW c \in Cpus, CheckGeneration(c), UNCHANGED cnp
    PROVE  IInv'
<1> USE DEF IInv
<1>1. TypeOK'
  BY IdTypes, Zenon DEF TypeOK, CheckGeneration, Goto, SetAsid, tables
<1>2. /\ Flushing' = Flushing /\ Current' = Current
      /\ \A m \in Mms : Id(m)' = Id(m)
  BY Frame DEF TypeOK, CheckGeneration, Goto, SetAsid, Holding
<1>3. LocalsInv'
  <2>1. asid[c].gen = generation => asid[c].gen = Current /\ asid[c] = id[next[c]]
    <3>1. asid[c].gen <= Current /\ (asid[c].gen = Current => asid[c] = id[next[c]])
      BY Zenon DEF LocalsInv, CheckGeneration
    <3>2. generation \in Nat
      BY Zenon DEF TypeOK
    <3> QED BY <3>1, <3>2 DEF Current
  <2> QED BY <1>2, <2>1 DEF TypeOK, LocalsInv, CheckGeneration, Goto, SetAsid, tables, Holding
<1>4. /\ IdsInv' /\ ReservedInv' /\ ActiveInv'
      /\ \A d \in Cpus : Claim(d)' = Claim(d)
      /\ \A d \in Cpus, m \in Mms : Claims(d, m)' = Claims(d, m)
  BY <1>2, Quiet, Zenon DEF CheckGeneration, tables
<1>5. ClaimInv'
  BY <1>4 DEF TypeOK, LocalsInv, ClaimInv, CheckGeneration, Goto, Entries
<1>6. TlbInv'
  BY <1>2, <1>4 DEF TypeOK, TlbInv, CheckGeneration, Goto, Entries, tables
<1> QED BY <1>1, <1>3, <1>4, <1>5, <1>6, Zenon

(* cpu_switch_mm installs the empty tables. *)
LEMMA SetReservedTtbr0Step ==
    ASSUME IInv, NEW c \in Cpus, SetReservedTtbr0(c), UNCHANGED cnp
    PROVE  IInv'
<1> USE DEF IInv
<1>1. TypeOK'
  BY Zenon DEF TypeOK, SetReservedTtbr0, Goto, tables
<1>2. /\ Flushing' = Flushing /\ Current' = Current
      /\ \A m \in Mms : Id(m)' = Id(m)
  BY Frame, Zenon DEF TypeOK, SetReservedTtbr0, Goto, Holding
<1>3. LocalsInv'
  BY <1>2 DEF TypeOK, LocalsInv, SetReservedTtbr0, Goto, tables, Holding
<1>4. /\ IdsInv' /\ ReservedInv' /\ ActiveInv'
      /\ \A d \in Cpus : Claim(d)' = Claim(d)
      /\ \A d \in Cpus, m \in Mms : Claims(d, m)' = Claims(d, m)
  BY <1>2, Quiet, Zenon DEF SetReservedTtbr0, tables
<1>5. ClaimInv'
  BY <1>4 DEF TypeOK, LocalsInv, ClaimInv, SetReservedTtbr0, Goto, Entries
<1>6. TlbInv'
  BY <1>2, <1>4 DEF TypeOK, TlbInv, SetReservedTtbr0, Goto, Entries, tables
<1> QED BY <1>1, <1>3, <1>4, <1>5, <1>6, Zenon

(* What a TLB that need not be flushed holds under the present ASID of an  *)
(* address space belongs to that address space. *)
LEMMA EntryOwned ==
    ASSUME IInv, NEW c \in Cpus, NEW m \in Mms,
           Id(m).gen = Current, c \notin flush_pending, ~(Flushing /\ c < visit),
           NEW e \in tlb[c], e[2] = Id(m).idx
    PROVE  e[1] = m
<1> USE DEF IInv
<1>1. e[1] \in Mms
  BY DEF TypeOK, Entries
<1>2. Id(e[1]).idx = Id(m).idx /\ (Id(e[1]).gen = Current \/ Id(e[1]) = reserved[c])
  BY Zenon DEF TlbInv
<1>3. Id(e[1]) = Id(m)
  <2>1. CASE Id(e[1]).gen = Current
    BY <1>1, <1>2, <2>1, IdTypes, AsidEq, Zenon
  <2>2. CASE Id(e[1]) = reserved[c]
    BY <1>2, <2>2 DEF ReservedInv
  <2> QED BY <1>2, <2>1, <2>2, Zenon
<1>4. Id(m) # Zero
  BY IdTypes, Zenon DEF IdsInv
<1> QED BY <1>1, <1>3, <1>4, Zenon DEF IdsInv

(* The cmpxchg of the fast path: if the active ASID has not been taken     *)
(* away, no rollover has passed this CPU, and it may go on with the ASID   *)
(* it has read. *)
LEMMA CmpxchgStep ==
    ASSUME IInv, NEW c \in Cpus, Cmpxchg(c), UNCHANGED cnp
    PROVE  IInv'
<1> USE DEF IInv
<1>1. TypeOK'
  BY IdTypes, Zenon DEF TypeOK, Cmpxchg, Goto, SetAsid, tables
<1>2. /\ Flushing' = Flushing /\ Current' = Current
      /\ \A m \in Mms : Id(m)' = Id(m)
  BY Frame, Zenon DEF TypeOK, Cmpxchg, Goto, SetAsid, Holding
<1>3. LocalsInv'
  BY <1>2 DEF TypeOK, LocalsInv, Cmpxchg, Goto, SetAsid, tables, Holding
<1>4. IdsInv' /\ ReservedInv'
  BY <1>2 DEF IdsInv, ReservedInv, Cmpxchg, tables
<1>5. next[c] \in Mms
  BY Zenon DEF LocalsInv, Cmpxchg
<1>6. CASE active[c] # Zero
  <2>1. asid[c].gen = Current /\ asid[c] = id[next[c]]
    BY <1>6, Zenon DEF LocalsInv, Cmpxchg
  <2>2. ~Storing(next[c])
    <3> SUFFICES ASSUME Storing(next[c]) PROVE FALSE
      OBVIOUS
    <3>1. lock \in Cpus /\ ~Flushing
      BY Zenon DEF TypeOK, Storing, Flushing
    <3>2. id[next[c]].gen # generation
      BY <3>1, Zenon DEF Storing, LocalsInv
    <3> QED BY <2>1, <3>1, <3>2, Zenon DEF Current
  <2>3. asid[c] = Id(next[c]) /\ asid[c] # Zero
    BY <1>5, <2>1, <2>2, IdTypes, Zenon DEF Id, IdsInv
  <2>4. active' = [active EXCEPT ![c] = asid[c]] /\ pc' = [pc EXCEPT ![c] = "set_reserved"]
    BY <1>6, Zenon DEF Cmpxchg, Goto
  <2>5. c \notin flush_pending /\ ~(Flushing /\ c < visit)
    BY <1>6 DEF ActiveInv, TypeOK, Cpus
  <2>6. ActiveInv'
    BY <1>2, <1>5, <2>1, <2>3, <2>4, <2>5 DEF TypeOK, ActiveInv, Cmpxchg, tables
  <2>7. /\ Claim(c)' = asid[c]
        /\ \A d \in Cpus \ {c} : Claim(d)' = Claim(d)
    BY <2>3, <2>4, Zenon DEF TypeOK, Claim, Reservation, Cmpxchg, tables
  <2>8. ClaimInv'
    BY <1>2, <1>5, <2>1, <2>3, <2>4, <2>7 DEF TypeOK, LocalsInv, ClaimInv, Claims, Cmpxchg, Entries
  <2>9. \A e \in tlb[c] : e[2] = asid[c].idx => e[1] = next[c]
    BY <1>5, <2>1, <2>3, <2>5, EntryOwned, Zenon
  <2>10. TlbInv'
    BY <1>2, <2>4, <2>7, <2>9 DEF TypeOK, TlbInv, Cmpxchg, Entries, tables
  <2> QED BY <1>1, <1>3, <1>4, <2>6, <2>8, <2>10, Zenon
<1>7. CASE active[c] = Zero
  <2>1. /\ ActiveInv'
        /\ \A d \in Cpus : Claim(d)' = Claim(d)
        /\ \A d \in Cpus, m \in Mms : Claims(d, m)' = Claims(d, m)
    BY <1>2, <1>7, Quiet, Zenon DEF Cmpxchg, tables
  <2>2. ClaimInv'
    BY <1>7, <2>1 DEF TypeOK, LocalsInv, ClaimInv, Cmpxchg, Goto, Entries
  <2>3. TlbInv'
    BY <1>2, <1>7, <2>1 DEF TypeOK, TlbInv, Cmpxchg, Goto, Entries, tables
  <2> QED BY <1>1, <1>3, <1>4, <2>1, <2>2, <2>3, Zenon
<1> QED BY <1>6, <1>7, Zenon

(* cpu_do_switch_mm installs the tables of the address space under the     *)
(* ASID the CPU claims. *)
LEMMA DoSwitchMmStep ==
    ASSUME IInv, NEW c \in Cpus, DoSwitchMm(c), UNCHANGED cnp
    PROVE  IInv'
<1> USE DEF IInv
<1> DEFINE m == next[c]
           entry == <<m, id[m].idx>>
<1>1. m \in Mms /\ Claims(c, m)
  BY Zenon DEF LocalsInv, ClaimInv, DoSwitchMm
<1>2. entry \in Entries
  BY <1>1, IdTypes DEF Claims, IdsInv, Asids, Entries
<1>3. /\ ttbr' = [ttbr EXCEPT ![c] = entry]
      /\ tlb' = [tlb EXCEPT ![c] = @ \cup {entry}]
      /\ next' = [next EXCEPT ![c] = NoMm]
      /\ pc' = [pc EXCEPT ![c] = "run"] /\ pc[c] = "switch"
  BY Zenon DEF DoSwitchMm, Goto
<1>4. TypeOK'
  BY <1>2, <1>3 DEF TypeOK, DoSwitchMm, tables
<1>5. /\ Flushing' = Flushing /\ Current' = Current
      /\ \A n \in Mms : Id(n)' = Id(n)
  BY <1>3, Frame, Zenon DEF TypeOK, DoSwitchMm, Holding
<1>6. LocalsInv'
  BY <1>3, <1>5 DEF TypeOK, LocalsInv, DoSwitchMm, tables, Holding
<1>7. /\ IdsInv' /\ ReservedInv' /\ ActiveInv'
      /\ \A d \in Cpus : Claim(d)' = Claim(d)
      /\ \A d \in Cpus, n \in Mms : Claims(d, n)' = Claims(d, n)
  BY <1>5, Quiet, Zenon DEF DoSwitchMm, tables
<1>8. ClaimInv'
  <2>1. ttbr'[c] = entry /\ entry[1] = m /\ entry[2] = Claim(c).idx /\ pc'[c] = "run"
    BY <1>1, <1>3, Zenon DEF TypeOK, Claims
  <2>2. \A d \in Cpus \ {c} : ttbr'[d] = ttbr[d] /\ pc'[d] = pc[d] /\ next'[d] = next[d]
    BY <1>3, Zenon DEF TypeOK
  <2>3. \A d \in Cpus : (ttbr[d] # <<>> => ttbr[d][1] \in Mms) /\ (pc[d] # "run" => next[d] \in Mms)
    BY DEF TypeOK, LocalsInv, Entries
  <2> QED BY <1>1, <1>7, <2>1, <2>2, <2>3 DEF ClaimInv
<1>9. TlbInv'
  <2>1. \A e \in tlb[c] : e[2] = entry[2] => e[1] = m
    BY <1>1, <1>3 DEF TlbInv, Claims
  <2>2. Id(m).idx = entry[2] /\ (Id(m).gen = Current \/ Id(m) = reserved[c])
    BY <1>1, Zenon DEF Claims, Claim, Reservation, ActiveInv
  <2> QED BY <1>1, <1>3, <1>5, <1>7, <2>1, <2>2 DEF TypeOK, TlbInv, DoSwitchMm, Entries, tables
<1> QED BY <1>4, <1>6, <1>7, <1>8, <1>9, Zenon

-----------------------------------------------------------------------------
(* Under cpu_asid_lock                                                     *)

(* While the lock is free nothing is about to be stored. *)
LEMMA Unlocked ==
    ASSUME LocalsInv, lock = Nobody
    PROVE  /\ ~Flushing /\ Current = generation
           /\ \A m \in Mms : Id(m) = id[m]
           /\ \A d \in Cpus : pc[d] \notin Holding
<1>1. ~Flushing /\ \A m \in Mms : ~Storing(m)
  BY Zenon DEF Flushing, Storing
<1>2. \A d \in Cpus : d # Nobody
  BY EnoughAsids DEF Cpus, Nobody
<1> QED BY <1>1, <1>2, Zenon DEF Current, Id, LocalsInv

(* While the lock holder is about to store an ASID, its address space has  *)
(* that one. *)
LEMMA AboutToStore ==
    ASSUME NEW c \in Cpus, lock' = c, pc'[c] = "store_id", UNCHANGED <<id, next>>
    PROVE  /\ ~Flushing' /\ Current' = generation'
           /\ \A m \in Mms : Id(m)' = IF m = next[c] THEN asid'[c] ELSE id[m]
<1>1. c # Nobody
  BY EnoughAsids DEF Cpus, Nobody
<1>2. ~Flushing'
  BY Zenon DEF Flushing
<1> QED BY <1>1, <1>2, Zenon DEF Current, Id, Storing, Nobody

(* The ASID of the next address space is of this generation: no            *)
(* new one is needed. *)
LEMMA LockValidStep ==
    ASSUME IInv, NEW c \in Cpus, LockValid(c), UNCHANGED cnp
    PROVE  IInv'
<1> USE DEF IInv
<1>1. TypeOK'
  BY IdTypes, Zenon DEF TypeOK, LockValid, Acquire, Old, Goto, SetAsid, tables, LocalsInv, Holding
<1>2. /\ ~Flushing /\ Current = generation
      /\ \A m \in Mms : Id(m) = id[m]
      /\ \A d \in Cpus : pc[d] \notin Holding
  BY Unlocked, Zenon DEF LockValid, Acquire
<1>3. pc[c] = "lock" /\ pc' = [pc EXCEPT ![c] = "finish"] /\ lock' = c /\ c # Nobody
  BY EnoughAsids DEF LockValid, Acquire, Goto, Cpus, Nobody
<1>4. /\ Flushing' = Flushing /\ Current' = Current
      /\ \A m \in Mms : Id(m)' = Id(m)
  <2>1. ~Flushing' /\ \A m \in Mms : ~Storing(m)'
    BY <1>3, Zenon DEF TypeOK, Flushing, Storing
  <2>2. Flushing' = Flushing
    BY <1>2, <2>1, Zenon DEF Flushing
  <2> QED BY <1>2, <2>1, <2>2, Zenon DEF Current, Id, LockValid
<1>5. LocalsInv'
  BY <1>2, <1>3, <1>4, Zenon DEF TypeOK, LocalsInv, LockValid, Old, SetAsid, tables, Holding
<1>6. /\ IdsInv' /\ ReservedInv' /\ ActiveInv'
      /\ \A d \in Cpus : Claim(d)' = Claim(d)
      /\ \A d \in Cpus, m \in Mms : Claims(d, m)' = Claims(d, m)
  BY <1>4, Quiet, Zenon DEF LockValid, tables
<1>7. ClaimInv'
  BY <1>3, <1>6 DEF TypeOK, LocalsInv, ClaimInv, LockValid, Entries
<1>8. TlbInv'
  BY <1>3, <1>4, <1>6 DEF TypeOK, TlbInv, LockValid, Entries, tables
<1> QED BY <1>1, <1>5, <1>6, <1>7, <1>8, Zenon

(* A reserved ASID of the next address space moves to this generation, all *)
(* its copies with it. *)
LEMMA KeepReservedStep ==
    ASSUME IInv, NEW c \in Cpus, KeepReserved(c), UNCHANGED cnp
    PROVE  IInv'
<1> USE DEF IInv
<1> DEFINE n == next[c]
           old == id[n]
           new == [gen |-> generation, idx |-> old.idx]
<1>1. /\ ~Flushing /\ Current = generation
      /\ \A m \in Mms : Id(m) = id[m]
      /\ \A d \in Cpus : pc[d] \notin Holding
  BY Unlocked, Zenon DEF KeepReserved, NeedsAsid, Acquire
<1>2. /\ pc[c] = "lock" /\ pc' = [pc EXCEPT ![c] = "store_id"]
      /\ lock' = c /\ asid' = [asid EXCEPT ![c] = new]
      /\ old.gen # generation /\ old # Zero
      /\ \A d \in Cpus : reserved'[d] = IF reserved[d] = old THEN new ELSE reserved[d]
      /\ reserved' \in [Cpus -> {new} \cup {reserved[d] : d \in Cpus}]
      /\ UNCHANGED <<generation, id, active, ttbr, tlb, next, map, cur_idx, flush_pending, visit>>
  BY Zenon DEF KeepReserved, NeedsAsid, Acquire, Old, Goto, SetAsid, IsReserved, CheckUpdateReserved
<1>3. PICK r \in Cpus : reserved[r] = old
  BY Zenon DEF KeepReserved, Old, IsReserved
<1>4. n \in Mms
  BY <1>2, Zenon DEF LocalsInv
<1>5. old \in Asids /\ new \in Asids /\ new.gen = generation /\ new.idx = old.idx /\ Zero \in Asids
  BY <1>4, IdTypes, Zenon DEF TypeOK, Asids
<1>6. old.idx \in map /\ old.idx # 0 /\ new # Zero
  BY <1>1, <1>2, <1>3, <1>5, IdTypes DEF ReservedInv
<1>7. TypeOK'
  BY <1>2, <1>5, Zenon DEF TypeOK, Holding
<1>8. /\ ~Flushing' /\ Current' = generation
      /\ \A m \in Mms : Id(m)' = IF m = n THEN new ELSE Id(m)
  BY <1>1, <1>2, AboutToStore DEF TypeOK
<1>9. LocalsInv'
  BY <1>1, <1>2, <1>4, <1>5, <1>6, <1>8, SMTT(30) DEF TypeOK, LocalsInv, Holding
<1>10. \A m \in Mms \ {n} : Id(m) # new /\ (Id(m).gen = generation => Id(m).idx # old.idx)
  BY <1>1, <1>2, <1>3, <1>5 DEF ReservedInv
<1>11. IdsInv'
  <2>1. Current' # 0 /\ id' = id /\ map' = map /\ generation' = generation
    BY <1>1, <1>2, <1>8, Zenon DEF IdsInv
  <2>2. \A m \in Mms : id[m].gen <= generation /\ (id[m] # Zero => id[m].idx # 0)
    BY <1>1, Zenon DEF IdsInv
  <2>3. ASSUME NEW m \in Mms
        PROVE  /\ Id(m)'.gen <= generation
               /\ Id(m)' # Zero => Id(m)'.idx # 0
               /\ Id(m)'.gen = generation => Id(m)'.idx \in map
    <3>1. CASE m = n
      <4>1. Id(m)' = new
        BY <1>4, <1>8, <3>1, Zenon
      <4>2. generation <= generation
        BY DEF TypeOK
      <4> QED BY <1>5, <1>6, <4>1, <4>2, Zenon
    <3>2. CASE m # n
      BY <1>1, <1>8, <3>2, Zenon DEF IdsInv
    <3> QED BY <3>1, <3>2, Zenon
  <2>4. ASSUME NEW m \in Mms, NEW k \in Mms, m # k, Id(m)' = Id(k)'
        PROVE  Id(m)' = Zero
    <3>1. m # n /\ k # n
      BY <1>4, <1>8, <1>10, <2>4, Zenon
    <3> QED BY <1>8, <2>4, <3>1, Zenon DEF IdsInv
  <2> QED BY <1>8, <2>1, <2>2, <2>3, <2>4, Zenon DEF IdsInv
<1>12. ReservedInv'
  <2>1. \A d \in Cpus : /\ reserved'[d].gen <= generation
                        /\ reserved'[d].idx = reserved[d].idx
                        /\ reserved'[d] = Zero <=> reserved[d] = Zero
    BY <1>1, <1>2, <1>5, <1>6, SMTT(30) DEF ReservedInv, TypeOK
  <2>2. \A d, e \in Cpus : reserved'[d].idx = reserved'[e].idx => reserved'[d] = reserved'[e]
    BY <1>2, <2>1 DEF ReservedInv
  <2>3. ASSUME NEW d \in Cpus, NEW m \in Mms,
               Id(m)'.gen = generation, Id(m)'.idx = reserved'[d].idx
        PROVE  Id(m)' = reserved'[d]
    <3>1. CASE m = n
      <4>1. reserved[d].idx = reserved[r].idx
        BY <1>3, <1>4, <1>5, <1>8, <2>1, <2>3, <3>1, Zenon
      <4>2. reserved[d] = old
        BY <1>3, <4>1, Zenon DEF ReservedInv
      <4> QED BY <1>2, <1>4, <1>8, <3>1, <4>2, Zenon
    <3>2. CASE m # n
      <4>1. Id(m) = reserved[d]
        BY <1>1, <1>8, <2>1, <2>3, <3>2 DEF ReservedInv
      <4> QED BY <1>2, <1>8, <2>3, <3>2, <4>1, Zenon
    <3> QED BY <3>1, <3>2, Zenon
  <2> QED BY <1>1, <1>2, <1>8, <2>1, <2>2, <2>3 DEF ReservedInv
<1>13. \A d \in Cpus : active[d] # Zero => active[d].gen = generation
  BY <1>1, Zenon DEF ActiveInv
<1>14. ActiveInv'
  BY <1>1, <1>2, <1>8 DEF ActiveInv
<1>15. \A d \in Cpus, m \in Mms : Claims(d, m) =>
           Claims(d, m)' /\ Claim(d)'.idx = Claim(d).idx
  <2> SUFFICES ASSUME NEW d \in Cpus, NEW m \in Mms, Claims(d, m)
               PROVE  Claims(d, m)' /\ Claim(d)'.idx = Claim(d).idx
    OBVIOUS
  <2>1. CASE active[d] # Zero
    BY <1>1, <1>2, <1>8, <1>13, <2>1 DEF Claims, Claim, Reservation
  <2>2. CASE active[d] = Zero /\ reserved[d] = old
    <3>1. m = n
      BY <1>1, <1>2, <1>4, <2>2 DEF Claims, Claim, Reservation, IdsInv
    <3> QED BY <1>2, <1>4, <1>5, <1>6, <1>8, <2>2, <3>1, Zenon DEF Claims, Claim, Reservation
  <2>3. CASE active[d] = Zero /\ reserved[d] # old
    <3>1. m # n
      BY <1>1, <1>4, <2>3 DEF Claims, Claim, Reservation
    <3> QED BY <1>2, <1>8, <2>3, <3>1, Zenon DEF Claims, Claim, Reservation
  <2> QED BY <2>1, <2>2, <2>3, Zenon
<1>16. ClaimInv'
  BY <1>2, <1>15 DEF TypeOK, LocalsInv, ClaimInv, Entries
<1>17. TlbInv'
  <2>1. \A d \in Cpus : pc'[d] \in {"set_reserved", "switch"} =>
            pc[d] = pc'[d] /\ next[d] \in Mms /\ Claim(d)'.idx = Claim(d).idx
    BY <1>2, <1>15, Zenon DEF TypeOK, LocalsInv, ClaimInv
  <2>2. ASSUME NEW d \in Cpus, d \notin flush_pending, NEW e \in tlb[d]
        PROVE  Id(e[1])'.idx = e[2] /\ (Id(e[1])'.gen = generation \/ Id(e[1])' = reserved'[d])
    <3>1. e[1] \in Mms
      BY <2>2 DEF TypeOK, Entries
    <3>2. Id(e[1]).idx = e[2] /\ (Id(e[1]).gen = generation \/ Id(e[1]) = reserved[d])
      BY <1>1, <2>2, Zenon DEF TlbInv
    <3>3. CASE e[1] = n
      BY <1>1, <1>5, <1>8, <3>1, <3>2, <3>3, Zenon
    <3>4. CASE e[1] # n
      <4>1. Id(e[1]) = reserved[d] => reserved'[d] = reserved[d]
        BY <1>1, <1>2, <1>4, <3>1, <3>4 DEF IdsInv
      <4> QED BY <1>8, <3>1, <3>2, <3>4, <4>1, Zenon
    <3> QED BY <3>3, <3>4, Zenon
  <2>3. UNCHANGED <<ttbr, tlb, next, id, flush_pending>>
    BY <1>2, Zenon
  <2>4. ASSUME NEW d \in Cpus
        PROVE  /\ ttbr'[d] # <<>> => ttbr'[d] \in tlb'[d]
               /\ \A e, f \in tlb'[d] : e[2] = f[2] => e[1] = f[1]
    BY <2>3, Zenon DEF TlbInv
  <2>5. ASSUME NEW d \in Cpus, pc'[d] \in {"set_reserved", "switch"}, NEW e \in tlb'[d],
               e[2] = Claim(d)'.idx
        PROVE  e[1] = next'[d]
    <3>1. pc[d] \in {"set_reserved", "switch"} /\ e[2] = Claim(d).idx
      BY <2>1, <2>5
    <3>2. e \in tlb[d] /\ next'[d] = next[d]
      BY <2>3, <2>5
    <3> QED BY <3>1, <3>2, Zenon DEF TlbInv
  <2>6. ASSUME NEW d \in Cpus, d \notin flush_pending', NEW e \in tlb'[d]
        PROVE  id'[e[1]].idx = e[2]
    BY <2>3, <2>6, Zenon DEF TlbInv
  <2> HIDE DEF IInv
  <2> QED BY <1>8, <2>2, <2>3, <2>4, <2>5, <2>6, Zenon DEF TlbInv
<1> QED BY <1>7, <1>9, <1>11, <1>12, <1>14, <1>16, <1>17, Zenon

(* An index that is not in the map may be given to an address space whose  *)
(* last ASID is neither of this generation nor reserved: nobody claims the *)
(* last one, and no TLB holds entries of it that will not be flushed. *)
LEMMA NewAsid ==
    ASSUME IInv, NEW c \in Cpus, NEW i \in 1..(NumAsids - 1), i \notin map,
           NeedsAsid(c), ~IsReserved(Old(c)),
           map' = map \cup {i}, cur_idx' \in 1..(NumAsids - 1),
           SetAsid(c, [gen |-> generation, idx |-> i]), Goto(c, "store_id"),
           UNCHANGED <<cnp, generation, id, active, ttbr, tlb, next,
                       reserved, flush_pending, visit>>
    PROVE  IInv'
<1> USE DEF IInv
<1> DEFINE n == next[c]
           old == id[n]
           new == [gen |-> generation, idx |-> i]
<1>1. /\ ~Flushing /\ Current = generation
      /\ \A m \in Mms : Id(m) = id[m]
      /\ \A d \in Cpus : pc[d] \notin Holding
  BY Unlocked, Zenon DEF NeedsAsid, Acquire
<1>2. /\ pc[c] = "lock" /\ pc' = [pc EXCEPT ![c] = "store_id"]
      /\ lock' = c /\ asid' = [asid EXCEPT ![c] = new]
      /\ old.gen # generation
      /\ \A d \in Cpus : reserved[d] = old => old = Zero
  BY Zenon DEF NeedsAsid, Acquire, Old, Goto, SetAsid, IsReserved
<1>3. n \in Mms
  BY <1>2, Zenon DEF LocalsInv
<1>4. new \in Asids /\ new.gen = generation /\ new.idx = i /\ i # 0 /\ new # Zero
  BY EnoughAsids DEF TypeOK, Asids, Zero
<1>5. TypeOK'
  BY <1>2, <1>4, EnoughAsids DEF TypeOK, Holding
<1>6. /\ ~Flushing' /\ Current' = generation
      /\ \A m \in Mms : Id(m)' = IF m = n THEN new ELSE Id(m)
  BY <1>1, <1>2, AboutToStore DEF TypeOK
<1>7. LocalsInv'
  BY <1>1, <1>2, <1>3, <1>4, <1>6, Zenon DEF TypeOK, LocalsInv, Holding
<1>8. \A m \in Mms \ {n} : Id(m) # new
  BY <1>1, <1>4, Zenon DEF IdsInv
<1>9. IdsInv'
  BY <1>1, <1>2, <1>3, <1>4, <1>6, <1>8 DEF IdsInv, TypeOK
<1>10. ReservedInv'
  <2>1. \A d \in Cpus : reserved[d].idx # i
    BY <1>1, <1>4, IdTypes, Zenon DEF ReservedInv
  <2> QED BY <1>1, <1>3, <1>4, <1>6, <2>1 DEF ReservedInv
<1>11. \A d \in Cpus : active[d] # Zero => active[d].gen = generation
  BY <1>1, Zenon DEF ActiveInv
<1>12. ActiveInv'
  BY <1>1, <1>2, <1>6, Zenon DEF ActiveInv
<1>13. \A d \in Cpus : Claim(d)' = Claim(d)
  BY Zenon DEF Claim, Reservation
<1>14. \A d \in Cpus, m \in Mms : Claims(d, m) => Claims(d, m)'
  <2> SUFFICES ASSUME NEW d \in Cpus, NEW m \in Mms, Claims(d, m)
               PROVE  Claims(d, m)'
    OBVIOUS
  <2>1. m # n
    BY <1>1, <1>2, <1>11, Zenon DEF Claims, Claim, Reservation
  <2> QED BY <1>6, <1>13, <2>1, Zenon DEF Claims
<1>15. ClaimInv'
  BY <1>2, <1>13, <1>14 DEF TypeOK, LocalsInv, ClaimInv, Entries
<1>16. TlbInv'
  <2>1. ASSUME NEW d \in Cpus, d \notin flush_pending, NEW e \in tlb[d]
        PROVE  e[1] \in Mms \ {n}
    <3>1. e[1] \in Mms /\ e[2] # 0
      BY <2>1 DEF TypeOK, Entries
    <3>2. id[e[1]].idx = e[2] /\ (id[e[1]].gen = generation \/ id[e[1]] = reserved[d])
      BY <1>1, <2>1, <3>1 DEF TlbInv
    <3> QED BY <1>2, <3>1, <3>2, IdTypes, Zenon
  <2> QED BY <1>1, <1>2, <1>6, <1>13, <2>1 DEF TlbInv, TypeOK
<1> QED BY <1>5, <1>7, <1>9, <1>10, <1>12, <1>15, <1>16, Zenon

(* The old index is free in this generation. *)
LEMMA ReuseStep ==
    ASSUME IInv, NEW c \in Cpus, Reuse(c), UNCHANGED cnp
    PROVE  IInv'
<1>1. next[c] \in Mms
  BY Zenon DEF IInv, LocalsInv, Reuse, NeedsAsid, Acquire
<1>2. Old(c) \in Asids /\ Old(c).idx # 0
  BY <1>1, IdTypes, Zenon DEF IInv, IdsInv, Reuse, Reusable, Old
<1>3. Old(c).idx \in 1..(NumAsids - 1)
  BY <1>2, EnoughAsids DEF Asids
<1> QED BY <1>3, NewAsid, Zenon DEF Reuse, Reusable, IInv, TypeOK

(* The new ASID is stored in mm->context.id. *)
LEMMA StoreIdStep ==
    ASSUME IInv, NEW c \in Cpus, StoreId(c), UNCHANGED cnp
    PROVE  IInv'
<1> USE DEF IInv
<1> DEFINE n == next[c]
<1>1. /\ pc[c] = "store_id" /\ pc' = [pc EXCEPT ![c] = "finish"]
      /\ id' = [id EXCEPT ![n] = asid[c]]
      /\ UNCHANGED <<generation, active, lock, ttbr, tlb, next, asid, map, cur_idx,
                     reserved, flush_pending, visit>>
  BY Zenon DEF StoreId, Goto, tables
<1>2. /\ n \in Mms /\ lock = c /\ c # Nobody
      /\ asid[c].gen = generation /\ asid[c].idx # 0
      /\ id[n].gen # generation
  BY <1>1, EnoughAsids DEF LocalsInv, Holding, Cpus, Nobody
<1>3. TypeOK'
  BY <1>1, <1>2, Zenon DEF TypeOK, Holding
<1>4. /\ ~Flushing /\ ~Flushing' /\ Current = generation /\ Current' = generation
  BY <1>1, <1>2, Zenon DEF Flushing, Current, TypeOK
<1>5. /\ \A m \in Mms : Id(m)' = id'[m]
      /\ \A m \in Mms : Id(m) = id'[m]
      /\ \A m \in Mms \ {n} : id'[m] = id[m]
  BY <1>1, <1>2, Zenon DEF TypeOK, Id, Storing
<1>6. id'[n] = asid[c]
  BY <1>1, <1>2, Zenon DEF TypeOK
<1>7. LocalsInv'
  <2>1. \A d \in Cpus \ {c} : pc'[d] = pc[d] /\ pc[d] \notin {"flush_context", "store_id", "finish"}
    BY <1>1, <1>2, Zenon DEF TypeOK, LocalsInv, Holding
  <2>2. pc'[c] = "finish" /\ "finish" \in Holding
    BY <1>1, Zenon DEF TypeOK, Holding
  <2>3. \A d \in Cpus : pc[d] \in {"check", "cmpxchg"} =>
                            \/ asid[d].gen # generation \/ asid[d] # id[next[d]] \/ next[d] # n
    BY <1>2, Zenon
  <2>4. \A d \in Cpus : pc[d] \in {"check", "cmpxchg"} => next[d] \in Mms
    BY Zenon DEF LocalsInv
  <2>5. cnp => ttbr[c] = <<>>
    BY <1>1, Zenon DEF LocalsInv
  <2> QED BY <1>1, <1>2, <1>4, <1>5, <1>6, <2>1, <2>2, <2>3, <2>4, <2>5, SMTT(30) DEF LocalsInv
<1>8. IdsInv'
  BY <1>1, <1>4, <1>5 DEF IdsInv
<1>9. ReservedInv' /\ ActiveInv'
  BY <1>1, <1>4, <1>5 DEF ReservedInv, ActiveInv
<1>10. \A d \in Cpus : Claim(d)' = Claim(d)
  BY <1>1, Zenon DEF Claim, Reservation
<1>11. \A d \in Cpus, m \in Mms : Claims(d, m) => Claims(d, m)'
  BY <1>5, <1>10, Zenon DEF Claims
<1>12. ClaimInv'
  BY <1>1, <1>10, <1>11, SMTT(30) DEF TypeOK, LocalsInv, ClaimInv, Entries
<1>13. TlbInv'
  BY <1>1, <1>4, <1>5, <1>10 DEF TypeOK, TlbInv, Entries
<1> QED BY <1>3, <1>7, <1>8, <1>9, <1>12, <1>13, Zenon

(* The CPU flushes if it was asked to and becomes active with its ASID.    *)
(* What its TLB still holds under that ASID is of the same address space. *)
LEMMA FinishStep ==
    ASSUME IInv, NEW c \in Cpus, Finish(c), UNCHANGED cnp
    PROVE  IInv'
<1> USE DEF IInv
<1> DEFINE n == next[c]
<1>1. /\ pc[c] = "finish" /\ pc' = [pc EXCEPT ![c] = "set_reserved"]
      /\ flush_pending' = flush_pending \ {c} /\ lock' = Nobody
      /\ tlb' = [tlb EXCEPT ![c] =
                   IF c \in flush_pending THEN {ttbr[c]} \ {<<>>} ELSE tlb[c]]
      /\ active' = [active EXCEPT ![c] = asid[c]]
      /\ asid' = [asid EXCEPT ![c] = Zero]
      /\ UNCHANGED <<generation, id, ttbr, next, map, cur_idx, reserved, visit>>
  BY Zenon DEF Finish, Goto, SetAsid, LocalFlushTlbAll
<1>2. /\ n \in Mms /\ lock = c /\ c # Nobody
      /\ asid[c].gen = generation /\ asid[c] = id[n]
      /\ cnp => ttbr[c] = <<>>
      /\ \A d \in Cpus \ {c} : pc[d] \notin Holding
  BY <1>1, EnoughAsids DEF LocalsInv, Holding, Cpus, Nobody
<1>3. TypeOK'
  <2>1. tlb' \in [Cpus -> SUBSET Entries]
    BY <1>1, Zenon DEF TypeOK
  <2> QED BY <1>1, <2>1, IdTypes, Zenon DEF TypeOK
<1>4. /\ ~Flushing /\ ~Flushing' /\ Current = generation /\ Current' = generation
      /\ generation # 0
      /\ \A m \in Mms : Id(m) = id[m] /\ Id(m)' = id[m]
  BY <1>1, <1>2, Zenon DEF TypeOK, Flushing, Current, Id, Storing
<1>5. /\ pc'[c] = "set_reserved" /\ \A d \in Cpus \ {c} : pc'[d] = pc[d]
      /\ active'[c] = id[n] /\ \A d \in Cpus \ {c} : active'[d] = active[d]
      /\ asid'[c] = Zero /\ \A d \in Cpus \ {c} : asid'[d] = asid[d]
      /\ \A d \in Cpus \ {c} : tlb'[d] = tlb[d]
      /\ tlb'[c] = IF c \in flush_pending THEN {ttbr[c]} \ {<<>>} ELSE tlb[c]
  BY <1>1, <1>2, Zenon DEF TypeOK
<1>6. LocalsInv'
  <2>1. \A d \in Cpus : d # Nobody
    BY EnoughAsids DEF Cpus, Nobody
  <2>2. /\ "set_reserved" \notin Holding /\ "finish" \in Holding
        /\ "flush_context" \in Holding /\ "store_id" \in Holding
    BY Zenon DEF Holding
  <2> QED BY <1>1, <1>2, <1>4, <1>5, <2>1, <2>2 DEF LocalsInv
<1>7. IdsInv'
  BY <1>1, <1>4, Zenon DEF IdsInv
<1>8. ReservedInv'
  BY <1>1, <1>4 DEF ReservedInv
<1>9. ActiveInv'
  BY <1>1, <1>2, <1>4, <1>5 DEF ActiveInv
<1>10. /\ id[n] # Zero /\ Claim(c)' = id[n]
       /\ \A d \in Cpus \ {c} : Claim(d)' = Claim(d)
  BY <1>1, <1>2, <1>4, <1>5, IdTypes DEF Claim, Reservation
<1>11. /\ Claims(c, n)'
       /\ \A d \in Cpus \ {c}, m \in Mms : Claims(d, m) => Claims(d, m)'
  BY <1>1, <1>2, <1>4, <1>10, Zenon DEF Claims
<1>12. ClaimInv'
  <2>1. ASSUME NEW d \in Cpus \ {c}
        PROVE  IF pc'[d] \in {"set_reserved", "switch"} THEN Claims(d, next[d])'
               ELSE ttbr[d] # <<>> => Claims(d, ttbr[d][1])' /\ ttbr[d][2] = Claim(d)'.idx
    <3>1. pc'[d] = pc[d] /\ Claim(d)' = Claim(d)
      BY <1>5, <1>10, Zenon
    <3>2. /\ pc[d] \in {"set_reserved", "switch"} => next[d] \in Mms
          /\ ttbr[d] # <<>> => ttbr[d][1] \in Mms
      BY DEF TypeOK, LocalsInv, Entries
    <3>3. IF pc[d] \in {"set_reserved", "switch"} THEN Claims(d, next[d])
          ELSE ttbr[d] # <<>> => Claims(d, ttbr[d][1]) /\ ttbr[d][2] = Claim(d).idx
      BY Zenon DEF ClaimInv
    <3>4. \A m \in Mms : Claims(d, m) => Claims(d, m)'
      BY <1>11, Zenon
    <3>5. next'[d] = next[d] /\ ttbr'[d] = ttbr[d]
      BY <1>1, Zenon
    <3> QED BY <3>1, <3>2, <3>3, <3>4, <3>5, Zenon
  <2> QED BY <1>1, <1>5, <1>11, <2>1 DEF ClaimInv, Claims, Claim
<1>13. c \in flush_pending /\ ttbr[c] # <<>> =>
           /\ ttbr[c][1] \in Mms /\ id[ttbr[c][1]] = reserved[c]
           /\ reserved[c] # Zero /\ ttbr[c][2] = reserved[c].idx
  <2> SUFFICES ASSUME c \in flush_pending, ttbr[c] # <<>>
               PROVE  /\ ttbr[c][1] \in Mms /\ id[ttbr[c][1]] = reserved[c]
                      /\ reserved[c] # Zero /\ ttbr[c][2] = reserved[c].idx
    BY Zenon
  <2>1. ttbr[c][1] \in Mms
    BY Zenon DEF TypeOK, Entries
  <2>2. Claim(c) = reserved[c]
    BY Zenon DEF ActiveInv, Claim, Reservation
  <2>3. Claims(c, ttbr[c][1]) /\ ttbr[c][2] = Claim(c).idx
    BY <1>1, Zenon DEF ClaimInv
  <2> QED BY <1>4, <2>1, <2>2, <2>3, Zenon DEF Claims
<1>14. \A e \in tlb'[c] : e[2] = id[n].idx => e[1] = n
  <2>1. CASE c \in flush_pending
    <3>1. SUFFICES ASSUME ttbr[c] # <<>>, ttbr[c][2] = id[n].idx
                   PROVE  ttbr[c][1] = n
      <4>1. \A e \in tlb'[c] : e = ttbr[c] /\ e # <<>>
        BY <1>5, <2>1, Zenon
      <4> QED BY <4>1, Zenon
    <3>2. id[n] = reserved[c]
      <4>1. Id(n).gen = Current /\ Id(n).idx = reserved[c].idx => Id(n) = reserved[c]
        BY <1>2, Zenon DEF ReservedInv
      <4>2. reserved[c].idx = id[n].idx
        BY <1>13, <2>1, <3>1, Zenon
      <4> QED BY <1>2, <1>4, <4>1, <4>2, Zenon
    <3> QED BY <1>2, <1>4, <1>13, <2>1, <3>1, <3>2, Zenon DEF IdsInv
  <2>2. CASE c \notin flush_pending
    <3>1. tlb'[c] = tlb[c] /\ id[n].gen = Current /\ id[n] = Id(n)
      BY <1>2, <1>4, <1>5, <2>2, Zenon
    <3>2. ASSUME NEW e \in tlb[c], e[2] = id[n].idx
          PROVE  e[1] = n
      <4>1. Id(n).gen = Current /\ e[2] = Id(n).idx /\ ~(Flushing /\ c < visit)
        BY <1>4, <3>1, <3>2, Zenon
      <4> QED BY <1>2, <2>2, <4>1, EntryOwned, Zenon
    <3> QED BY <3>1, <3>2, Zenon
  <2> QED BY <2>1, <2>2, Zenon
<1>15. TlbInv'
  <2>1. /\ ttbr[c] # <<>> => ttbr[c] \in tlb'[c]
        /\ \A e, f \in tlb'[c] : e[2] = f[2] => e[1] = f[1]
    BY <1>5 DEF TlbInv
  <2>2. \A e \in tlb'[c] : /\ id[e[1]].idx = e[2] /\ Id(e[1])'.idx = e[2]
                           /\ Id(e[1])'.gen = generation \/ Id(e[1])' = reserved[c]
    <3>1. CASE c \in flush_pending
      BY <1>4, <1>5, <1>13, <3>1
    <3>2. CASE c \notin flush_pending
      <4>1. \A e \in tlb[c] : e[1] \in Mms
        BY DEF TypeOK, Entries
      <4> QED BY <1>4, <1>5, <3>2, <4>1 DEF TlbInv
    <3> QED BY <3>1, <3>2, Zenon
  <2>3. \A d \in Cpus : \A e \in tlb[d] : e[1] \in Mms
    BY DEF TypeOK, Entries
  <2> QED BY <1>1, <1>4, <1>5, <1>10, <1>14, <2>1, <2>2, <2>3, SMTT(30) DEF TlbInv
<1> QED BY <1>3, <1>6, <1>7, <1>8, <1>9, <1>12, <1>15, Zenon
=============================================================================
