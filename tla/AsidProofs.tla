----------------------------- MODULE AsidProofs -----------------------------
(***************************************************************************)
(* Proofs about Asid for any number of CPUs, address spaces, ASIDs (as     *)
(* many as asids_init asks for) and generations: no CPU translates with    *)
(* another address space's TLB entries, two CPUs never walk two address    *)
(* spaces under one ASID, and an invalidation reaches every entry.         *)
(* AsidSteps has the steps within a generation and those that hand a new   *)
(* ASID out; here are the search for an index, the rollover and the        *)
(* theorems.                                                               *)
(***************************************************************************)
EXTENDS AsidSteps, FiniteSetTheorems

-----------------------------------------------------------------------------
(* Allocation and rollover                                                 *)

(* A set of numbers that is not empty has a least element. *)
LEMMA SmallestNat ==
    ASSUME NEW S \in SUBSET Nat, S # {}
    PROVE  \E i \in S : \A j \in S : i <= j
<1> DEFINE R == OpToRel(<, Nat)
<1>1. IsWellFoundedOn(R, Nat)
  BY NatLessThanWellFounded, Zenon
<1>2. PICK i \in S : \A j \in S : ~(<<j, i>> \in R)
  BY <1>1, WFMin, Zenon
<1>3. \A j \in S : ~(j < i)
  BY <1>2, Zenon DEF OpToRel
<1> QED BY <1>3

(* find_next_zero_bit finds an index that is not in use, if there is one. *)
LEMMA NextZeroFree ==
    ASSUME NEW used, NEW from \in 1..(NumAsids - 1), NextZero(used, from) # NumAsids
    PROVE  NextZero(used, from) \in (1..(NumAsids - 1)) \ used
<1> DEFINE free == (from..(NumAsids - 1)) \ used
<1>1. free # {}
  BY Zenon DEF NextZero
<1>2. \E i \in free : \A j \in free : i <= j
  <2>1. free \in SUBSET Nat
    BY EnoughAsids
  <2> QED BY <1>1, <2>1, SmallestNat, Zenon
<1>3. NextZero(used, from) \in free
  BY <1>1, <1>2, Zenon DEF NextZero
<1> QED BY <1>3, EnoughAsids

(* A free index is found in this generation. *)
LEMMA AllocateStep ==
    ASSUME IInv, NEW c \in Cpus, Allocate(c), UNCHANGED cnp
    PROVE  IInv'
<1>1. NextZero(map, cur_idx) \in (1..(NumAsids - 1)) \ map
  BY NextZeroFree, Zenon DEF IInv, TypeOK, Allocate
<1> QED BY <1>1, NewAsid, Zenon DEF Allocate, Take

(* The generation advances and the map is cleared; the ASIDs of the CPUs   *)
(* are still those of the generation before. *)
LEMMA RolloverStep ==
    ASSUME IInv, NEW c \in Cpus, Rollover(c), UNCHANGED cnp
    PROVE  IInv'
<1> USE DEF IInv
<1>1. /\ ~Flushing /\ Current = generation
      /\ \A m \in Mms : Id(m) = id[m]
      /\ \A d \in Cpus : pc[d] \notin Holding
  BY Unlocked, Zenon DEF Rollover, NeedsAsid, Acquire
<1>2. /\ pc[c] = "lock" /\ pc' = [pc EXCEPT ![c] = "flush_context"]
      /\ lock' = c /\ c # Nobody
      /\ generation' = generation + 1 /\ map' = {} /\ visit' = 0
      /\ id[next[c]].gen # generation
      /\ \A d \in Cpus : reserved[d] = id[next[c]] => reserved[d] = Zero
      /\ UNCHANGED <<id, active, ttbr, tlb, next, asid, cur_idx, reserved, flush_pending>>
  BY EnoughAsids DEF Rollover, NeedsAsid, Acquire, Old, Goto, IsReserved, Cpus, Nobody
<1>3. TypeOK'
  BY <1>2, EnoughAsids DEF TypeOK, Holding, Cpus
<1>4. /\ Flushing' /\ Current' = Current
      /\ \A m \in Mms : Id(m)' = Id(m)
  <2>1. Flushing' /\ \A m \in Mms : ~Storing(m)'
    BY <1>2, Zenon DEF TypeOK, Flushing, Storing, Nobody
  <2>2. Current' = Current
    BY <1>1, <1>2, <2>1 DEF Current, TypeOK
  <2> QED BY <1>1, <1>2, <2>1, <2>2, Zenon DEF Id
<1>5. LocalsInv'
  BY <1>1, <1>2, <1>4 DEF TypeOK, LocalsInv, Holding
<1>6. IdsInv'
  BY <1>2, <1>4, Zenon DEF IdsInv
<1>7. ReservedInv'
  <2>1. (Flushing => map \subseteq {reserved[d].idx : d \in 0..(visit - 1)})'
    BY <1>2, Zenon
  <2>2. \A d \in Cpus : d >= visit' /\ ~(d < visit')
    BY <1>2 DEF Cpus
  <2> QED BY <1>2, <1>4, <2>1, <2>2 DEF ReservedInv
<1>8. ActiveInv'
  BY <1>2, <1>4 DEF ActiveInv, Cpus
<1>9. /\ \A d \in Cpus : Claim(d)' = Claim(d)
      /\ \A d \in Cpus, m \in Mms : Claims(d, m)' = Claims(d, m)
  BY <1>2, <1>4, Zenon DEF Claims, Claim, Reservation
<1>10. ClaimInv'
  BY <1>2, <1>9 DEF TypeOK, LocalsInv, ClaimInv, Entries
<1>11. TlbInv'
  BY <1>1, <1>2, <1>4, <1>9 DEF TypeOK, TlbInv, Entries
<1> QED BY <1>3, <1>5, <1>6, <1>7, <1>8, <1>10, <1>11, Zenon

(* There are more ASIDs than CPUs: some index is reserved for none. *)
LEMMA SomeFree ==
    ASSUME NEW r \in [Cpus -> Asids]
    PROVE  \E i \in 1..(NumAsids - 1) : \A d \in Cpus : r[d].idx # i
<1> DEFINE I == 1..(NumAsids - 1)
           f == [i \in I |-> CHOOSE d \in Cpus : r[d].idx = i]
<1>1. /\ IsFiniteSet(Cpus) /\ Cardinality(Cpus) = NumCpus
      /\ IsFiniteSet(I) /\ Cardinality(I) = NumAsids - 1
  BY FS_Interval, EnoughAsids DEF Cpus
<1>2. SUFFICES ASSUME \A i \in I : \E d \in Cpus : r[d].idx = i
               PROVE  FALSE
  OBVIOUS
<1>3. \A i \in I : f[i] \in Cpus /\ r[f[i]].idx = i
  BY <1>2, Zenon
<1>4. f \in [I -> Cpus]
  BY <1>3, Zenon
<1>5. Cardinality(Cpus) < Cardinality(I)
  BY <1>1, EnoughAsids, Zenon
<1> HIDE DEF f, I
<1>6. PICK x, y \in I : x # y /\ f[x] = f[y]
  BY <1>1, <1>4, <1>5, FS_PigeonHole, Zenon
<1> QED BY <1>3, <1>6, Zenon

(* What flush_context reserves for a CPU: the ASID of its claim. *)
LEMMA Kept ==
    ASSUME IInv, NEW c \in Cpus, FlushContext(c), UNCHANGED cnp
    PROVE  /\ Flushing /\ lock = c
           /\ reserved' \in [Cpus -> Asids] /\ active' \in [Cpus -> Asids]
           /\ active'[visit] = Zero
           /\ \A d \in Cpus \ {visit} : reserved'[d] = reserved[d] /\ active'[d] = active[d]
           /\ reserved'[visit] = Claim(visit)
           /\ \A d \in Cpus : Claim(d)' = Claim(d)
           /\ \A d \in Cpus :
                /\ reserved'[d].gen <= Current
                /\ reserved'[d] # Zero => reserved'[d].idx # 0
                /\ reserved'[d] # id[next[c]] \/ reserved'[d] = Zero
                /\ \A x \in Cpus : reserved'[d].idx = reserved'[x].idx => reserved'[d] = reserved'[x]
                /\ \A m \in Mms : Id(m).gen = Current /\ Id(m).idx = reserved'[d].idx => Id(m) = reserved'[d]
<1> USE DEF IInv
<1> DEFINE v == visit
           kept == Claim(v)
<1>1. /\ v \in Cpus /\ kept \in Asids
      /\ pc[c] = "flush_context"
      /\ active' = [active EXCEPT ![v] = Zero]
      /\ reserved' = [reserved EXCEPT ![v] = kept]
  BY IdTypes, Zenon DEF TypeOK, FlushContext, Claim
<1>2. Flushing /\ lock = c
  <2>1. lock = c /\ c # Nobody
    BY <1>1, EnoughAsids DEF LocalsInv, Holding, Cpus, Nobody
  <2> QED BY <1>1, <2>1, Zenon DEF Flushing
<1>3. /\ reserved' \in [Cpus -> Asids] /\ active' \in [Cpus -> Asids]
      /\ active'[v] = Zero /\ reserved'[v] = kept
      /\ \A d \in Cpus \ {v} : reserved'[d] = reserved[d] /\ active'[d] = active[d]
  BY <1>1, IdTypes, Zenon DEF TypeOK
<1>4. \A d \in Cpus : Claim(d)' = Claim(d)
  BY <1>1, <1>3, Zenon DEF Claim, Reservation
<1>5. /\ kept.gen <= Current
      /\ kept # Zero => kept.idx # 0
      /\ kept # id[next[c]] \/ kept = Zero
      /\ \A x \in Cpus : kept.idx = reserved[x].idx => kept = reserved[x]
      /\ \A m \in Mms : Id(m).gen = Current /\ Id(m).idx = kept.idx => Id(m) = kept
  <2>0. id[next[c]].gen # Current
    BY <1>1, Zenon DEF LocalsInv
  <2>1. CASE active[v] = Zero
    BY <1>1, <2>1 DEF Claim, Reservation, ReservedInv, LocalsInv
  <2>2. CASE active[v] # Zero
    <3>1. PICK m \in Mms : Id(m) = active[v] /\ Id(m).gen = Current
      BY <1>1, <2>2, Zenon DEF ActiveInv
    <3>2. kept = Id(m) /\ Id(m) \in Asids
      BY <2>2, <3>1, IdTypes, Zenon DEF Claim, Reservation
    <3>3. kept.gen <= Current /\ (kept # Zero => kept.idx # 0)
      BY <3>2, Zenon DEF IdsInv
    <3>4. \A x \in Cpus : kept.idx = reserved[x].idx => kept = reserved[x]
      BY <3>1, <3>2, Zenon DEF ReservedInv
    <3>5. \A n \in Mms : Id(n).gen = Current /\ Id(n).idx = kept.idx => Id(n) = kept
      BY <3>1, <3>2, IdTypes, AsidEq, Zenon
    <3> QED BY <2>0, <3>1, <3>2, <3>3, <3>4, <3>5, Zenon
  <2> QED BY <2>1, <2>2, Zenon
<1>6. ASSUME NEW d \in Cpus
      PROVE  /\ reserved'[d].gen <= Current
             /\ reserved'[d] # Zero => reserved'[d].idx # 0
             /\ reserved'[d] # id[next[c]] \/ reserved'[d] = Zero
             /\ \A x \in Cpus : reserved'[d].idx = reserved'[x].idx => reserved'[d] = reserved'[x]
             /\ \A m \in Mms : Id(m).gen = Current /\ Id(m).idx = reserved'[d].idx => Id(m) = reserved'[d]
  BY <1>1, <1>3, <1>5 DEF ReservedInv, LocalsInv
<1> QED BY <1>2, <1>3, <1>4, <1>6, Zenon

(* flush_context visits a CPU that is not the last. *)
LEMMA FlushOneStep ==
    ASSUME IInv, NEW c \in Cpus, FlushContext(c), UNCHANGED cnp, visit + 1 < NumCpus
    PROVE  IInv'
<1> USE DEF IInv
<1>1. /\ map' = map \cup {reserved'[visit].idx} /\ visit' = visit + 1
      /\ UNCHANGED <<generation, id, lock, ttbr, tlb, next, cur_idx, flush_pending, pc, asid>>
  BY Kept, Zenon DEF FlushContext, Claim
<1>2. /\ Flushing' = Flushing /\ Current' = Current
      /\ \A m \in Mms : Id(m)' = Id(m)
  BY <1>1, Zenon DEF Flushing, Current, Id, Storing
<1>3. TypeOK'
  <2>1. visit' \in Cpus
    BY <1>1, EnoughAsids DEF TypeOK, Cpus
  <2>2. reserved'[visit] \in Asids
    BY Kept, Zenon DEF TypeOK
  <2>3. map' \subseteq 0..(NumAsids - 1)
    BY <1>1, <2>2, Zenon DEF TypeOK, Asids
  <2> QED BY <1>1, <2>1, <2>3, Kept, Zenon DEF TypeOK
<1>4. \A d \in Cpus : pc[d] = "flush_context" => d = c
  BY Kept DEF LocalsInv, Holding
<1>5. \A d \in Cpus : active'[d] # Zero => active'[d] = active[d] /\ d # visit
  BY Kept, Zenon
<1>6. LocalsInv'
  BY <1>1, <1>2, <1>4, <1>5, Kept DEF LocalsInv
<1>7. IdsInv'
  BY <1>1, <1>2, Kept DEF IdsInv
<1>8. \A d \in Cpus : d < visit' <=> d < visit \/ d = visit
  BY <1>1 DEF TypeOK, Cpus
<1>9. ReservedInv'
  <2>1. map' \subseteq {reserved'[d].idx : d \in 0..(visit' - 1)}
    <3>1. visit \in Nat /\ 0..(visit' - 1) \subseteq Cpus
      BY <1>1, <1>3, EnoughAsids DEF TypeOK, Cpus
    <3>2. \A d \in 0..(visit - 1) : d \in 0..(visit' - 1) /\ reserved'[d] = reserved[d]
      BY <1>1, <3>1, Kept
    <3>3. visit \in 0..(visit' - 1)
      BY <1>1, <3>1
    <3>4. map \subseteq {reserved[d].idx : d \in 0..(visit - 1)}
      BY Kept, Zenon DEF ReservedInv
    <3> QED BY <1>1, <3>2, <3>3, <3>4, Zenon
  <2>2. \A d \in Cpus : reserved'[d] # Zero /\ d < visit' => reserved'[d].idx \in map'
    BY <1>1, <1>8, Kept, Zenon DEF ReservedInv
  <2> QED BY <1>2, <2>1, <2>2, Kept DEF ReservedInv
<1>10. ActiveInv'
  <2>1. \A d \in Cpus : d >= visit /\ d # visit => d >= visit'
    BY <1>1 DEF TypeOK, Cpus
  <2> QED BY <1>1, <1>2, <1>5, <2>1, Kept DEF ActiveInv
<1>11. \A d \in Cpus, m \in Mms : Claims(d, m)' = Claims(d, m)
  BY <1>1, <1>2, Kept DEF Claims
<1>12. ClaimInv'
  <2>1. \A d \in Cpus : /\ pc[d] \in {"set_reserved", "switch"} => next[d] \in Mms
                        /\ ttbr[d] # <<>> => ttbr[d][1] \in Mms
    BY DEF TypeOK, LocalsInv, Entries
  <2>2. \A d \in Cpus : /\ pc'[d] = pc[d] /\ next'[d] = next[d] /\ ttbr'[d] = ttbr[d]
                        /\ Claim(d)' = Claim(d)
    BY <1>1, Kept, Zenon
  <2> QED BY <1>11, <2>1, <2>2, Zenon DEF ClaimInv
<1>13. TlbInv'
  BY <1>1, <1>2, <1>8, Kept DEF TypeOK, TlbInv, Entries
<1> QED BY <1>3, <1>6, <1>7, <1>9, <1>10, <1>12, <1>13, Zenon

(* flush_context visits the last CPU: all are asked to flush, and          *)
(* new_context takes an index that is reserved for none. *)
LEMMA FlushLastStep ==
    ASSUME IInv, NEW c \in Cpus, FlushContext(c), UNCHANGED cnp, ~(visit + 1 < NumCpus)
    PROVE  IInv'
<1> USE DEF IInv
<1> DEFINE n == next[c]
           used == map \cup {reserved'[visit].idx}
           i == NextZero(used, 1)
           new == [gen |-> generation, idx |-> i]
<1>1. /\ flush_pending' = Cpus /\ visit' = 0 /\ map' = used \cup {i} /\ cur_idx' = i
      /\ asid' = [asid EXCEPT ![c] = new]
      /\ pc[c] = "flush_context" /\ pc' = [pc EXCEPT ![c] = "store_id"]
      /\ UNCHANGED <<generation, id, lock, ttbr, tlb, next>>
  BY Kept, Zenon DEF FlushContext, Claim, Take, SetAsid, Goto, QueueFlush
<1>2. visit \in Cpus /\ \A d \in Cpus : d < visit \/ d = visit
  BY EnoughAsids DEF TypeOK, Cpus
<1>3. used \subseteq {reserved'[d].idx : d \in Cpus}
  <2>1. \A d \in 0..(visit - 1) : d \in Cpus /\ reserved'[d] = reserved[d]
    BY <1>2, Kept, EnoughAsids DEF Cpus
  <2>2. map \subseteq {reserved[d].idx : d \in 0..(visit - 1)}
    BY Kept, Zenon DEF ReservedInv
  <2> QED BY <1>2, <2>1, <2>2, Zenon
<1>4. i \in (1..(NumAsids - 1)) \ used
  <2>1. reserved' \in [Cpus -> Asids]
    BY Kept, Zenon
  <2>2. PICK j \in 1..(NumAsids - 1) : \A d \in Cpus : reserved'[d].idx # j
    BY <2>1, SomeFree, Zenon
  <2>3. j \in (1..(NumAsids - 1)) \ used
    BY <1>3, <2>2, Zenon
  <2> HIDE DEF used
  <2>4. \E k \in (1..(NumAsids - 1)) \ used : \A l \in (1..(NumAsids - 1)) \ used : k <= l
    <3>1. (1..(NumAsids - 1)) \ used \in SUBSET Nat
      BY EnoughAsids
    <3> QED BY <2>3, <3>1, SmallestNat, Zenon
  <2> QED BY <2>3, <2>4, Zenon DEF NextZero
<1>5. \A d \in Cpus : /\ reserved'[d] # Zero => reserved'[d].idx \in used
                      /\ reserved'[d].idx # i
  <2>1. \A d \in Cpus : reserved'[d] # Zero => reserved'[d].idx \in used
    BY <1>2, Kept, Zenon DEF ReservedInv
  <2> QED BY <1>4, <2>1, IdTypes
<1>6. \A d \in Cpus : active'[d] = Zero
  BY <1>2, Kept, EnoughAsids DEF ActiveInv, Cpus
<1> HIDE DEF i
<1>7. i \in 0..(NumAsids - 1) /\ i \in 1..(NumAsids - 1) /\ i # 0
  BY <1>4, EnoughAsids
<1>8. new \in Asids /\ new.gen = generation /\ new.idx = i /\ new # Zero
  BY <1>7, Zenon DEF TypeOK, Asids, Zero
<1>9. n \in Mms /\ id[n].gen # Current
  BY <1>1, Zenon DEF LocalsInv
<1>10. /\ Current = generation - 1
       /\ \A m \in Mms : Id(m) = id[m]
  BY Kept, EnoughAsids, Zenon DEF Current, Id, Storing, Flushing
<1>11. /\ ~Flushing' /\ Current' = generation /\ Current < generation /\ generation # 0
       /\ \A m \in Mms : Id(m)' = IF m = n THEN new ELSE Id(m)
  BY <1>1, <1>10, Kept, AboutToStore DEF TypeOK
<1>12. TypeOK'
  <2>1. reserved'[visit] \in Asids
    BY <1>2, Kept, Zenon
  <2>2. map' \subseteq 0..(NumAsids - 1)
    BY <1>1, <1>7, <2>1, Zenon DEF TypeOK, Asids
  <2>3. visit' \in Cpus
    BY <1>1, EnoughAsids DEF Cpus
  <2> QED BY <1>1, <1>7, <1>8, <2>2, <2>3, Kept, Zenon DEF TypeOK, Holding
<1>13. \A m \in Mms : id[m].gen <= generation /\ id[m].gen # generation
  <2>1. \A m \in Mms : id[m].gen \in Nat /\ id[m].gen <= Current
    BY IdTypes, Zenon DEF IdsInv, Asids
  <2>2. generation \in Nat
    BY Zenon DEF TypeOK
  <2> QED BY <1>10, <2>1, <2>2
<1>14. LocalsInv'
  <2>1. \A d \in Cpus : pc[d] \in Holding => d = c
    BY Kept DEF LocalsInv
  <2>2. \A d \in Cpus : pc[d] = "check" => asid[d].gen <= generation /\ asid[d].gen # generation
    <3>1. \A d \in Cpus : asid[d].gen \in Nat /\ generation \in Nat
      BY Zenon DEF TypeOK, Asids
    <3>2. \A d \in Cpus : pc[d] = "check" => asid[d].gen <= Current
      BY Zenon DEF LocalsInv
    <3> QED BY <1>10, <3>1, <3>2
  <2>3. \A d \in Cpus : pc'[d] = "check" => pc[d] = "check" /\ asid'[d] = asid[d]
    BY <1>1, Zenon DEF TypeOK
  <2>4. pc'[c] = "store_id" /\ asid'[c] = new
    BY <1>1, Zenon DEF TypeOK
  <2>5. \A d \in Cpus \ {c} : pc'[d] = pc[d] /\ pc[d] \notin Holding
    BY <1>1, <2>1, Zenon DEF TypeOK
  <2>6. lock = c /\ "store_id" \in Holding /\ (cnp => ttbr[c] = <<>>)
    BY <1>1, Kept, Zenon DEF LocalsInv, Holding
  <2>7. "flush_context" \in Holding /\ "store_id" \in Holding /\ "finish" \in Holding
    BY Zenon DEF Holding
  <2>8. ASSUME NEW d \in Cpus \ {c}
        PROVE  /\ pc'[d] \in Holding <=> lock' = d
               /\ pc'[d] # "run" => next'[d] \in Mms
               /\ pc'[d] = "check" => asid'[d].gen <= generation /\ asid'[d].gen # generation
               /\ pc'[d] \notin {"flush_context", "store_id", "finish"}
               /\ cnp' /\ pc'[d] # "run" => ttbr'[d] = <<>>
    BY <1>1, <2>2, <2>3, <2>5, <2>6, <2>7 DEF LocalsInv
  <2>9. i \in map' \ {0} /\ id[n].gen # generation
    BY <1>1, <1>7, <1>9, <1>13, Zenon
  <2>10. /\ c \in Cpus /\ next'[c] \in Mms /\ lock' = c /\ ttbr' = ttbr
         /\ asid'[c].gen = generation' /\ asid'[c].idx \in map' \ {0}
         /\ id'[next'[c]].gen # generation'
    BY <1>1, <1>8, <1>9, <2>4, <2>6, <2>9, Zenon
  <2> DEFINE Local(d) ==
        /\ pc[d] \in Holding <=> lock = d
        /\ pc[d] # "run" => next[d] \in Mms
        /\ pc[d] = "check" => /\ asid[d].gen <= Current
                              /\ asid[d].gen = Current => asid[d] = id[next[d]]
        /\ pc[d] = "cmpxchg" /\ active[d] # Zero => /\ asid[d].gen = Current
                                                    /\ asid[d] = id[next[d]]
        /\ pc[d] = "flush_context" => /\ id[next[d]].gen # Current
                                      /\ \A e \in Cpus : reserved[e] = id[next[d]] => reserved[e] = Zero
        /\ pc[d] = "store_id" => /\ asid[d].gen = generation /\ asid[d].idx \in map \ {0}
                                 /\ id[next[d]].gen # generation
        /\ pc[d] = "finish" => asid[d].gen = generation /\ asid[d] = id[next[d]]
        /\ cnp /\ pc[d] # "run" => ttbr[d] = <<>>
  <2>11. Local(c)'
    BY <2>4, <2>6, <2>10, Zenon
  <2>12. \A d \in Cpus \ {c} : Local(d)'
    BY <1>6, <1>11, <2>8, Zenon
  <2> HIDE DEF Local
  <2>13. \A d \in Cpus : Local(d)'
    BY <2>11, <2>12, Zenon
  <2> QED BY <2>13, Zenon DEF LocalsInv, Local
<1>15. IdsInv'
  <2>1. generation <= generation
    BY DEF TypeOK
  <2>2. i \in map'
    BY <1>1, Zenon
  <2> QED BY <1>1, <1>7, <1>8, <1>9, <1>10, <1>11, <1>13, <2>1, <2>2 DEF IdsInv
<1>16. ReservedInv'
  <2>1. \A d \in Cpus : reserved'[d].gen <= generation
    <3>1. \A d \in Cpus : reserved'[d].gen \in Nat /\ reserved'[d].gen <= Current
      BY Kept, Zenon DEF Asids
    <3>2. generation \in Nat
      BY Zenon DEF TypeOK
    <3> QED BY <1>10, <3>1, <3>2
  <2>2. \A m \in Mms : Id(m)'.gen = generation => Id(m)'.idx = i
    BY <1>8, <1>10, <1>11, <1>13, Zenon
  <2>3. used \subseteq map'
    BY <1>1, Zenon
  <2> QED BY <1>5, <1>11, <2>1, <2>2, <2>3, Kept, Zenon DEF ReservedInv
<1>17. ActiveInv'
  BY <1>6, Zenon DEF ActiveInv
<1>18. \A d \in Cpus, m \in Mms : Claims(d, m) => Claims(d, m)'
  <2> SUFFICES ASSUME NEW d \in Cpus, NEW m \in Mms, Claims(d, m)
               PROVE  Claims(d, m)'
    OBVIOUS
  <2>1. Claim(d) = reserved'[d]
    BY <1>6, Kept, Zenon DEF Claim, Reservation
  <2>2. m # n
    <3>1. Claim(d) # Zero /\ Claim(d) = id[m]
      BY <1>10, Zenon DEF Claims
    <3> QED BY <2>1, <3>1, Kept, Zenon
  <2> QED BY <1>1, <1>11, <2>2, Kept DEF Claims
<1>19. ClaimInv'
  <2>1. ASSUME NEW d \in Cpus
        PROVE  IF pc'[d] \in {"set_reserved", "switch"} THEN Claims(d, next[d])'
               ELSE ttbr'[d] # <<>> => Claims(d, ttbr[d][1])' /\ ttbr'[d][2] = Claim(d)'.idx
    <3>1. pc'[d] \in {"set_reserved", "switch"} <=> pc[d] \in {"set_reserved", "switch"}
      BY <1>1, Zenon DEF TypeOK
    <3>2. next'[d] = next[d] /\ ttbr'[d] = ttbr[d] /\ Claim(d)' = Claim(d)
      BY <1>1, Kept, Zenon
    <3>3. /\ pc[d] \in {"set_reserved", "switch"} => next[d] \in Mms
          /\ ttbr[d] # <<>> => ttbr[d][1] \in Mms
      BY DEF TypeOK, LocalsInv, Entries
    <3>4. IF pc[d] \in {"set_reserved", "switch"} THEN Claims(d, next[d])
          ELSE ttbr[d] # <<>> => Claims(d, ttbr[d][1]) /\ ttbr[d][2] = Claim(d).idx
      BY Zenon DEF ClaimInv
    <3>5. \A m \in Mms : Claims(d, m) => Claims(d, m)'
      BY <1>18, Zenon
    <3> QED BY <3>1, <3>2, <3>3, <3>4, <3>5, Zenon
  <2> QED BY <2>1, Zenon DEF ClaimInv
<1>20. TlbInv'
  BY <1>1, Kept, SMTT(30) DEF TypeOK, TlbInv, Entries
<1> QED BY <1>12, <1>14, <1>15, <1>16, <1>17, <1>19, <1>20, Zenon

-----------------------------------------------------------------------------
(* The invariant and the theorems                                          *)

(* When asids_init returns, no ASID is in use and every CPU runs with the  *)
(* reserved tables. *)
LEMMA InitIInv == Init => IInv
<1> SUFFICES ASSUME Init PROVE IInv
  OBVIOUS
<1>1. TypeOK
  BY EnoughAsids, IdTypes DEF Init, TypeOK, Zero, Asids, Cpus, Nobody, Entries
<1>2. /\ ~Flushing /\ Current = 1
      /\ \A m \in Mms : Id(m) = Zero /\ id[m] = Zero
      /\ \A c \in Cpus : Claim(c) = Zero
      /\ Zero.gen = 0 /\ Zero.idx = 0
  BY Zenon DEF Init, Flushing, Current, Id, Storing, Claim, Reservation, Zero
<1>3. LocalsInv
  BY EnoughAsids DEF Init, LocalsInv, Holding, Cpus, Nobody
<1>4. IdsInv /\ ReservedInv /\ ActiveInv
  BY <1>2 DEF Init, IdsInv, ReservedInv, ActiveInv
<1>5. ClaimInv /\ TlbInv
  BY <1>2, Zenon DEF Init, ClaimInv, TlbInv
<1> QED BY <1>1, <1>3, <1>4, <1>5, Zenon DEF IInv

(* Every step preserves the invariant: what the ASID allocator and the     *)
(* context switches of check_and_switch_context do on any CPU, in any      *)
(* order. *)
LEMMA NextIInv == IInv /\ [Next]_vars => IInv'
<1> SUFFICES ASSUME IInv, [Next]_vars PROVE IInv'
  OBVIOUS
<1>1. CASE UNCHANGED vars
  <2>1. UNCHANGED <<cnp, generation, id, active, lock, ttbr, tlb, pc, next, asid,
                    map, cur_idx, reserved, flush_pending, visit>>
    BY <1>1, Zenon DEF vars, locals, tables
  <2>2. /\ Flushing' = Flushing /\ Current' = Current
        /\ \A m \in Mms : Id(m)' = Id(m)
    BY <2>1, Zenon DEF Flushing, Current, Id, Storing
  <2>3. /\ IdsInv' /\ ReservedInv' /\ ActiveInv'
        /\ \A d \in Cpus : Claim(d)' = Claim(d)
        /\ \A d \in Cpus, m \in Mms : Claims(d, m)' = Claims(d, m)
    BY <2>1, <2>2, Quiet, Zenon DEF IInv
  <2>4. TypeOK'
    BY <2>1, Zenon DEF IInv, TypeOK
  <2>5. LocalsInv'
    BY <2>1, <2>2, Zenon DEF IInv, LocalsInv
  <2>6. ClaimInv'
    BY <2>1, <2>3 DEF IInv, TypeOK, LocalsInv, ClaimInv, Entries
  <2>7. TlbInv'
    BY <2>1, <2>2, <2>3 DEF IInv, TypeOK, TlbInv, Entries
  <2> QED BY <2>3, <2>4, <2>5, <2>6, <2>7, Zenon DEF IInv
<1>2. CASE Next
  <2>1. UNCHANGED cnp
    BY <1>2, Zenon DEF Next
  <2>2. PICK c \in Cpus : Step(c) \/ SwitchToInitMm(c) \/ \E m \in Mms : SwitchMm(c, m)
    BY <1>2, Zenon DEF Next
  <2>3. CASE SwitchToInitMm(c)
    BY <2>1, <2>3, SwitchToInitMmStep, Zenon
  <2>4. CASE \E m \in Mms : SwitchMm(c, m)
    BY <2>1, <2>4, SwitchMmStep, Zenon
  <2>5. CASE Step(c)
    <3>1. FlushContext(c) => IInv'
      BY <2>1, FlushOneStep, FlushLastStep, Zenon
    <3> QED BY <2>1, <2>5, <3>1, ReadIdStep, CheckGenerationStep, CmpxchgStep, LockValidStep,
               KeepReservedStep, ReuseStep, AllocateStep, RolloverStep, StoreIdStep,
               FinishStep, SetReservedTtbr0Step, DoSwitchMmStep DEF Step
  <2> QED BY <2>2, <2>3, <2>4, <2>5, Zenon
<1> QED BY <1>1, <1>2, Zenon

(* The inductive invariant holds in every reachable state of the           *)
(* allocator, for any number of CPUs, address spaces and rollovers; with   *)
(* TypeOK it says that new_context always finds a free index after a       *)
(* rollover. *)
THEOREM Invariance == Spec => []IInv
<1>1. Init => IInv
  BY InitIInv, Zenon
<1>2. IInv /\ [Next]_vars => IInv'
  BY NextIInv, Zenon
<1> QED BY <1>1, <1>2, PTL DEF Spec

(* A CPU never translates with the TLB entries of another address space,   *)
(* however rollovers and the lockless path of check_and_switch_context     *)
(* interleave. *)
THEOREM NoStale == Spec => []NoStaleTranslation
<1>1. IInv => NoStaleTranslation
  BY Zenon DEF IInv, TlbInv, NoStaleTranslation
<1> QED BY <1>1, Invariance, PTL

(* Two CPUs never walk different address spaces under one ASID. *)
THEOREM Distinct == Spec => []AsidsDistinct
<1>1. IInv => AsidsDistinct
  <2> SUFFICES ASSUME IInv, NEW c \in Cpus, NEW d \in Cpus,
                      Walks(c), Walks(d), ttbr[c][2] = ttbr[d][2]
               PROVE  ttbr[c][1] = ttbr[d][1]
    BY Zenon DEF AsidsDistinct
  <2> USE DEF IInv
  <2> DEFINE m == ttbr[c][1]
             n == ttbr[d][1]
  <2>1. ASSUME NEW x \in Cpus, Walks(x)
        PROVE  /\ ttbr[x][1] \in Mms /\ Claims(x, ttbr[x][1]) /\ ttbr[x][2] = Claim(x).idx
    <3>1. ttbr[x] # <<>> /\ pc[x] = "run"
      BY <2>1, Zenon DEF Walks, LocalsInv
    <3>2. ttbr[x][1] \in Mms
      BY <3>1, Zenon DEF TypeOK, Entries
    <3> QED BY <3>1, <3>2, Zenon DEF ClaimInv
  <2>2. /\ m \in Mms /\ n \in Mms /\ Id(m) # Zero
        /\ Claim(c) = Id(m) /\ Claim(d) = Id(n) /\ Id(m).idx = Id(n).idx
    BY <2>1, Zenon DEF Claims
  <2>3. \A x \in Cpus : \/ Claim(x) = reserved[x]
                        \/ \E y \in Mms : Claim(x) = Id(y) /\ Id(y).gen = Current
    BY Zenon DEF ActiveInv, Claim, Reservation
  <2>4. Id(m) = Id(n)
    <3>1. CASE Id(m).gen = Current /\ Id(n).gen = Current
      BY <2>2, <3>1, IdTypes, AsidEq, Zenon
    <3>2. CASE Claim(c) = reserved[c] /\ Claim(d) = reserved[d]
      BY <2>2, <3>2 DEF ReservedInv
    <3>3. CASE Id(m).gen = Current /\ Claim(d) = reserved[d]
      BY <2>2, <3>3 DEF ReservedInv
    <3>4. CASE Claim(c) = reserved[c] /\ Id(n).gen = Current
      BY <2>2, <3>4 DEF ReservedInv
    <3> QED BY <2>2, <2>3, <3>1, <3>2, <3>3, <3>4, Zenon
  <2> QED BY <2>2, <2>4, Zenon DEF IdsInv
<1> QED BY <1>1, Invariance, PTL

(* An invalidation by mm->context.id reaches every CPU that runs the       *)
(* address space and everything a CPU may still hold of it, unless the CPU *)
(* is to flush anyway. *)
THEOREM Reaches == Spec => []InvalidationReaches
<1>1. IInv => InvalidationReaches
  <2> SUFFICES ASSUME IInv PROVE InvalidationReaches
    OBVIOUS
  <2>1. ASSUME NEW c \in Cpus, Walks(c)
        PROVE  id[ttbr[c][1]].idx = ttbr[c][2]
    <3>1. ttbr[c] # <<>> /\ pc[c] = "run"
      BY <2>1, Zenon DEF Walks, IInv, LocalsInv
    <3> QED BY <3>1, Zenon DEF IInv, ClaimInv, Claims
  <2> QED BY <2>1, Zenon DEF IInv, TlbInv, InvalidationReaches
<1> QED BY <1>1, Invariance, PTL
=============================================================================
