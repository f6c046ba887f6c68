----------------------------- MODULE SlabProofs -----------------------------
(***************************************************************************)
(* What the slab allocator promises, for any number of CPUs, slabs and     *)
(* objects to a slab: no object is handed out twice or lost, the lists     *)
(* and counters are right, and kmem_cache_close reports what is left. The  *)
(* invariant and the steps of allocation are in SlabSteps; here are the    *)
(* facts about finite sets they need, the steps of kmem_cache_free and of  *)
(* kmem_cache_close, and the theorems.                                     *)
(***************************************************************************)
EXTENDS SlabSteps, FiniteSetTheorems

(* A slab has s->objects objects.                                          *)
LEMMA SlabObjects ==
    ASSUME SlabConstants, NEW p \in Slabs
    PROVE  IsFiniteSet(Of(p)) /\ Cardinality(Of(p)) = Count
<1> DEFINE f == [x \in Objs |-> <<p, x>>]
<1>1. f \in Bijection(Objs, Of(p))
  <2>1. f \in [Objs -> Of(p)] /\ \A x, y \in Objs : f[x] = f[y] => x = y
    BY Zenon DEF Of
  <2>2. \A t \in Of(p) : \E x \in Objs : f[x] = t
    BY DEF Of
  <2> QED BY <2>1, <2>2, Zenon DEF Bijection, Injection, Surjection, IsInjective
<1>2. ExistsBijection(Objs, Of(p))
  BY <1>1, Zenon DEF ExistsBijection
<1> QED BY <1>2, FS_Bijection, Zenon DEF SlabConstants, Count

(* The subsets of a finite set S, as far as they are counted.              *)
LEMMA Subsets ==
    ASSUME NEW S, IsFiniteSet(S), NEW T \in SUBSET S
    PROVE  /\ IsFiniteSet(T) /\ Cardinality(T) \in Nat
           /\ Cardinality(T) = Cardinality(S) <=> T = S
           /\ Cardinality(T) = 0 <=> T = {}
           /\ \A x \in S \ T : Cardinality(T \cup {x}) = Cardinality(T) + 1
           /\ \A x \in T : Cardinality(T \ {x}) = Cardinality(T) - 1
           /\ \A U \in SUBSET S : T \cap U = {} =>
                Cardinality(T \cup U) = Cardinality(T) + Cardinality(U)
           /\ \A U \in SUBSET T : Cardinality(T \ U) = Cardinality(T) - Cardinality(U)
<1>1. ASSUME NEW U \in SUBSET S
      PROVE  IsFiniteSet(U) /\ Cardinality(U) \in Nat
  BY FS_Subset, FS_CardinalityType, Zenon
<1>2. Cardinality(T) = Cardinality(S) <=> T = S
  BY FS_Subset, Zenon
<1>3. Cardinality(T) = 0 <=> T = {}
  BY <1>1, FS_EmptySet, Zenon
<1>4. \A x \in S \ T : Cardinality(T \cup {x}) = Cardinality(T) + 1
  BY <1>1, FS_AddElement, Zenon
<1>5. \A x \in T : Cardinality(T \ {x}) = Cardinality(T) - 1
  BY <1>1, FS_RemoveElement, Zenon
<1>6. ASSUME NEW U \in SUBSET S, T \cap U = {}
      PROVE  Cardinality(T \cup U) = Cardinality(T) + Cardinality(U)
  <2>1. IsFiniteSet(U) /\ IsFiniteSet(T) /\ Cardinality(T) \in Nat /\ Cardinality(U) \in Nat
    BY <1>1, Zenon
  <2>2. Cardinality(T \cup U) = Cardinality(T) + Cardinality(U) - Cardinality(T \cap U)
    BY <2>1, FS_Union, Zenon
  <2>3. Cardinality(T \cap U) = 0
    BY <1>6, FS_EmptySet, Zenon
  <2> QED BY <2>1, <2>2, <2>3
<1>7. ASSUME NEW U \in SUBSET T
      PROVE  Cardinality(T \ U) = Cardinality(T) - Cardinality(U)
  <2>1. IsFiniteSet(T) /\ Cardinality(T) \in Nat /\ Cardinality(U) \in Nat
    BY <1>1, Zenon
  <2>2. Cardinality(T \ U) = Cardinality(T) - Cardinality(T \cap U)
    BY <2>1, FS_Difference, Zenon
  <2>3. T \cap U = U
    BY Zenon
  <2> QED BY <2>2, <2>3, Zenon
<1>8. IsFiniteSet(T) /\ Cardinality(T) \in Nat
  BY <1>1, Zenon
<1> QED BY <1>2, <1>3, <1>4, <1>5, <1>6, <1>7, <1>8, Zenon

(* The numbers of objects and of slabs are what the steps need.            *)
LEMMA Counts ==
    ASSUME SlabConstants
    PROVE  Constants
<1>1. Count \in Nat /\ Cardinality({}) = 0
  BY FS_CardinalityType, FS_EmptySet, Zenon DEF SlabConstants, Count
<1>2. ASSUME NEW p \in Slabs, NEW S \in SUBSET Of(p)
      PROVE  /\ Cardinality(S) \in Nat
             /\ Cardinality(S) = Count <=> S = Of(p)
             /\ \A o \in Of(p) \ S : Cardinality(S \cup {o}) = Cardinality(S) + 1
             /\ \A T \in SUBSET Of(p) :
                  S \cap T = {} => Cardinality(S \cup T) = Cardinality(S) + Cardinality(T)
  <2>1. IsFiniteSet(Of(p)) /\ Cardinality(Of(p)) = Count
    BY SlabObjects, Zenon
  <2> QED BY <2>1, Subsets
<1>3. ASSUME NEW I \in SUBSET Slabs
      PROVE  /\ Cardinality(I) \in Nat
             /\ Cardinality(I) = 0 <=> I = {}
             /\ \A p \in I : Cardinality(I \ {p}) = Cardinality(I) - 1
             /\ \A p \in Slabs \ I : Cardinality(I \cup {p}) = Cardinality(I) + 1
             /\ \A J \in SUBSET I : Cardinality(I \ J) = Cardinality(I) - Cardinality(J)
  BY Subsets DEF SlabConstants
<1> QED BY <1>1, <1>2, <1>3, Zenon DEF Constants, Counting

-----------------------------------------------------------------------------
(* slab_free                                                               *)
LEMMA SlabFreeStep ==
    ASSUME Constants, Core, NEW c \in Cpus, NEW o \in held, SlabFree(c, o)
    PROVE  Core'
<1>1. /\ Type /\ Conserved /\ Own(c) /\ Doing(c) /\ List /\ op[c].pc = "idle"
      /\ held' = held \ {o} /\ slab' = slab /\ node' = node /\ Partial' = Partial
  BY Zenon DEF Core, SlabFree, At, Partial
<1>2. /\ o \in Objects /\ SlabOf(o) \in Slabs /\ SlabOf(o) # None /\ o # None
      /\ Once(o) /\ Somewhere(o) /\ op[c].x = None
  BY <1>1, Zenon DEF Type, Objects, SlabOf, Constants, SlabConstants, Conserved, Doing
<1>3. CASE SlabOf(o) = cpu_slab[c].page
  <2>1. op' = op /\ cpu_slab' = [cpu_slab EXCEPT ![c].freelist = @ \cup {o}]
    BY <1>3, Zenon DEF SlabFree
  <2>2. /\ cpu_slab'[c].page = cpu_slab[c].page
        /\ cpu_slab'[c].freelist = cpu_slab[c].freelist \cup {o}
        /\ \A d \in Cpus : d # c => cpu_slab'[d] = cpu_slab[d]
        /\ cpu_slab' \in [Cpus -> CpuType]
    BY <1>1, <1>2, <2>1, Zenon DEF Type, CpuType
  <2>3. Type'
    BY <1>1, <2>1, <2>2, Zenon DEF Type
  <2>4. Conserved'
    <3>1. ASSUME NEW b \in Objects
          PROVE  Once(b)'
      BY <1>1, <1>2, <2>1, <2>2 DEF Conserved, Once
    <3>2. ASSUME NEW b \in Objects
          PROVE  Somewhere(b)'
      BY <1>1, <1>2, <2>1, <2>2, Zenon DEF Conserved, Somewhere
    <3> QED BY <3>1, <3>2, Zenon DEF Conserved
  <2>5. ASSUME NEW p \in Slabs
        PROVE  SlabOK(p)' /\ Placed(p)'
    <3>1. SlabOK(p) /\ Placed(p)
      BY Zenon DEF Core
    <3> QED BY <1>1, <2>1, <2>2, <3>1 DEF SlabOK, Placed, Busy, At
  <2>6. ASSUME NEW d \in Cpus
        PROVE  Own(d)' /\ Doing(d)' /\ InHand(d)' /\ Sole(d)'
    <3>1. Own(d) /\ Doing(d) /\ InHand(d) /\ Sole(d)
      BY Zenon DEF Core
    <3>2. o \in Of(SlabOf(o))
      BY <1>2, OfSlab, Zenon
    <3>3. Own(d)'
      BY <1>1, <1>2, <1>3, <2>2, <3>1, <3>2 DEF Own
    <3>4. Doing(d)'
      BY <1>1, <2>1, <2>2, <3>1, Zenon DEF Doing
    <3>5. InHand(d)' /\ Sole(d)'
      BY <1>1, <2>1, <3>1, Zenon DEF InHand, Sole
    <3> QED BY <3>3, <3>4, <3>5, Zenon
  <2>7. List'
    BY <1>1, Zenon DEF List
  <2> QED BY <2>3, <2>4, <2>5, <2>6, <2>7, Zenon DEF Core
<1>4. CASE SlabOf(o) # cpu_slab[c].page
  <2> DEFINE r == [Idle EXCEPT !.pc = "free", !.page = SlabOf(o), !.x = o]
  <2>1. cpu_slab' = cpu_slab /\ op' = [op EXCEPT ![c] = r]
    BY <1>4, Zenon DEF SlabFree, Become
  <2>2. /\ r \in OpType /\ r.pc = "free" /\ r.x = o /\ r.page = SlabOf(o) /\ ~r.discard
        /\ r.after = "idle"
    <3>1. Idle \in OpType
      BY DEF Idle, OpType, Pcs
    <3> QED BY <1>2, <3>1, Zenon DEF OpType, Idle, Pcs
  <2> HIDE DEF r
  <2>3. op'[c] = r /\ \A d \in Cpus : d # c => op'[d] = op[d]
    BY <1>1, <2>1, Zenon DEF Type
  <2>4. Type'
    BY <1>1, <2>1, <2>2, Zenon DEF Type
  <2>5. Conserved'
    <3>1. ASSUME NEW b \in Objects
          PROVE  Once(b)'
      BY <1>1, <1>2, <2>1, <2>2, <2>3 DEF Conserved, Once
    <3>2. ASSUME NEW b \in Objects
          PROVE  Somewhere(b)'
      <4>1. b # None
        BY Zenon DEF Constants, SlabConstants
      <4> QED BY <1>1, <1>2, <2>1, <2>2, <2>3, <4>1 DEF Conserved, Somewhere
    <3> QED BY <3>1, <3>2, Zenon DEF Conserved
  <2>6. ASSUME NEW p \in Slabs
        PROVE  SlabOK(p)' /\ Placed(p)'
    <3>1. SlabOK(p) /\ Placed(p)
      BY Zenon DEF Core
    <3>2. SlabOK(p)'
      BY <1>1, <2>1, <2>2, <2>3, <3>1, Zenon DEF SlabOK, Holding
    <3>3. Busy(p)' <=> Busy(p)
      BY <1>1, <2>2, <2>3, Zenon DEF Busy, At
    <3> QED BY <1>1, <3>1, <3>2, <3>3, Zenon DEF Placed
  <2>7. ASSUME NEW d \in Cpus
        PROVE  Own(d)' /\ Doing(d)' /\ InHand(d)' /\ Sole(d)'
    <3>1. Own(d) /\ Doing(d) /\ InHand(d) /\ Sole(d)
      BY Zenon DEF Core
    <3>2. Own(d)'
      BY <1>1, <2>1, <3>1, Zenon DEF Own
    <3>3. Doing(d)'
      BY <1>1, <1>2, <2>1, <2>2, <2>3, <3>1 DEF Doing
    <3>4. InHand(d)'
      BY <1>1, <2>2, <2>3, <3>1, Zenon DEF InHand, Holding
    <3>5. Sole(d)'
      BY <2>2, <2>3, <3>1, Zenon DEF Sole
    <3> QED BY <3>2, <3>3, <3>4, <3>5, Zenon
  <2>8. List'
    BY <1>1, Zenon DEF List
  <2> QED BY <2>4, <2>5, <2>6, <2>7, <2>8, Zenon DEF Core
<1> QED BY <1>3, <1>4, Zenon

(* __slab_free                                                             *)
LEMMA SlabFreeSlowStep ==
    ASSUME Constants, Core, NEW c \in Cpus, SlabFreeSlow(c)
    PROVE  Core'
<1>1. PICK p, o : p = op[c].page /\ o = op[c].x
  BY Zenon
<1> DEFINE free == slab[p].freelist \cup {o}
           left == slab[p].inuse - 1
           s == [slab[p] EXCEPT !.lock = c, !.freelist = free, !.inuse = left]
           r == [Idle EXCEPT !.pc = AfterFree(s, slab[p].freelist), !.page = p,
                             !.discard = ~s.frozen /\ s.inuse = 0]
<1>2. /\ Type /\ Conserved /\ Own(c) /\ Doing(c) /\ List /\ op[c].pc = "free"
      /\ UNCHANGED <<node, cpu_slab, held>> /\ slab[p].lock = None
  BY <1>1, Zenon DEF Core, SlabFreeSlow, At, Unlocked
<1>3. /\ o \in Objects /\ p = SlabOf(o) /\ p \in Slabs /\ slab[p] \in SlabType
      /\ Once(o) /\ Somewhere(o) /\ node.list_lock # c
  <2>1. o \in Objects /\ p = SlabOf(o) /\ node.list_lock # c
    BY <1>1, <1>2, Zenon DEF Doing, Type, OpType
  <2>2. SlabOf(o) \in Slabs
    BY <2>1, Zenon DEF Objects, SlabOf
  <2> QED BY <1>2, <2>1, <2>2, Zenon DEF Conserved, Type
<1>4. /\ SlabOK(p) /\ Placed(p) /\ slab[p].is /\ o \notin slab[p].freelist /\ o \in Of(p)
      /\ slab[p].freelist \subseteq Of(p)
      /\ slab[p].inuse = Count - Cardinality(slab[p].freelist)
  <2>1. o \in Of(p)
    BY <1>3, OfSlab, Zenon
  <2> QED BY <1>1, <1>3, <2>1, Zenon DEF Core, SlabOK, Once, Somewhere
<1>5. slab' = [slab EXCEPT ![p] = s] /\ op' = [op EXCEPT ![c] = r]
  BY <1>1, Zenon DEF SlabFreeSlow, Become
<1>6. /\ free \subseteq Of(p) /\ left = Count - Cardinality(free) /\ left \in Int
      /\ left = 0 <=> free = Of(p)
      /\ free # {}
  <2>1. free \subseteq Of(p) /\ free # {}
    BY <1>4, Zenon
  <2>2. /\ Cardinality(slab[p].freelist) \in Nat
        /\ Cardinality(free) \in Nat /\ Count \in Nat
        /\ Cardinality(free) = Count <=> free = Of(p)
    <3>1. Cardinality(slab[p].freelist) \in Nat
      BY <1>3, <1>4, FreeCount, Zenon
    <3> HIDE DEF free
    <3> QED BY <1>3, <2>1, <3>1, FreeCount, Zenon
  <2>3. Cardinality(free) = Cardinality(slab[p].freelist) + 1
    BY <1>3, <1>4, FreeCount
  <2>4. left = Count - Cardinality(free)
    BY <1>4, <2>2, <2>3
  <2> HIDE DEF left, free
  <2> QED BY <2>1, <2>2, <2>4
<1> HIDE DEF free, left
<1>7. /\ s \in SlabType /\ s.is /\ s.lock = c /\ s.freelist = free /\ s.inuse = left
      /\ s.frozen <=> slab[p].frozen
  <2>1. free \subseteq Objects
    BY <1>3, <1>6, OfSlab, Zenon
  <2> QED BY <1>3, <1>4, <1>6, <2>1, Zenon DEF SlabType
<1> HIDE DEF s
<1>8. \A d \in Cpus : op[d].pc \in Holding \cup {"discard"} => op[d].page # p /\ op[d].page \in Slabs
  BY <1>2, <1>4, Zenon DEF Core, InHand, Fits, Constants, SlabConstants, Holding
<1>9. ~slab[p].frozen => (p \in Partial <=> slab[p].freelist # {})
  <2>1. ~Busy(p)
    BY <1>2, <1>8, Zenon DEF Busy, At
  <2> QED BY <1>4, <2>1, Zenon DEF Placed
<1>10. slab[p].frozen => p \notin Partial
  BY <1>4, Zenon DEF Placed
<1> DEFINE pc == AfterFree(s, slab[p].freelist)
<1>11. /\ pc \in {"remove_partial", "add_partial_tail", "unlock"}
       /\ pc = "remove_partial" => ~s.frozen /\ left = 0 /\ slab[p].freelist # {}
       /\ pc = "add_partial_tail" => ~s.frozen /\ left # 0 /\ slab[p].freelist = {}
       /\ pc = "unlock" => s.frozen \/ (left = 0 <=> slab[p].freelist = {})
  BY <1>7, Zenon DEF AfterFree
<1>12. /\ r \in OpType /\ r.pc = pc /\ r.page = p /\ r.x = None /\ r.after = "idle"
       /\ r.discard <=> ~s.frozen /\ left = 0
  <2>1. Idle \in OpType
    BY DEF Idle, OpType, Pcs
  <2>2. pc \in Pcs
    BY <1>11, Zenon DEF Pcs, Holding
  <2> HIDE DEF pc
  <2>3. r = [Idle EXCEPT !.pc = pc, !.page = p, !.discard = ~s.frozen /\ s.inuse = 0]
    BY Zenon DEF pc
  <2> QED BY <1>3, <1>7, <2>1, <2>2, <2>3, Zenon DEF OpType, Idle
<1> HIDE DEF r, pc
<1>13. op'[c] = r /\ \A d \in Cpus : d # c => op'[d] = op[d]
  BY <1>2, <1>5, Zenon DEF Type
<1>14. slab'[p] = s /\ \A q \in Slabs : q # p => slab'[q] = slab[q]
  BY <1>2, <1>3, <1>5, Zenon DEF Type
<1>15. Partial' = Partial
  BY <1>2, Zenon DEF Partial
<1>16. Type'
  BY <1>2, <1>5, <1>7, <1>12, Zenon DEF Type
<1>17. Conserved'
  <2>1. ASSUME NEW b \in Objects
        PROVE  Once(b)' /\ Somewhere(b)'
    <3>1. SlabOf(b) \in Slabs /\ Once(b) /\ Somewhere(b) /\ b # None
      BY <1>2, Zenon DEF Objects, SlabOf, Conserved, Constants, SlabConstants
    <3>2. slab'[p].freelist = slab[p].freelist \cup {o} /\ slab'[p].is
      BY <1>7, <1>14, Zenon DEF free
    <3>3. op[c].x = o /\ op'[c].x = None /\ held' = held /\ cpu_slab' = cpu_slab /\ SlabOf(o) = p
      BY <1>1, <1>2, <1>3, <1>12, <1>13, Zenon
    <3>4. CASE b = o
      <4>1. \A d \in Cpus : op'[d].x # o /\ o \notin cpu_slab[d].freelist
        BY <1>13, <3>1, <3>3, <3>4, Zenon DEF Once
      <4>2. o \notin held
        BY <3>1, <3>3, <3>4, Zenon DEF Once
      <4> QED BY <3>2, <3>3, <3>4, <4>1, <4>2, Zenon DEF Once, Somewhere
    <3>5. CASE b # o
      <4>1. \A d \in Cpus : op'[d].x = b <=> op[d].x = b
        BY <1>13, <3>1, <3>3, <3>5, Zenon
      <4>2. b \in slab'[SlabOf(b)].freelist <=> b \in slab[SlabOf(b)].freelist
        BY <1>14, <3>1, <3>2, <3>5, Zenon
      <4>3. slab'[SlabOf(b)].is <=> slab[SlabOf(b)].is
        BY <1>4, <1>14, <3>1, <3>2, Zenon
      <4> QED BY <3>1, <3>3, <4>1, <4>2, <4>3, Zenon DEF Once, Somewhere
    <3> QED BY <3>4, <3>5, Zenon
  <2> QED BY <2>1, Zenon DEF Conserved
<1>18. ASSUME NEW q \in Slabs
       PROVE  SlabOK(q)' /\ Placed(q)'
  <2>1. SlabOK(q) /\ Placed(q)
    BY Zenon DEF Core
  <2>2. CASE q = p
    <3>1. r.pc \in Holding
      BY <1>11, <1>12, Zenon DEF Holding
    <3>2. SlabOK(p)'
      BY <1>2, <1>4, <1>6, <1>7, <1>12, <1>13, <1>14, <3>1 DEF SlabOK
    <3>3. Busy(p)'
      BY <1>7, <1>14, Zenon DEF Busy, Constants, SlabConstants
    <3>4. Placed(p)'
      BY <1>6, <1>7, <1>10, <1>14, <1>15, <3>3, Zenon DEF Placed
    <3> QED BY <2>2, <3>2, <3>4, Zenon
  <2>3. CASE q # p
    <3>1. SlabOK(q)'
      BY <1>2, <1>13, <1>14, <2>1, <2>3, Zenon DEF SlabOK, Holding
    <3>2. Busy(q)' <=> Busy(q)
      BY <1>2, <1>12, <1>13, <1>14, <2>3, Zenon DEF Busy, At
    <3> QED BY <1>14, <1>15, <2>1, <2>3, <3>1, <3>2, Zenon DEF Placed
  <2> QED BY <2>2, <2>3, Zenon
<1>19. ASSUME NEW d \in Cpus
       PROVE  Own(d)' /\ Doing(d)' /\ InHand(d)' /\ Sole(d)'
  <2>1. Own(d) /\ Doing(d) /\ InHand(d) /\ Sole(d)
    BY Zenon DEF Core
  <2>2. Own(d)'
    <3>1. cpu_slab[d].page # None => cpu_slab[d].page \in Slabs
      BY <1>2, Zenon DEF Type, CpuType
    <3> QED BY <1>2, <1>7, <1>14, <2>1, <3>1, Zenon DEF Own
  <2>3. Doing(d)'
    BY <1>2, <1>3, <1>11, <1>12, <1>13, <1>15, <2>1, Zenon DEF Doing
  <2>4. InHand(d)'
    <3>1. CASE d = c
      <4>1. r.pc \in Holding \cup {"discard"}
        BY <1>11, <1>12, Zenon DEF Holding
      <4>2. Fits(c, r, s, p \in Partial)
        BY <1>6, <1>7, <1>9, <1>11, <1>12, Zenon DEF Fits
      <4> QED BY <1>3, <1>12, <1>13, <1>14, <1>15, <3>1, <4>1, <4>2, Zenon DEF InHand
    <3>2. CASE d # c
      BY <1>8, <1>13, <1>14, <1>15, <3>2, OtherHand, Zenon
    <3> QED BY <3>1, <3>2, Zenon
  <2>5. Sole(d)'
    BY <1>11, <1>12, <1>13, <2>1, Zenon DEF Sole
  <2> QED BY <2>2, <2>3, <2>4, <2>5, Zenon
<1>20. List'
  <2>1. {q \in Slabs : slab'[q].is} = {q \in Slabs : slab[q].is}
    BY <1>4, <1>7, <1>14, Zenon
  <2> QED BY <1>2, <2>1, Zenon DEF List
<1> QED BY <1>16, <1>17, <1>18, <1>19, <1>20, Zenon DEF Core

-----------------------------------------------------------------------------
(* Closing, and the whole.                                                 *)

(* Nothing of the cache changes.                                           *)
LEMMA CoreSame ==
    ASSUME Core, slab' = slab, node' = node, cpu_slab' = cpu_slab, held' = held, op' = op
    PROVE  Core'
<1>1. Partial' = Partial
  BY Zenon DEF Partial
<1>2. Type'
  BY Zenon DEF Core, Type
<1>3. Conserved'
  BY DEF Core, Conserved, Once, Somewhere
<1>4. List'
  BY Zenon DEF Core, List
<1>5. ASSUME NEW p \in Slabs
      PROVE  SlabOK(p)' /\ Placed(p)'
  <2>1. SlabOK(p) /\ Placed(p)
    BY Zenon DEF Core
  <2>2. Busy(p)' <=> Busy(p)
    BY Zenon DEF Busy, At
  <2> QED BY <1>1, <2>1, <2>2, Zenon DEF SlabOK, Placed
<1>6. ASSUME NEW c \in Cpus
      PROVE  Own(c)' /\ Doing(c)' /\ InHand(c)' /\ Sole(c)'
  <2>1. Own(c) /\ Doing(c) /\ InHand(c) /\ Sole(c)
    BY Zenon DEF Core
  <2>2. Own(c)' /\ Doing(c)'
    BY <1>1, <2>1, Zenon DEF Own, Doing
  <2> QED BY <1>1, <2>1, <2>2, Zenon DEF InHand, Sole
<1> QED BY <1>2, <1>3, <1>4, <1>5, <1>6, Zenon DEF Core

(* A CPU does one step of an operation.                                    *)
LEMMA CpuStep ==
    ASSUME Constants, Core, NEW c \in Cpus,
           \/ SlabAlloc(c) \/ SlabAllocSlow(c) \/ Continue(c)
           \/ \E o \in held : SlabFree(c, o)
    PROVE  Core'
<1>1. CASE Continue(c)
  BY <1>1, LoadCpuSlabStep, GetPartialStep, ListLockStep, LockAndFreezeSlabStep, NoPartialStep,
     NewSlabStep, NoMemoryStep, SlabFreeSlowStep, RelistStep, SlabUnlockStep, DiscardSlabStep, Zenon
     DEF Continue
<1> QED BY <1>1, SlabAllocStep, SlabAllocSlowStep, SlabFreeStep, Zenon

(* No operation begins once the cache is being closed, and those under way *)
(* take no slab.                                                           *)
LEMMA CpuClosing ==
    ASSUME Core, Closing, close.phase # "closed", NEW c \in Cpus,
           \/ SlabAlloc(c) \/ SlabAllocSlow(c) \/ Continue(c)
           \/ \E o \in held : SlabFree(c, o)
    PROVE  Closing' /\ close' = close
<1>1. close' = close
  BY Zenon DEF SlabAlloc, SlabAllocSlow, SlabFree, Continue, LoadCpuSlab, GetPartial, ListLock,
         LockAndFreezeSlab, NoPartial, NewSlab, NoMemory, SlabFreeSlow, AddPartial,
         RemovePartial, SlabUnlock, DiscardSlab
<1>2. CASE close.phase = "open"
  BY <1>1, <1>2, Zenon DEF Closing
<1>3. CASE close.phase = "flush"
  <2>1. op[c].pc \in Holding \cup {"idle", "discard"} /\ op[c].after = "idle"
    BY <1>3, Zenon DEF Closing
  <2>2. AddPartial(c) \/ RemovePartial(c) \/ SlabUnlock(c) \/ DiscardSlab(c)
    BY <1>3, <2>1, Zenon DEF SlabAlloc, SlabAllocSlow, SlabFree, Continue, LoadCpuSlab, GetPartial, ListLock,
           LockAndFreezeSlab, NoPartial, NewSlab, NoMemory, SlabFreeSlow, At, Holding
  <2>3. op \in [Cpus -> OpType] /\ op[c] \in OpType
    BY Zenon DEF Core, Type
  <2>4. cpu_slab' = cpu_slab
    BY <2>2, Zenon DEF AddPartial, RemovePartial, SlabUnlock, DiscardSlab
  <2>5. /\ op'[c].pc \in Holding \cup {"idle", "discard"} /\ op'[c].after = "idle"
        /\ \A d \in Cpus : d # c => op'[d] = op[d]
    <3>1. CASE AddPartial(c) \/ RemovePartial(c)
      BY <2>1, <2>3, <3>1 DEF AddPartial, RemovePartial, Become, OpType, Holding
    <3>2. CASE SlabUnlock(c) \/ DiscardSlab(c)
      BY <2>1, <2>3, <3>2 DEF SlabUnlock, DiscardSlab, Become, OpType, Idle
    <3> QED BY <2>2, <3>1, <3>2, Zenon
  <2> QED BY <1>1, <1>3, <2>4, <2>5, Zenon DEF Closing
<1> QED BY <1>2, <1>3, Zenon DEF Closing

(* flush_cpu_slab: a CPU gives up its slab.                                *)
LEMMA FlushStep ==
    ASSUME Constants, Core, Closing, close.phase # "closed", NEW c \in Cpus, FlushCpuSlab(c)
    PROVE  Core' /\ Closing' /\ close'.phase = "flush"
<1>1. /\ close.phase = "flush" /\ c \in close.wait /\ op[c].pc = "idle" /\ node' = node /\ held' = held
      /\ close' = [close EXCEPT !.wait = @ \ {c}]
  BY Zenon DEF FlushCpuSlab, Closing, At
<1>2. /\ close'.phase = "flush" /\ close'.wait = close.wait \ {c}
      /\ close' \in [phase : {"open", "flush", "closed"}, wait : SUBSET Cpus, ret : {0, 1}]
  BY <1>1, Zenon DEF Closing
<1>3. CASE cpu_slab[c].page = None
  <2>1. slab' = slab /\ cpu_slab' = cpu_slab /\ op' = op
    BY <1>3, Zenon DEF FlushCpuSlab
  <2>2. Core'
    BY <1>1, <2>1, CoreSame, Zenon
  <2>3. Closing'
    BY <1>1, <1>2, <1>3, <2>1, Zenon DEF Closing
  <2> QED BY <1>2, <2>2, <2>3, Zenon
<1>4. CASE cpu_slab[c].page # None
  <2>1. PICK p : p = cpu_slab[c].page
    BY Zenon
  <2>2. slab[p].lock = None /\ Deactivate(c, [slab[p] EXCEPT !.lock = c], "idle")
    BY <1>4, <2>1, Zenon DEF FlushCpuSlab, Unlocked
  <2>3. Core'
    BY <1>1, <1>4, <2>1, <2>2, DeactivateStep, Zenon
  <2>4. op \in [Cpus -> OpType] /\ cpu_slab \in [Cpus -> CpuType]
    BY Zenon DEF Core, Type
  <2>5. /\ cpu_slab'[c].page = None
        /\ \A d \in Cpus : d # c => cpu_slab'[d] = cpu_slab[d] /\ op'[d] = op[d]
    BY <2>2, <2>4, Zenon DEF Deactivate, Become
  <2>6. op'[c].pc \in Holding /\ op'[c].after = "idle"
    <3>1. \A s : AfterUnfreeze(s) \in Holding
      BY Zenon DEF AfterUnfreeze, Holding
    <3> QED BY <2>2, <2>4, <3>1, Zenon DEF Deactivate, Become, Idle
  <2>7. Closing'
    BY <1>1, <1>2, <2>5, <2>6 DEF Closing
  <2> QED BY <1>2, <2>3, <2>7, Zenon
<1> QED BY <1>3, <1>4, Zenon

(* kmem_cache_close once every CPU is flushed: free_list discards what is  *)
(* empty, and what is left has an object that a caller still has.          *)
LEMMA CloseEndStep ==
    ASSUME Constants, Core, Closing, CloseEnd
    PROVE  /\ Conserved' /\ CloseExact' /\ close'.wait = {} /\ close'.phase = "closed"
           /\ \A c \in Cpus : op'[c].pc = "idle"
<1> DEFINE freed == {p \in Partial : slab[p].inuse = 0}
           I == {p \in Slabs : slab[p].is}
<1>1. /\ close.phase = "flush" /\ close.wait = {} /\ \A c \in Cpus : op[c].pc = "idle"
      /\ cpu_slab' = cpu_slab /\ held' = held /\ op' = op
      /\ Type /\ Conserved /\ List
  BY Zenon DEF CloseEnd, At, Core
<1>2. /\ close'.phase = "closed" /\ close'.wait = {}
      /\ close'.ret = IF node'.nr_slabs # 0 THEN 1 ELSE 0
  BY <1>1, Zenon DEF CloseEnd, Closing
<1>3. /\ slab' = [p \in Slabs |-> IF p \in freed THEN FreePage ELSE slab[p]]
      /\ node'.nr_slabs = node.nr_slabs - Cardinality(freed)
  <2>1. node \in NodeType
    BY <1>1, Zenon DEF List
  <2> QED BY <2>1, Zenon DEF CloseEnd, FreeList, NodeType
<1>4. \A c \in Cpus : cpu_slab[c].page = None /\ cpu_slab[c].freelist = {} /\ op[c].x = None
  BY <1>1, Zenon DEF Closing, Core, Own, Doing
<1>5. ASSUME NEW p \in Slabs
      PROVE  p \in freed <=> slab[p].is /\ slab[p].freelist = Of(p)
  <2>1. SlabOK(p) /\ Placed(p) /\ slab[p].freelist \subseteq Of(p) /\ Of(p) # {}
    BY OfSlab, Zenon DEF Core, SlabOK
  <2>2. ~slab[p].frozen
    BY <1>4, <2>1, Zenon DEF SlabOK, Constants, SlabConstants
  <2>3. slab[p].lock = None
    <3>1. slab[p].lock \in Cpus \cup {None}
      BY <1>1, Zenon DEF Type, SlabType
    <3> QED BY <1>1, <2>1, <3>1, Zenon DEF SlabOK, Holding
  <2>4. ~Busy(p)
    BY <1>1, <2>3, Zenon DEF Busy, At
  <2>5. slab[p].is => (slab[p].inuse = 0 <=> slab[p].freelist = Of(p))
    <3>1. /\ Cardinality(slab[p].freelist) \in Nat /\ Count \in Nat
          /\ Cardinality(slab[p].freelist) = Count <=> slab[p].freelist = Of(p)
      BY <2>1, FreeCount, Zenon
    <3> QED BY <2>1, <3>1 DEF SlabOK
  <2> QED BY <2>1, <2>2, <2>4, <2>5, Zenon DEF Placed
<1> HIDE DEF freed
<1>6. ASSUME NEW p \in Slabs
      PROVE  /\ slab'[p].is <=> slab[p].is /\ slab[p].freelist # Of(p)
             /\ slab'[p].freelist = IF slab[p].freelist = Of(p) THEN {} ELSE slab[p].freelist
  <2>1. ~slab[p].is => slab[p].freelist = {}
    <3>1. SlabOK(p)
      BY Zenon DEF Core
    <3>2. \A o \in Of(p) : o \in Objects /\ SlabOf(o) = p
      BY OfSlab, Zenon
    <3> QED BY <1>1, <3>1, <3>2, Zenon DEF SlabOK, Conserved, Somewhere
  <2> QED BY <1>3, <1>5, <2>1, Zenon DEF FreePage
<1>7. Conserved'
  <2>1. ASSUME NEW o \in Objects
        PROVE  Once(o)' /\ Somewhere(o)'
    <3>1. SlabOf(o) \in Slabs /\ Once(o) /\ Somewhere(o)
      BY <1>1, Zenon DEF Objects, SlabOf, Conserved
    <3>2. o \in Of(SlabOf(o))
      BY <3>1, OfSlab, Zenon
    <3> QED BY <1>1, <1>4, <1>6, <3>1, <3>2, Zenon DEF Once, Somewhere
  <2> QED BY <2>1, Zenon DEF Conserved
<1>8. node'.nr_slabs = Cardinality(I \ freed)
  <2>1. freed \subseteq I
    <3>1. Partial \subseteq Slabs
      BY <1>1 DEF List, NodeType, Partial
    <3> QED BY <1>5, <3>1, Zenon DEF freed
  <2>2. Cardinality(I \ freed) = Cardinality(I) - Cardinality(freed)
    BY <2>1, SlabCount, Zenon
  <2>3. node.nr_slabs = Cardinality(I)
    BY <1>1, Zenon DEF List
  <2> HIDE DEF I
  <2> QED BY <1>3, <2>2, <2>3, Zenon
<1>9. node'.nr_slabs = 0 <=> I \ freed = {}
  BY <1>8, SlabCount, Zenon
<1>10. I \ freed = {} <=> held = {}
  <2>1. ASSUME NEW p \in I \ freed
        PROVE  held # {}
    <3>1. p \in Slabs /\ slab[p].is /\ slab[p].freelist # Of(p)
      BY <1>5, Zenon
    <3>2. slab[p].freelist \subseteq Of(p)
      BY <3>1, Zenon DEF Core, SlabOK
    <3>3. PICK o \in Of(p) : o \notin slab[p].freelist
      BY <3>1, <3>2, Zenon
    <3>4. o \in Objects /\ SlabOf(o) = p
      BY <3>1, OfSlab, Zenon
    <3>5. Somewhere(o)
      BY <1>1, <3>4, Zenon DEF Conserved
    <3> QED BY <1>4, <3>1, <3>3, <3>4, <3>5, Zenon DEF Somewhere, Constants, SlabConstants
  <2>2. ASSUME NEW o \in held
        PROVE  SlabOf(o) \in I \ freed
    <3>1. o \in Objects /\ SlabOf(o) \in Slabs
      BY <1>1, Zenon DEF Type, Objects, SlabOf
    <3>2. o \in Of(SlabOf(o))
      BY <3>1, OfSlab, Zenon
    <3> QED BY <1>1, <1>5, <3>1, <3>2 DEF Conserved, Once, Somewhere
  <2> QED BY <2>1, <2>2, Zenon
<1>11. CloseExact'
  BY <1>1, <1>2, <1>9, <1>10 DEF CloseExact
<1> QED BY <1>1, <1>2, <1>7, <1>11, Zenon

(* The invariant holds from kmem_cache_open on.                            *)
LEMMA Invariant ==
    ASSUME Constants
    PROVE  Spec => []IInv
<1>1. Init => IInv
  <2> SUFFICES ASSUME Init
               PROVE  Core /\ Closing /\ close.phase # "closed"
    BY Zenon DEF IInv
  <2>1. /\ \A p \in Slabs : slab[p] = FreePage
        /\ \A c \in Cpus : op[c] = Idle
        /\ \A c \in Cpus : cpu_slab[c].page = None /\ cpu_slab[c].freelist = {}
        /\ held = {} /\ close.phase = "open"
    BY Zenon DEF Init
  <2>2. /\ node.partial = <<>> /\ node.list_lock = None /\ node.nr_partial = 0
        /\ node.nr_slabs = 0 /\ node \in NodeType
    BY DEF Init, NodeType
  <2>3. /\ ~FreePage.is /\ FreePage.lock = None /\ ~FreePage.frozen /\ FreePage.freelist = {}
        /\ FreePage \in SlabType
    BY DEF FreePage, SlabType
  <2>4. Idle.pc = "idle" /\ Idle.x = None /\ ~Idle.discard /\ Idle.after = "idle"
    BY Zenon DEF Idle
  <2>5. Type
    <3>1. Idle \in OpType
      BY DEF Idle, OpType, Pcs
    <3>2. [page |-> None, freelist |-> {}] \in CpuType
      BY Zenon DEF CpuType
    <3> QED BY <2>3, <3>1, <3>2, Zenon DEF Init, Type
  <2>6. Partial = {}
    BY <2>2 DEF Partial
  <2>7. Conserved
    <3>1. \A o \in Objects : SlabOf(o) \in Slabs /\ o # None
      BY Zenon DEF Objects, SlabOf, Constants, SlabConstants
    <3> QED BY <2>1, <2>3, <2>4, <3>1, Zenon DEF Conserved, Once, Somewhere
  <2>8. ASSUME NEW p \in Slabs
        PROVE  SlabOK(p) /\ Placed(p)
    <3>1. /\ ~slab[p].is /\ slab[p].lock = None /\ ~slab[p].frozen /\ slab[p].freelist = {}
      BY <2>1, <2>3, Zenon
    <3>2. \A c \in Cpus : cpu_slab[c].page # p /\ None # c
      BY <2>1, Zenon DEF Constants, SlabConstants
    <3> QED BY <2>6, <3>1, <3>2, Zenon DEF SlabOK, Placed
  <2>9. ASSUME NEW c \in Cpus
        PROVE  Own(c) /\ Doing(c) /\ InHand(c) /\ Sole(c)
    <3>1. op[c].pc = "idle" /\ op[c].x = None /\ ~op[c].discard /\ op[c].after = "idle"
      BY <2>1, <2>4, Zenon
    <3>2. Own(c)
      BY <2>1, Zenon DEF Own
    <3>3. c # None
      BY Zenon DEF Constants, SlabConstants
    <3>4. Doing(c)
      BY <2>2, <3>1, <3>3, Zenon DEF Doing
    <3> QED BY <3>1, <3>2, <3>4, Zenon DEF InHand, Sole, Holding
  <2>10. List
    <3>1. {p \in Slabs : slab[p].is} = {}
      BY <2>1, <2>3, Zenon
    <3>2. Cardinality({}) = 0
      BY Zenon DEF Constants, Counting
    <3>3. Len(<<>>) = 0 /\ Distinct(<<>>)
      BY DEF Distinct
    <3> QED BY <2>2, <3>1, <3>2, <3>3, Zenon DEF List
  <2>11. Closing
    BY Zenon DEF Init, Closing
  <2> QED BY <2>1, <2>5, <2>7, <2>8, <2>9, <2>10, <2>11, Zenon DEF Core
<1>2. IInv /\ [Next]_vars => IInv'
  <2> SUFFICES ASSUME IInv, [Next]_vars
               PROVE  IInv'
    BY Zenon
  <2>1. CASE UNCHANGED vars
    <3>1. /\ slab' = slab /\ node' = node /\ cpu_slab' = cpu_slab /\ held' = held /\ op' = op
          /\ close' = close
      BY <2>1, Zenon DEF vars
    <3>2. CASE close.phase = "closed"
      <4>1. Conserved'
        BY <3>1, <3>2 DEF IInv, Conserved, Once, Somewhere
      <4> QED BY <3>1, <3>2, <4>1, Zenon DEF IInv, CloseExact
    <3>3. CASE close.phase # "closed"
      <4>1. Core'
        BY <3>1, <3>3, CoreSame, Zenon DEF IInv
      <4>2. Closing'
        BY <3>1, <3>3, Zenon DEF IInv, Closing
      <4> QED BY <3>1, <3>3, <4>1, <4>2, Zenon DEF IInv
    <3> QED BY <3>2, <3>3, Zenon
  <2>2. CASE Next /\ close.phase = "closed"
    <3>1. /\ close.wait = {} /\ \A c \in Cpus : op[c].pc = "idle"
      BY <2>2, Zenon DEF IInv
    <3>2. Closed
      BY <2>2, <3>1, Zenon DEF Next, SlabAlloc, SlabAllocSlow, SlabFree, Continue, LoadCpuSlab, GetPartial,
             ListLock, LockAndFreezeSlab, NoPartial, NewSlab, NoMemory, SlabFreeSlow, AddPartial,
             RemovePartial, SlabUnlock, DiscardSlab, FlushCpuSlab, CloseBegin, CloseEnd, At
    <3> QED BY <2>1, <3>2, Zenon DEF Closed
  <2>3. CASE Next /\ close.phase # "closed"
    <3>1. Core /\ Closing
      BY <2>3, Zenon DEF IInv
    <3>2. ASSUME NEW c \in Cpus, \/ SlabAlloc(c) \/ SlabAllocSlow(c) \/ Continue(c)
                                 \/ \E o \in held : SlabFree(c, o)
          PROVE  IInv'
      <4>1. Core' /\ Closing' /\ close' = close
        BY <2>3, <3>1, <3>2, CpuStep, CpuClosing, Zenon
      <4> QED BY <2>3, <4>1, Zenon DEF IInv
    <3>3. ASSUME NEW c \in Cpus, FlushCpuSlab(c)
          PROVE  IInv'
      <4>1. Core' /\ Closing' /\ close'.phase = "flush"
        BY <2>3, <3>1, <3>3, FlushStep, Zenon
      <4> QED BY <4>1, Zenon DEF IInv
    <3>4. CASE CloseBegin
      <4>1. /\ slab' = slab /\ node' = node /\ cpu_slab' = cpu_slab /\ held' = held /\ op' = op
            /\ \A c \in Cpus : op[c].pc = "idle"
            /\ close' = [close EXCEPT !.phase = "flush", !.wait = Cpus]
        BY <3>4, Zenon DEF CloseBegin, At
      <4>2. Core'
        BY <3>1, <4>1, CoreSame, Zenon
      <4>3. \A c \in Cpus : op[c].after = "idle"
        BY <3>1, <4>1, Zenon DEF Core, Doing
      <4>4. Closing' /\ close'.phase = "flush"
        BY <3>1, <4>1, <4>3 DEF Closing
      <4> QED BY <4>2, <4>4, Zenon DEF IInv
    <3>5. CASE CloseEnd
      BY <3>1, <3>5, CloseEndStep, Zenon DEF IInv
    <3>6. CASE Closed
      BY <2>3, <3>6, Zenon DEF Closed
    <3> QED BY <2>3, <3>2, <3>3, <3>4, <3>5, <3>6, Zenon DEF Next
  <2> QED BY <2>1, <2>2, <2>3, Zenon
<1> QED BY <1>1, <1>2, PTL DEF Spec

-----------------------------------------------------------------------------
(* Every object of a slab is with a caller, on one free list or on its way *)
(* back, once, for any number of CPUs, slabs and objects to a slab: no     *)
(* object of a cache is handed out twice or lost.                          *)
THEOREM Conservation ==
    ASSUME SlabConstants
    PROVE  Spec => []ObjectsConserved
<1>1. IInv => ObjectsConserved
  <2> SUFFICES ASSUME Conserved, NEW o \in Objects
               PROVE  Cardinality(Places(o)) = IF slab[SlabOf(o)].is THEN 1 ELSE 0
    BY Zenon DEF IInv, Core, ObjectsConserved
  <2>1. Once(o) /\ Somewhere(o)
    BY Zenon DEF Conserved
  <2>2. CASE ~slab[SlabOf(o)].is
    <3>1. Places(o) = {}
      BY <2>1, <2>2, Zenon DEF Places, Somewhere
    <3> QED BY <2>2, <3>1, FS_EmptySet, Zenon
  <2>3. CASE slab[SlabOf(o)].is
    <3>1. \E w : Places(o) = {w}
      <4>1. CASE o \in slab[SlabOf(o)].freelist
        <5>1. Places(o) = {<<"slab", None>>}
          BY <2>1, <4>1, Zenon DEF Once, Places
        <5> QED BY <5>1, Zenon
      <4>2. CASE o \in held
        <5>1. Places(o) = {<<"caller", None>>}
          BY <2>1, <4>2, Zenon DEF Once, Places
        <5> QED BY <5>1, Zenon
      <4>3. ASSUME NEW c \in Cpus, o \in cpu_slab[c].freelist
            PROVE  Places(o) = {<<"list", c>>}
        <5>1. {d \in Cpus : o \in cpu_slab[d].freelist} = {c} /\ {d \in Cpus : op[d].x = o} = {}
          BY <2>1, <4>3, Zenon DEF Once
        <5>2. o \notin slab[SlabOf(o)].freelist /\ o \notin held
          BY <2>1, <4>3, Zenon DEF Once
        <5> QED BY <5>1, <5>2, Zenon DEF Places
      <4>4. ASSUME NEW c \in Cpus, op[c].x = o
            PROVE  Places(o) = {<<"free", c>>}
        <5>1. {d \in Cpus : o \in cpu_slab[d].freelist} = {} /\ {d \in Cpus : op[d].x = o} = {c}
          BY <2>1, <4>4, Zenon DEF Once
        <5>2. o \notin slab[SlabOf(o)].freelist /\ o \notin held
          BY <2>1, <4>4, Zenon DEF Once
        <5> QED BY <5>1, <5>2, Zenon DEF Places
      <4> QED BY <2>1, <2>3, <4>1, <4>2, <4>3, <4>4, Zenon DEF Somewhere
    <3> QED BY <2>3, <3>1, FS_Singleton, Zenon
  <2> QED BY <2>2, <2>3, Zenon
<1>2. Constants
  BY Counts, Zenon
<1> QED BY <1>1, <1>2, Invariant, PTL

(* kmem_cache_close reports slabs left over exactly when a caller still    *)
(* has an object, whichever CPU had which slab when it began.              *)
THEOREM CloseReports ==
    ASSUME SlabConstants
    PROVE  Spec => []CloseExact
<1>1. IInv => CloseExact
  BY Zenon DEF IInv, CloseExact
<1>2. Constants
  BY Counts, Zenon
<1> QED BY <1>1, <1>2, Invariant, PTL

(* Until the cache is closed, the partial list has each slab once that has *)
(* free objects and belongs to no CPU and that nobody is changing, frozen  *)
(* marks the slabs of CPUs, and the counters are right.                    *)
THEOREM ListsPlaced ==
    ASSUME SlabConstants
    PROVE  Spec => [](close.phase # "closed" => SlabsPlaced)
<1>1. IInv => (close.phase # "closed" => SlabsPlaced)
  <2> SUFFICES ASSUME Core
               PROVE  SlabsPlaced
    BY Zenon DEF IInv
  <2>1. /\ node.partial \in Seq(Slabs) /\ Distinct(node.partial) /\ node.nr_partial = Len(node.partial)
        /\ node.nr_slabs = Cardinality({p \in Slabs : slab[p].is})
    BY Zenon DEF Core, List, NodeType
  <2>2. Len(node.partial) = Cardinality(Partial)
    <3> DEFINE q == node.partial
    <3>1. q \in Bijection(1..Len(q), Partial)
      <4>1. DOMAIN q = 1..Len(q) /\ \A i \in 1..Len(q) : q[i] \in Partial
        BY <2>1 DEF Partial
      <4>2. q \in [1..Len(q) -> Partial]
        BY <2>1, <4>1
      <4>3. \A i, j \in 1..Len(q) : q[i] = q[j] => i = j
        BY <2>1, <4>1, Zenon DEF Distinct
      <4>4. \A x \in Partial : \E i \in 1..Len(q) : q[i] = x
        BY <4>1, Zenon DEF Partial
      <4> QED BY <4>1, <4>2, <4>3, <4>4, Zenon DEF Bijection, Injection, Surjection, IsInjective
    <3>2. ExistsBijection(1..Len(q), Partial)
      BY <3>1, Zenon DEF ExistsBijection
    <3>3. Len(q) \in Nat
      BY <2>1
    <3>4. IsFiniteSet(1..Len(q)) /\ Cardinality(1..Len(q)) = Len(q)
      BY <3>3, FS_Interval
    <3> QED BY <3>2, <3>4, FS_Bijection, Zenon
  <2>3. Partial \subseteq Slabs
    BY <2>1 DEF Partial
  <2>4. \A p \in Slabs : SlabOK(p) /\ Placed(p)
    BY Zenon DEF Core
  <2>5. \A c \in Cpus : At(c, "new_slab") => cpu_slab[c].page = None
    BY Zenon DEF Core, Doing, At
  <2>6. \A p \in Slabs : slab[p].is =>
          /\ slab[p].inuse = Count - Cardinality(slab[p].freelist)
          /\ slab[p].frozen <=> \E c \in Cpus : cpu_slab[c].page = p
    BY <2>4, Zenon DEF SlabOK
  <2>7. \A p \in Slabs : slab[p].is /\ ~Busy(p) =>
          (p \in Partial <=> ~slab[p].frozen /\ slab[p].freelist # {})
    BY <2>4, Zenon DEF Placed
  <2>8. \A p \in Partial : slab[p].is /\ ~slab[p].frozen
    BY <2>3, <2>4, Zenon DEF Placed
  <2> QED BY <2>1, <2>2, <2>5, <2>6, <2>7, <2>8, Zenon DEF SlabsPlaced
<1>2. Constants
  BY Counts, Zenon
<1> QED BY <1>1, <1>2, Invariant, PTL
=============================================================================
