----------------------------- MODULE SlabSteps ------------------------------
(***************************************************************************)
(* The inductive invariant IInv of Slab, and that the operations of slab.c *)
(* that allocate and that let go of a slab preserve it, for any number of  *)
(* CPUs, slabs and objects to a slab.  IInv says that an object is in one  *)
(* place and only if its slab exists (Conserved), that a slab is frozen    *)
(* exactly while it is some CPU's, and locked only by a CPU that is at a   *)
(* step between slab_lock and slab_unlock (SlabOK), what such a step       *)
(* relies on (Doing, InHand), that the partial list has every slab with    *)
(* free objects that belongs to no CPU and is in nobody's hands (Placed),  *)
(* and what kmem_cache_close has done so far (Closing).  The steps need    *)
(* only a few facts about the numbers of objects and slabs (Counting),     *)
(* which SlabProofs derives for finite sets.  Leaves that are pure         *)
(* first-order reasoning go to Zenon.                                      *)
(***************************************************************************)
EXTENDS Slab, TLAPS

(* No slab, CPU or object is NULL; a slab has room for an object.           *)
SlabConstants ==
    /\ IsFiniteSet(Slabs) /\ IsFiniteSet(Objs) /\ Objs # {}
    /\ None \notin Slabs /\ None \notin Cpus /\ None \notin Objects

(* What the operations need of the numbers of objects and of slabs.        *)
Counting ==
    /\ Count \in Nat /\ Cardinality({}) = 0
    /\ \A p \in Slabs : \A S \in SUBSET Of(p) :
         /\ Cardinality(S) \in Nat
         /\ Cardinality(S) = Count <=> S = Of(p)
         /\ \A o \in Of(p) \ S : Cardinality(S \cup {o}) = Cardinality(S) + 1
         /\ \A T \in SUBSET Of(p) :
              S \cap T = {} => Cardinality(S \cup T) = Cardinality(S) + Cardinality(T)
    /\ \A I \in SUBSET Slabs :
         /\ Cardinality(I) \in Nat
         /\ Cardinality(I) = 0 <=> I = {}
         /\ \A p \in I : Cardinality(I \ {p}) = Cardinality(I) - 1
         /\ \A p \in Slabs \ I : Cardinality(I \cup {p}) = Cardinality(I) + 1
         /\ \A J \in SUBSET I : Cardinality(I \ J) = Cardinality(I) - Cardinality(J)
Constants == SlabConstants /\ Counting

Holding == {"add_partial", "add_partial_tail", "remove_partial", "unlock"}
Pcs == Holding \cup {"idle", "load", "get_partial", "list_lock", "scan", "new_slab", "free", "discard"}

SlabType == [is : BOOLEAN, lock : Cpus \cup {None}, frozen : BOOLEAN, inuse : Int,
             freelist : SUBSET Objects]
NodeType == [partial : Seq(Slabs), nr_partial : Int, nr_slabs : Int, list_lock : Cpus \cup {None}]
CpuType == [page : Slabs \cup {None}, freelist : SUBSET Objects]
OpType == [pc : Pcs, page : Slabs \cup {None}, x : Objects \cup {None}, scan : Seq(Slabs),
           discard : BOOLEAN, after : {"idle", "get_partial"}]

Type == /\ slab \in [Slabs -> SlabType] /\ cpu_slab \in [Cpus -> CpuType]
        /\ held \in SUBSET Objects /\ op \in [Cpus -> OpType]

(* Every object is in one place if its slab exists, and else in none.      *)
Once(o) ==
    /\ o \in slab[SlabOf(o)].freelist =>
         o \notin held /\ \A c \in Cpus : o \notin cpu_slab[c].freelist /\ op[c].x # o
    /\ o \in held => \A c \in Cpus : o \notin cpu_slab[c].freelist /\ op[c].x # o
    /\ \A c, d \in Cpus : o \in cpu_slab[c].freelist =>
         op[d].x # o /\ (o \in cpu_slab[d].freelist => c = d)
    /\ \A c, d \in Cpus : op[c].x = o /\ op[d].x = o => c = d
Somewhere(o) ==
    slab[SlabOf(o)].is <=> \/ o \in slab[SlabOf(o)].freelist \/ o \in held
                           \/ \E c \in Cpus : o \in cpu_slab[c].freelist \/ op[c].x = o
Conserved == \A o \in Objects : Once(o) /\ Somewhere(o)

(* A slab by itself, and who has it.                                       *)
SlabOK(p) ==
    /\ slab[p].freelist \subseteq Of(p)
    /\ slab[p].is => slab[p].inuse = Count - Cardinality(slab[p].freelist)
    /\ ~slab[p].is => ~slab[p].frozen /\ slab[p].lock = None
    /\ slab[p].frozen <=> \E c \in Cpus : cpu_slab[c].page = p
    /\ \A c \in Cpus : slab[p].lock = c =>
         \/ op[c].pc \in Holding /\ op[c].page = p
         \/ op[c].pc = "load" /\ cpu_slab[c].page = p

(* The slab of a CPU is its own.                                           *)
Own(c) ==
    /\ cpu_slab[c].page = None => cpu_slab[c].freelist = {}
    /\ cpu_slab[c].page # None =>
         /\ cpu_slab[c].freelist \subseteq Of(cpu_slab[c].page)
         /\ slab[cpu_slab[c].page].is
         /\ \A d \in Cpus : cpu_slab[d].page = cpu_slab[c].page => d = c

(* What an operation that is under way relies on.                          *)
Doing(c) ==
    /\ op[c].pc = "load" => cpu_slab[c].page # None /\ cpu_slab[c].freelist = {}
    /\ op[c].pc \in {"get_partial", "list_lock", "scan", "new_slab"} => cpu_slab[c].page = None
    /\ op[c].after = "get_partial" => cpu_slab[c].page = None
    /\ op[c].pc = "idle" => op[c].after = "idle"
    /\ op[c].pc = "free" <=> op[c].x # None
    /\ op[c].pc = "free" => op[c].page = SlabOf(op[c].x)
    /\ op[c].pc = "scan" <=> node.list_lock = c
    /\ op[c].pc = "scan" => \A i \in DOMAIN op[c].scan : op[c].scan[i] \in Partial

(* What holds of the slab s that an operation r of c has in its hands, and *)
(* whether it is listed.                                                   *)
Fits(c, r, s, listed) ==
    /\ s.is /\ s.lock = IF r.pc = "discard" THEN None ELSE c
    /\ r.pc \in {"add_partial", "add_partial_tail"} =>
         ~s.frozen /\ s.freelist # {} /\ ~r.discard /\ ~listed
    /\ r.pc = "remove_partial" => r.discard /\ listed
    /\ r.pc = "unlock" => IF r.discard THEN ~listed ELSE s.frozen \/ s.freelist = {} \/ listed
    /\ r.pc = "discard" => r.discard /\ ~listed
    /\ r.discard => ~s.frozen /\ s.freelist = Of(r.page)
InHand(c) ==
    IF op[c].pc \in Holding \cup {"discard"}
    THEN op[c].page \in Slabs /\ Fits(c, op[c], slab[op[c].page], op[c].page \in Partial)
    ELSE ~op[c].discard
Sole(c) == op[c].pc = "discard" =>
    \A d \in Cpus : op[d].pc = "discard" /\ op[d].page = op[c].page => d = c

(* The partial list as a list, and what is on it.                          *)
Members(q) == {q[i] : i \in DOMAIN q}
Distinct(q) == \A i, j \in DOMAIN q : q[i] = q[j] => i = j
List == /\ node \in NodeType
        /\ node.nr_partial = Len(node.partial)
        /\ Distinct(node.partial)
        /\ node.nr_slabs = Cardinality({p \in Slabs : slab[p].is})
Placed(p) ==
    /\ p \in Partial => slab[p].is /\ ~slab[p].frozen /\ slab[p].freelist # {}
    /\ slab[p].is /\ ~Busy(p) /\ ~slab[p].frozen /\ slab[p].freelist # {} => p \in Partial

Core == /\ Type /\ Conserved
        /\ \A p \in Slabs : SlabOK(p) /\ Placed(p)
        /\ \A c \in Cpus : Own(c) /\ Doing(c) /\ InHand(c) /\ Sole(c)
        /\ List

(* kmem_cache_close: no operation begins, and a flushed CPU has no slab.   *)
Closing ==
    /\ close \in [phase : {"open", "flush", "closed"}, wait : SUBSET Cpus, ret : {0, 1}]
    /\ close.phase = "open" => close.wait = {}
    /\ close.phase = "flush" => \A c \in Cpus :
         /\ op[c].pc \in Holding \cup {"idle", "discard"} /\ op[c].after = "idle"
         /\ c \notin close.wait => cpu_slab[c].page = None

IInv == IF close.phase = "closed"
        THEN Conserved /\ CloseExact /\ close.wait = {} /\ \A c \in Cpus : op[c].pc = "idle"
        ELSE Core /\ Closing

-----------------------------------------------------------------------------
(* Counting objects, and lists of slabs.                                   *)

(* The objects of a slab.                                                  *)
LEMMA OfSlab ==
    ASSUME Constants, NEW p \in Slabs
    PROVE  /\ Of(p) # {}
           /\ Of(p) \subseteq Objects
           /\ \A o \in Objects : o \in Of(p) <=> SlabOf(o) = p
<1>1. Of(p) # {}
  <2>1. PICK x \in Objs : TRUE
    BY Zenon DEF Constants, SlabConstants
  <2>2. <<p, x>> \in Of(p)
    BY Zenon DEF Of
  <2> QED BY <2>2, Zenon
<1>2. Of(p) \subseteq Objects
  BY Zenon DEF Of, Objects
<1>3. \A o \in Objects : o \in Of(p) <=> SlabOf(o) = p
  <2> SUFFICES ASSUME NEW o \in Slabs \X Objs
               PROVE  o \in {p} \X Objs <=> o[1] = p
    BY Zenon DEF Of, Objects, SlabOf
  <2>1. o = <<o[1], o[2]>> /\ o[1] \in Slabs /\ o[2] \in Objs
    OBVIOUS
  <2>2. o[1] = p => <<o[1], o[2]>> \in {p} \X Objs
    BY <2>1, Zenon
  <2>3. o \in {p} \X Objs => o[1] = p
    BY Zenon
  <2> QED BY <2>1, <2>2, <2>3, Zenon
<1> QED BY <1>1, <1>2, <1>3, Zenon

(* A free list of a slab is as long as the slab has objects only if it has *)
(* all of them.                                                            *)
LEMMA FreeCount ==
    ASSUME Constants, NEW p \in Slabs, NEW S \in SUBSET Of(p)
    PROVE  /\ Cardinality(S) \in Nat /\ Count \in Nat
           /\ Cardinality(S) = Count <=> S = Of(p)
           /\ \A o \in Of(p) \ S : Cardinality(S \cup {o}) = Cardinality(S) + 1
BY Zenon DEF Constants, Counting

(* Free lists that are put together.                                       *)
LEMMA JoinCount ==
    ASSUME Constants, NEW p \in Slabs, NEW S \in SUBSET Of(p), NEW T \in SUBSET Of(p),
           S \cap T = {}
    PROVE  Cardinality(S \cup T) = Cardinality(S) + Cardinality(T)
BY DEF Constants, Counting

(* Slabs of the cache that come and go.                                    *)
LEMMA SlabCount ==
    ASSUME Constants, NEW I \in SUBSET Slabs
    PROVE  /\ Cardinality(I) \in Nat
           /\ Cardinality(I) = 0 <=> I = {}
           /\ \A p \in I : Cardinality(I \ {p}) = Cardinality(I) - 1
           /\ \A p \in Slabs \ I : Cardinality(I \cup {p}) = Cardinality(I) + 1
           /\ \A J \in SUBSET I : Cardinality(I \ J) = Cardinality(I) - Cardinality(J)
BY Zenon DEF Constants, Counting

(* add_partial and add_partial_tail: one member more.                      *)
WithNew(q, p) == {<<p>> \o q, Append(q, p)}
LEMMA Inserted ==
    ASSUME NEW S, NEW q \in Seq(S), NEW p \in S, p \notin Members(q), Distinct(q)
    PROVE  \A r \in WithNew(q, p) :
             /\ r \in Seq(S) /\ Len(r) = Len(q) + 1 /\ Distinct(r)
             /\ Members(r) = Members(q) \cup {p}
<1> SUFFICES ASSUME NEW r, r = <<p>> \o q \/ r = Append(q, p)
             PROVE  /\ r \in Seq(S) /\ Len(r) = Len(q) + 1 /\ Distinct(r)
                    /\ Members(r) = Members(q) \cup {p}
  BY Zenon DEF WithNew
<1>1. CASE r = <<p>> \o q
  <2>1. r \in Seq(S) /\ Len(r) = Len(q) + 1 /\ r[1] = p
    BY <1>1
  <2>2. \A i \in 1..Len(q) : r[i + 1] = q[i]
    BY <1>1
  <2>3. \A i \in DOMAIN r : i = 1 \/ (i - 1 \in DOMAIN q /\ r[i] = q[i - 1])
    <3> SUFFICES ASSUME NEW i \in 1..Len(r), i # 1
                 PROVE  i - 1 \in 1..Len(q) /\ r[i] = q[i - 1]
      BY <2>1
    <3>1. i - 1 \in 1..Len(q) /\ (i - 1) + 1 = i
      BY <2>1
    <3> QED BY <3>1, <2>2, Zenon
  <2>4. \A i \in DOMAIN q : i + 1 \in DOMAIN r /\ r[i + 1] = q[i]
    BY <2>1, <2>2
  <2>5. Members(r) = Members(q) \cup {p}
    <3>1. 1 \in DOMAIN r
      BY <2>1
    <3>2. p \in Members(r) /\ \A i \in DOMAIN q : q[i] \in Members(r)
      BY <2>1, <2>4, <3>1, Zenon DEF Members
    <3>3. \A i \in DOMAIN r : r[i] = p \/ r[i] \in Members(q)
      BY <2>1, <2>3, Zenon DEF Members
    <3>4. \A x : x \in Members(r) <=> x \in Members(q) \/ x = p
      BY <3>2, <3>3, Zenon DEF Members
    <3> QED BY <3>4, Zenon
  <2>6. Distinct(r)
    <3> SUFFICES ASSUME NEW i \in DOMAIN r, NEW j \in DOMAIN r, r[i] = r[j]
                 PROVE  i = j
      BY Zenon DEF Distinct
    <3>1. i \in Int /\ j \in Int
      BY <2>1
    <3>2. \A m \in DOMAIN q : q[m] # p
      BY Zenon DEF Members
    <3>3. i = 1 <=> j = 1
      BY <2>1, <2>3, <3>2, Zenon
    <3>4. CASE i # 1
      <4>1. i - 1 = j - 1
        BY <2>3, <3>3, <3>4, Zenon DEF Distinct
      <4> QED BY <4>1, <3>1
    <3> QED BY <3>3, <3>4, Zenon
  <2> QED BY <2>1, <2>5, <2>6, Zenon
<1>2. CASE r = Append(q, p)
  <2>1. r \in Seq(S) /\ Len(r) = Len(q) + 1 /\ r[Len(q) + 1] = p
    BY <1>2
  <2>2. \A i \in 1..Len(q) : i \in 1..Len(r) /\ r[i] = q[i]
    BY <1>2
  <2>3. \A i \in DOMAIN r : i = Len(q) + 1 \/ (i \in DOMAIN q /\ r[i] = q[i])
    BY <2>1, <2>2
  <2>4. DOMAIN r = 1..Len(r) /\ DOMAIN q = 1..Len(q) /\ Len(q) + 1 \in DOMAIN r
    BY <2>1
  <2>5. Members(r) = Members(q) \cup {p}
    BY <2>1, <2>2, <2>3, <2>4, Zenon DEF Members
  <2>6. Distinct(r)
    BY <2>1, <2>3, <2>4, Zenon DEF Members, Distinct
  <2> QED BY <2>1, <2>5, <2>6, Zenon
<1> QED BY <1>1, <1>2, Zenon

(* list_del: one member less.                                              *)
LEMMA Deleted ==
    ASSUME NEW S, NEW q \in Seq(S), NEW p \in Members(q), Distinct(q)
    PROVE  /\ Without(q, p) \in Seq(S) /\ Len(Without(q, p)) = Len(q) - 1
           /\ Distinct(Without(q, p)) /\ Members(Without(q, p)) = Members(q) \ {p}
<1> DEFINE k == CHOOSE i \in DOMAIN q : q[i] = p
           r == [i \in 1..(Len(q) - 1) |-> IF i < k THEN q[i] ELSE q[i + 1]]
<1>1. Without(q, p) = r
  BY Zenon DEF Without, Members
<1>2. k \in 1..Len(q) /\ q[k] = p /\ Len(q) \in Nat /\ DOMAIN q = 1..Len(q)
  BY DEF Members
<1> HIDE DEF k
<1>3. /\ Len(q) - 1 \in Nat
      /\ \A i \in 1..(Len(q) - 1) : r[i] \in S
  BY <1>2
<1>4. r \in Seq(S) /\ Len(r) = Len(q) - 1 /\ DOMAIN r = 1..(Len(q) - 1)
  BY <1>3
<1>5. \A i \in DOMAIN r : \/ i < k /\ r[i] = q[i] /\ i \in DOMAIN q
                          \/ i >= k /\ r[i] = q[i + 1] /\ i + 1 \in DOMAIN q
  BY <1>2, <1>4
<1>6. \A i \in DOMAIN q : i # k => \/ i < k /\ i \in DOMAIN r /\ r[i] = q[i]
                                   \/ i - 1 \in DOMAIN r /\ r[i - 1] = q[i]
  BY <1>2, <1>4
<1> HIDE DEF r
<1>7. Distinct(r)
  BY <1>2, <1>4, <1>5 DEF Distinct
<1>8. Members(r) = Members(q) \ {p}
  <2>1. \A i \in DOMAIN r : r[i] \in Members(q) /\ r[i] # p
    BY <1>2, <1>4, <1>5 DEF Distinct, Members
  <2>2. \A i \in DOMAIN q : q[i] # p => q[i] \in Members(r)
    BY <1>2, <1>6, Zenon DEF Members
  <2>3. \A x : x \in Members(r) <=> x \in Members(q) /\ x # p
    BY <2>1, <2>2, Zenon DEF Members
  <2> QED BY <2>3, Zenon
<1> QED BY <1>1, <1>4, <1>7, <1>8, Zenon

-----------------------------------------------------------------------------
(* The operations.                                                         *)

(* slab_alloc, from the list of the CPU                                    *)
LEMMA SlabAllocStep ==
    ASSUME Constants, Core, NEW c \in Cpus, SlabAlloc(c)
    PROVE  Core'
<1>1. PICK o \in cpu_slab[c].freelist :
        held' = held \cup {o} /\ cpu_slab' = [cpu_slab EXCEPT ![c].freelist = @ \ {o}]
  BY Zenon DEF SlabAlloc
<1>2. slab' = slab /\ node' = node /\ op' = op /\ op[c].pc = "idle"
  BY Zenon DEF SlabAlloc, At
<1>3. Type /\ Conserved /\ o \in Objects
  BY Zenon DEF Core, Type, CpuType
<1>4. /\ cpu_slab'[c].page = cpu_slab[c].page /\ cpu_slab'[c].freelist = cpu_slab[c].freelist \ {o}
      /\ \A d \in Cpus : d # c => cpu_slab'[d] = cpu_slab[d]
  BY <1>1, <1>3, Zenon DEF Type, CpuType
<1>5. Type'
  BY <1>1, <1>2, <1>3, Zenon DEF Type, CpuType
<1>6. Conserved'
  <2>1. ASSUME NEW b \in Objects
        PROVE  Once(b)'
    BY <1>1, <1>2, <1>3, <1>4 DEF Conserved, Once
  <2>2. ASSUME NEW b \in Objects
        PROVE  Somewhere(b)'
    BY <1>1, <1>2, <1>3, <1>4 DEF Conserved, Once, Somewhere
  <2> QED BY <2>1, <2>2, Zenon DEF Conserved
<1>7. ASSUME NEW p \in Slabs
      PROVE  SlabOK(p)' /\ Placed(p)'
  <2>1. SlabOK(p) /\ Placed(p)
    BY Zenon DEF Core
  <2> QED BY <1>2, <1>4, <2>1 DEF SlabOK, Placed, Busy, Partial, At
<1>8. ASSUME NEW d \in Cpus
      PROVE  Own(d)' /\ Doing(d)' /\ InHand(d)' /\ Sole(d)'
  <2>1. Own(d) /\ Doing(d) /\ InHand(d) /\ Sole(d)
    BY Zenon DEF Core
  <2>2. Own(d)'
    BY <1>2, <1>4, <2>1, Zenon DEF Own
  <2>3. Doing(d)'
    BY <1>2, <1>4, <2>1, Zenon DEF Doing, Partial
  <2>4. InHand(d)' /\ Sole(d)'
    BY <1>2, <2>1, Zenon DEF InHand, Sole, Partial
  <2> QED BY <2>2, <2>3, <2>4, Zenon
<1>9. List'
  BY <1>2, Zenon DEF Core, List
<1> QED BY <1>5, <1>6, <1>7, <1>8, <1>9, Zenon DEF Core

(* A step of the search for a slab: only the operation moves, and with it  *)
(* list_lock.                                                              *)
Searching == {"idle", "get_partial", "list_lock", "scan", "new_slab"}
LEMMA SearchStep ==
    ASSUME Core, NEW c \in Cpus, NEW r \in OpType,
           slab' = slab, cpu_slab' = cpu_slab, held' = held, op' = [op EXCEPT ![c] = r],
           node' \in NodeType, node'.partial = node.partial, node'.nr_partial = node.nr_partial,
           node'.nr_slabs = node.nr_slabs,
           \A d \in Cpus : d # c => (node'.list_lock = d <=> node.list_lock = d),
           op[c].pc \in Searching, r.pc \in Searching \cup {"load"}, r.x = None, ~r.discard,
           Doing(c)'
    PROVE  Core'
<1>1. Type /\ Conserved /\ Own(c) /\ Doing(c) /\ InHand(c)
  BY Zenon DEF Core
<1>2. op'[c] = r /\ \A d \in Cpus : d # c => op'[d] = op[d]
  BY <1>1, Zenon DEF Type
<1>3. op[c].x = None
  BY <1>1, Zenon DEF Doing, Searching
<1>4. Type'
  BY <1>1, Zenon DEF Type
<1>5. \A d \in Cpus : op'[d].x = op[d].x
  BY <1>2, <1>3, Zenon
<1>6. Conserved'
  BY <1>1, <1>5 DEF Conserved, Once, Somewhere
<1>7. Partial' = Partial
  BY Zenon DEF Partial
<1>8. ASSUME NEW p \in Slabs
      PROVE  SlabOK(p)' /\ Placed(p)'
  <2>1. SlabOK(p) /\ Placed(p)
    BY Zenon DEF Core
  <2>2. SlabOK(p)'
    BY <1>2, <2>1 DEF SlabOK, Searching, Holding
  <2>3. Busy(p)' <=> Busy(p)
    BY <1>2, Zenon DEF Busy, At, Searching
  <2> QED BY <1>7, <2>1, <2>2, <2>3, Zenon DEF Placed
<1>9. ASSUME NEW d \in Cpus
      PROVE  Own(d)' /\ Doing(d)' /\ InHand(d)' /\ Sole(d)'
  <2>1. Own(d) /\ Doing(d) /\ InHand(d) /\ Sole(d)
    BY Zenon DEF Core
  <2>2. Own(d)'
    BY <2>1, Zenon DEF Own
  <2>3. Doing(d)'
    BY <1>2, <1>7, <2>1 DEF Doing
  <2>4. InHand(d)'
    BY <1>2, <1>7, <2>1 DEF InHand, Searching, Holding
  <2>5. Sole(d)'
    BY <1>2, <2>1 DEF Sole, Searching
  <2> QED BY <2>2, <2>3, <2>4, <2>5, Zenon
<1>10. List'
  BY Zenon DEF Core, List
<1> QED BY <1>4, <1>6, <1>8, <1>9, <1>10, Zenon DEF Core

(* An operation that starts afresh at some position.                       *)
LEMMA Afresh ==
    ASSUME NEW pc \in Pcs
    PROVE  LET r == [Idle EXCEPT !.pc = pc]
           IN  /\ r \in OpType /\ r.pc = pc /\ r.x = None /\ ~r.discard /\ r.after = "idle"
               /\ r.page = None
<1>1. Idle \in OpType
  BY DEF Idle, OpType, Pcs
<1> QED BY <1>1, Zenon DEF Idle, OpType

(* __slab_alloc begins                                                     *)
LEMMA SlabAllocSlowStep ==
    ASSUME Constants, Core, NEW c \in Cpus, SlabAllocSlow(c)
    PROVE  Core'
<1> DEFINE r == [Idle EXCEPT !.pc = IF cpu_slab[c].page = None THEN "get_partial" ELSE "load"]
<1>1. Type /\ Own(c) /\ Doing(c) /\ List /\ op[c].pc = "idle" /\ cpu_slab[c].freelist = {}
  BY Zenon DEF Core, SlabAllocSlow, At
<1>2. /\ r \in OpType /\ r.pc \in {"get_partial", "load"} /\ r.x = None /\ ~r.discard
      /\ r.after = "idle"
  BY Afresh DEF Pcs
<1>3. r.pc = "load" <=> cpu_slab[c].page # None
  BY Zenon DEF Idle
<1> HIDE DEF r
<1>4. op' = [op EXCEPT ![c] = r] /\ UNCHANGED <<slab, node, cpu_slab, held>>
  BY Zenon DEF SlabAllocSlow, Become, r
<1>5. Doing(c)'
  BY <1>1, <1>2, <1>3, <1>4, Zenon DEF Doing, Type
<1>6. node \in NodeType
  BY <1>1, Zenon DEF List
<1> QED BY <1>1, <1>2, <1>4, <1>5, <1>6, SearchStep, Zenon DEF Searching

(* get_partial_node begins                                                 *)
LEMMA GetPartialStep ==
    ASSUME Constants, Core, NEW c \in Cpus, GetPartial(c)
    PROVE  Core'
<1> DEFINE r == [Idle EXCEPT !.pc = IF node.nr_partial = 0 THEN "new_slab" ELSE "list_lock"]
<1>1. Type /\ Own(c) /\ Doing(c) /\ List /\ op[c].pc = "get_partial"
  BY Zenon DEF Core, GetPartial, At
<1>2. /\ r \in OpType /\ r.pc \in {"new_slab", "list_lock"} /\ r.x = None /\ ~r.discard
      /\ r.after = "idle"
  BY Afresh DEF Pcs
<1> HIDE DEF r
<1>3. op' = [op EXCEPT ![c] = r] /\ UNCHANGED <<slab, node, cpu_slab, held>>
  BY Zenon DEF GetPartial, Become, r
<1>4. Doing(c)'
  BY <1>1, <1>2, <1>3, Zenon DEF Doing, Type
<1>5. node \in NodeType
  BY <1>1, Zenon DEF List
<1> QED BY <1>1, <1>2, <1>3, <1>4, <1>5, SearchStep, Zenon DEF Searching

(* get_partial_node takes list_lock.                                       *)
LEMMA ListLockStep ==
    ASSUME Constants, Core, NEW c \in Cpus, ListLock(c)
    PROVE  Core'
<1> DEFINE r == [Idle EXCEPT !.pc = "scan", !.scan = node.partial]
<1>1. Type /\ Own(c) /\ Doing(c) /\ List /\ op[c].pc = "list_lock" /\ node.list_lock = None
  BY Zenon DEF Core, ListLock, At, ListUnlocked
<1>2. node \in NodeType
  BY <1>1, Zenon DEF List
<1>3. /\ r \in OpType /\ r.pc = "scan" /\ r.x = None /\ ~r.discard /\ r.after = "idle"
      /\ r.scan = node.partial
  BY <1>2, Zenon DEF Idle, OpType, NodeType, Pcs, Holding
<1> HIDE DEF r
<1>4. /\ op' = [op EXCEPT ![c] = r] /\ UNCHANGED <<slab, cpu_slab, held>>
      /\ node' = [node EXCEPT !.list_lock = c]
  BY Zenon DEF ListLock, Become, r
<1>5. /\ node' \in NodeType /\ node'.list_lock = c /\ node'.partial = node.partial
      /\ node'.nr_partial = node.nr_partial /\ node'.nr_slabs = node.nr_slabs
  BY <1>2, <1>4, Zenon DEF NodeType
<1>6. Doing(c)'
  BY <1>1, <1>3, <1>4, <1>5, Zenon DEF Doing, Type, Partial
<1>7. \A d \in Cpus : d # c => (node'.list_lock = d <=> node.list_lock = d)
  BY <1>1, <1>5, Zenon DEF Constants, SlabConstants
<1> QED BY <1>1, <1>3, <1>4, <1>5, <1>6, <1>7, SearchStep, Zenon DEF Searching

(* get_partial_node comes to the end of the list.                          *)
LEMMA NoPartialStep ==
    ASSUME Constants, Core, NEW c \in Cpus, NoPartial(c)
    PROVE  Core'
<1> DEFINE r == [Idle EXCEPT !.pc = "new_slab"]
<1>1. Type /\ Own(c) /\ Doing(c) /\ List /\ op[c].pc = "scan"
  BY Zenon DEF Core, NoPartial, At
<1>2. node \in NodeType /\ node.list_lock = c
  BY <1>1, Zenon DEF List, Doing
<1>3. r \in OpType /\ r.pc = "new_slab" /\ r.x = None /\ ~r.discard /\ r.after = "idle"
  BY Afresh, Zenon DEF Pcs
<1> HIDE DEF r
<1>4. /\ op' = [op EXCEPT ![c] = r] /\ UNCHANGED <<slab, cpu_slab, held>>
      /\ node' = [node EXCEPT !.list_lock = None]
  BY Zenon DEF NoPartial, Become, r
<1>5. /\ node' \in NodeType /\ node'.list_lock = None /\ node'.partial = node.partial
      /\ node'.nr_partial = node.nr_partial /\ node'.nr_slabs = node.nr_slabs
  BY <1>2, <1>4, Zenon DEF NodeType
<1>6. Doing(c)'
  BY <1>1, <1>3, <1>4, <1>5, Zenon DEF Doing, Type, Constants, SlabConstants
<1>7. \A d \in Cpus : d # c => (node'.list_lock = d <=> node.list_lock = d)
  BY <1>2, <1>5, Zenon DEF Constants, SlabConstants
<1> QED BY <1>1, <1>3, <1>4, <1>5, <1>6, <1>7, SearchStep, Zenon DEF Searching

(* allocate_slab fails.                                                    *)
LEMMA NoMemoryStep ==
    ASSUME Constants, Core, NEW c \in Cpus, NoMemory(c)
    PROVE  Core'
<1>1. Type /\ Own(c) /\ Doing(c) /\ List /\ op[c].pc = "new_slab"
  BY Zenon DEF Core, NoMemory, At
<1>2. Idle \in OpType /\ Idle.pc = "idle" /\ Idle.x = None /\ ~Idle.discard /\ Idle.after = "idle"
  BY DEF Idle, OpType, Pcs, Holding
<1>3. op' = [op EXCEPT ![c] = Idle] /\ UNCHANGED <<slab, node, cpu_slab, held>>
  BY Zenon DEF NoMemory, Become
<1>4. Doing(c)'
  BY <1>1, <1>2, <1>3, Zenon DEF Doing, Type
<1>5. node \in NodeType
  BY <1>1, Zenon DEF List
<1> QED BY <1>1, <1>2, <1>3, <1>4, <1>5, SearchStep, Zenon DEF Searching

(* The operation of another CPU has a slab in its hands that does not change. *)
LEMMA OtherHand ==
    ASSUME Core, NEW d \in Cpus, op'[d] = op[d],
           op[d].pc \in Holding \cup {"discard"} =>
             /\ slab'[op[d].page] = slab[op[d].page]
             /\ op[d].page \in Partial' <=> op[d].page \in Partial
    PROVE  InHand(d)'
<1>1. InHand(d)
  BY Zenon DEF Core
<1> QED BY <1>1, Zenon DEF InHand, Fits

(* A slab is in the hands of one CPU at most.                              *)
LEMMA OneHand ==
    ASSUME Constants, Core, NEW c \in Cpus, NEW d \in Cpus, c # d,
           op[c].pc \in Holding, op[d].pc \in Holding \cup {"discard"}
    PROVE  op[c].page # op[d].page
<1>1. InHand(c) /\ InHand(d)
  BY Zenon DEF Core
<1> QED BY <1>1, Zenon DEF InHand, Fits, Constants, SlabConstants, Holding

(* add_partial and add_partial_tail, remove_partial: the slab goes on the  *)
(* list or off it, with its lock held.                                     *)
LEMMA RelistStep ==
    ASSUME Constants, Core, NEW c \in Cpus, AddPartial(c) \/ RemovePartial(c)
    PROVE  Core'
<1> DEFINE p == op[c].page
           r == [op[c] EXCEPT !.pc = "unlock"]
           adds == op[c].pc \in {"add_partial", "add_partial_tail"}
<1>1. Type /\ Conserved /\ Own(c) /\ Doing(c) /\ InHand(c) /\ List
  BY Zenon DEF Core
<1>2. /\ UNCHANGED <<slab, cpu_slab, held>> /\ node.list_lock = None /\ op' = [op EXCEPT ![c] = r]
  BY Zenon DEF AddPartial, RemovePartial, Become, ListUnlocked
<1>3. adds \/ op[c].pc = "remove_partial"
  BY Zenon DEF AddPartial, RemovePartial, At
<1>4. /\ p \in Slabs /\ Fits(c, op[c], slab[p], p \in Partial) /\ op[c].x = None
  BY <1>1, <1>3, Zenon DEF InHand, Doing, Holding
<1>5. /\ slab[p].lock = c /\ slab[p].is /\ ~slab[p].frozen /\ slab[p].freelist # {}
      /\ adds <=> p \notin Partial
      /\ op[c].discard <=> ~adds
      /\ op[c].discard => slab[p].freelist = Of(p)
  <2>1. Of(p) # {}
    BY <1>4, OfSlab, Zenon
  <2> QED BY <1>3, <1>4, <2>1, Zenon DEF Fits
<1>6. /\ node' \in NodeType /\ node'.list_lock = None /\ node'.nr_slabs = node.nr_slabs
      /\ node'.nr_partial = Len(node'.partial) /\ Distinct(node'.partial)
      /\ Partial' = IF adds THEN Partial \cup {p} ELSE Partial \ {p}
  <2>1. /\ node \in NodeType /\ node.partial \in Seq(Slabs) /\ Distinct(node.partial)
        /\ node.nr_partial = Len(node.partial) /\ Partial = Members(node.partial)
    BY <1>1, Zenon DEF List, NodeType, Partial, Members
  <2>2. Partial' = Members(node'.partial)
    BY Zenon DEF Partial, Members
  <2>3. CASE adds
    <3>1. /\ node'.partial \in WithNew(node.partial, p)
          /\ node'.nr_partial = node.nr_partial + 1
          /\ node' = [node EXCEPT !.nr_partial = node'.nr_partial, !.partial = node'.partial]
      BY <2>1, <2>3, Zenon DEF AddPartial, RemovePartial, At, NodeType, WithNew
    <3>2. p \notin Members(node.partial)
      BY <1>5, <2>1, <2>3, Zenon
    <3>3. /\ node'.partial \in Seq(Slabs) /\ Len(node'.partial) = Len(node.partial) + 1
          /\ Distinct(node'.partial) /\ Members(node'.partial) = Members(node.partial) \cup {p}
      BY <1>4, <2>1, <3>1, <3>2, Inserted
    <3>4. node'.nr_partial \in Int
      BY <2>1, <3>1 DEF NodeType
    <3> QED BY <1>2, <2>1, <2>2, <2>3, <3>1, <3>3, <3>4, Zenon DEF NodeType
  <2>4. CASE ~adds
    <3>1. /\ node'.partial = Without(node.partial, p)
          /\ node'.nr_partial = node.nr_partial - 1
          /\ node' = [node EXCEPT !.nr_partial = node'.nr_partial, !.partial = node'.partial]
      BY <2>1, <2>4, Zenon DEF AddPartial, RemovePartial, At, NodeType
    <3>2. p \in Members(node.partial)
      BY <1>5, <2>1, <2>4, Zenon
    <3>3. /\ node'.partial \in Seq(Slabs) /\ Len(node'.partial) = Len(node.partial) - 1
          /\ Distinct(node'.partial) /\ Members(node'.partial) = Members(node.partial) \ {p}
      BY <2>1, <3>1, <3>2, Deleted
    <3>4. node'.nr_partial \in Int
      BY <2>1, <3>1 DEF NodeType
    <3> QED BY <1>2, <2>1, <2>2, <2>4, <3>1, <3>3, <3>4, Zenon DEF NodeType
  <2> QED BY <2>3, <2>4, Zenon
<1>7. /\ r \in OpType /\ r.pc = "unlock" /\ r.page = p /\ r.x = None
      /\ r.discard <=> op[c].discard
      /\ r.after = op[c].after
  BY <1>1, <1>4, Zenon DEF Type, OpType, Pcs, Holding
<1> HIDE DEF adds, r
<1>8. op'[c] = r /\ \A d \in Cpus : d # c => op'[d] = op[d]
  BY <1>1, <1>2, Zenon DEF Type
<1>9. Type'
  BY <1>1, <1>2, <1>7, Zenon DEF Type
<1>10. Conserved'
  <2>1. \A d \in Cpus : op'[d].x = op[d].x
    BY <1>4, <1>7, <1>8, Zenon
  <2> QED BY <1>1, <1>2, <2>1 DEF Conserved, Once, Somewhere
<1>11. ASSUME NEW q \in Slabs
       PROVE  SlabOK(q)' /\ Placed(q)'
  <2>1. SlabOK(q) /\ Placed(q)
    BY Zenon DEF Core
  <2>2. SlabOK(q)'
    BY <1>2, <1>3, <1>7, <1>8, <2>1 DEF SlabOK, Holding, adds
  <2>3. Busy(q)' <=> Busy(q)
    BY <1>2, <1>3, <1>7, <1>8, Zenon DEF Busy, At, adds
  <2>4. q = p => Busy(q)
    BY <1>5, Zenon DEF Busy, Constants, SlabConstants
  <2> QED BY <1>2, <1>5, <1>6, <2>1, <2>2, <2>3, <2>4, Zenon DEF Placed
<1>12. ASSUME NEW d \in Cpus
       PROVE  Own(d)' /\ Doing(d)' /\ InHand(d)' /\ Sole(d)'
  <2>1. Own(d) /\ Doing(d) /\ InHand(d) /\ Sole(d)
    BY Zenon DEF Core
  <2>2. Own(d)'
    BY <1>2, <2>1, Zenon DEF Own
  <2>3. Doing(d)'
    BY <1>2, <1>3, <1>4, <1>6, <1>7, <1>8, <2>1 DEF Doing, adds, Constants, SlabConstants
  <2>4. InHand(d)'
    <3>1. CASE d = c
      BY <1>2, <1>4, <1>5, <1>6, <1>7, <1>8, <3>1 DEF InHand, Fits, Holding
    <3>2. CASE d # c
      <4>1. op[c].pc \in Holding
        BY <1>3, Zenon DEF Holding, adds
      <4>2. op[d].pc \in Holding \cup {"discard"} => op[d].page # p
        BY <3>2, <4>1, OneHand, Zenon
      <4> QED BY <1>2, <1>6, <1>8, <3>2, <4>2, OtherHand, Zenon
    <3> QED BY <3>1, <3>2, Zenon
  <2>5. Sole(d)'
    BY <1>7, <1>8, <2>1, Zenon DEF Sole
  <2> QED BY <2>2, <2>3, <2>4, <2>5, Zenon
<1>13. List'
  BY <1>1, <1>2, <1>6, Zenon DEF List
<1> QED BY <1>9, <1>10, <1>11, <1>12, <1>13, Zenon DEF Core

(* slab_unlock                                                             *)
LEMMA SlabUnlockStep ==
    ASSUME Constants, Core, NEW c \in Cpus, SlabUnlock(c)
    PROVE  Core'
<1> DEFINE p == op[c].page
           r == IF op[c].discard THEN [op[c] EXCEPT !.pc = "discard"]
                ELSE [Idle EXCEPT !.pc = op[c].after]
<1>1. Type /\ Conserved /\ Own(c) /\ Doing(c) /\ InHand(c) /\ List /\ op[c].pc = "unlock"
  BY Zenon DEF Core, SlabUnlock, At
<1>2. /\ UNCHANGED <<node, cpu_slab, held>> /\ op' = [op EXCEPT ![c] = r]
      /\ slab' = [slab EXCEPT ![p].lock = None]
  BY Zenon DEF SlabUnlock, Become
<1>3. /\ p \in Slabs /\ Fits(c, op[c], slab[p], p \in Partial)
      /\ slab[p].lock = c /\ slab[p].is
      /\ op[c].x = None /\ op[c] \in OpType /\ op[c].after \in {"idle", "get_partial"}
  BY <1>1, Zenon DEF InHand, Doing, Fits, Holding, Type, OpType
<1>4. /\ r \in OpType /\ r.x = None
      /\ r.discard <=> op[c].discard
      /\ op[c].discard => r.pc = "discard" /\ r.page = p /\ r.after = op[c].after
      /\ ~op[c].discard => r.pc = op[c].after /\ r.after = "idle"
  <2>1. CASE op[c].discard
    <3>1. r = [op[c] EXCEPT !.pc = "discard"]
      BY <2>1, Zenon
    <3> QED BY <1>3, <2>1, <3>1, Zenon DEF OpType, Pcs
  <2>2. CASE ~op[c].discard
    <3>1. r = [Idle EXCEPT !.pc = op[c].after] /\ op[c].after \in Pcs
      BY <1>3, <2>2, Zenon DEF Pcs
    <3> HIDE DEF r
    <3>2. r \in OpType /\ r.pc = op[c].after /\ r.x = None /\ ~r.discard /\ r.after = "idle"
      BY <3>1, Afresh, Zenon
    <3> QED BY <2>2, <3>2, Zenon
  <2> QED BY <2>1, <2>2, Zenon
<1> HIDE DEF r
<1>5. op'[c] = r /\ \A d \in Cpus : d # c => op'[d] = op[d]
  BY <1>1, <1>2, Zenon DEF Type
<1>6. /\ slab'[p].lock = None /\ slab'[p].inuse = slab[p].inuse
      /\ \A q \in Slabs : q # p => slab'[q] = slab[q]
      /\ \A q \in Slabs : /\ slab'[q].is <=> slab[q].is
                          /\ slab'[q].frozen <=> slab[q].frozen
                          /\ slab'[q].freelist = slab[q].freelist
  BY <1>1, <1>2, <1>3 DEF Type, SlabType
<1>7. Partial' = Partial
  BY <1>2, Zenon DEF Partial
<1>8. Type'
  <2>1. [slab[p] EXCEPT !.lock = None] \in SlabType
    BY <1>1, <1>3 DEF Type, SlabType
  <2> QED BY <1>1, <1>2, <1>4, <2>1, Zenon DEF Type
<1>9. Conserved'
  <2>1. \A d \in Cpus : op'[d].x = op[d].x
    BY <1>3, <1>4, <1>5, Zenon
  <2>2. \A o \in Objects : SlabOf(o) \in Slabs
    BY Zenon DEF Objects, SlabOf
  <2> QED BY <1>1, <1>2, <1>6, <2>1, <2>2 DEF Conserved, Once, Somewhere
<1>10. ASSUME NEW q \in Slabs
       PROVE  SlabOK(q)' /\ Placed(q)'
  <2>1. SlabOK(q) /\ Placed(q)
    BY Zenon DEF Core
  <2>2. SlabOK(q)'
    BY <1>1, <1>2, <1>3, <1>4, <1>5, <1>6, <2>1 DEF SlabOK, Holding, Constants, SlabConstants
  <2>3. CASE q = p
    <3>1. op[c].discard => Busy(q)'
      BY <1>4, <1>5, <2>3, Zenon DEF Busy, At
    <3>2. ~op[c].discard => slab[p].frozen \/ slab[p].freelist = {} \/ p \in Partial
      BY <1>1, <1>3, Zenon DEF Fits
    <3> QED BY <1>6, <1>7, <2>1, <2>2, <2>3, <3>1, <3>2, Zenon DEF Placed
  <2>4. CASE q # p
    <3>1. Busy(q)' <=> Busy(q)
      <4>1. op'[c].page = q => op'[c].pc # "discard"
        BY <1>3, <1>4, <1>5, <2>4, Zenon
      <4> QED BY <1>1, <1>5, <1>6, <2>4, <4>1 DEF Busy, At
    <3> QED BY <1>6, <1>7, <2>1, <2>2, <3>1, Zenon DEF Placed
  <2> QED BY <2>3, <2>4, Zenon
<1>11. \A e \in Cpus : e # c /\ op[e].pc = "discard" => op[e].page # p
  BY <1>1, OneHand, Zenon DEF Holding
<1>12. ASSUME NEW d \in Cpus
       PROVE  Own(d)' /\ Doing(d)' /\ InHand(d)' /\ Sole(d)'
  <2>1. Own(d) /\ Doing(d) /\ InHand(d) /\ Sole(d)
    BY Zenon DEF Core
  <2>2. Own(d)'
    <3>1. cpu_slab[d].page # None => cpu_slab[d].page \in Slabs
      BY <1>1, Zenon DEF Type, CpuType
    <3> QED BY <1>2, <1>6, <2>1, <3>1, Zenon DEF Own
  <2>3. Doing(d)'
    BY <1>1, <1>2, <1>3, <1>4, <1>5, <1>7, <2>1 DEF Doing
  <2>4. InHand(d)'
    <3>1. CASE d = c
      <4>1. op[c].discard => Fits(c, r, slab'[p], p \in Partial)
        BY <1>1, <1>3, <1>4, <1>6, Zenon DEF Fits
      <4> QED BY <1>3, <1>4, <1>5, <1>7, <3>1, <4>1, Zenon DEF InHand, Holding
    <3>2. CASE d # c
      <4>1. op[d].pc \in Holding \cup {"discard"} => op[d].page # p /\ op[d].page \in Slabs
        BY <1>1, <2>1, <3>2, OneHand, Zenon DEF Holding, InHand
      <4> QED BY <1>5, <1>6, <1>7, <3>2, <4>1, OtherHand, Zenon
    <3> QED BY <3>1, <3>2, Zenon
  <2>5. Sole(d)'
    BY <1>3, <1>4, <1>5, <1>11, <2>1 DEF Sole
  <2> QED BY <2>2, <2>3, <2>4, <2>5, Zenon
<1>13. List'
  <2>1. {q \in Slabs : slab'[q].is} = {q \in Slabs : slab[q].is}
    BY <1>6, Zenon
  <2> QED BY <1>1, <1>2, <2>1, Zenon DEF List
<1> QED BY <1>8, <1>9, <1>10, <1>12, <1>13, Zenon DEF Core

(* discard_slab                                                            *)
LEMMA DiscardSlabStep ==
    ASSUME Constants, Core, NEW c \in Cpus, DiscardSlab(c)
    PROVE  Core'
<1> DEFINE p == op[c].page
           r == [Idle EXCEPT !.pc = op[c].after]
<1>1. /\ Type /\ Conserved /\ Own(c) /\ Doing(c) /\ InHand(c) /\ Sole(c) /\ List
      /\ op[c].pc = "discard"
  BY Zenon DEF Core, DiscardSlab, At
<1>2. /\ UNCHANGED <<cpu_slab, held>> /\ op' = [op EXCEPT ![c] = r]
      /\ slab' = [slab EXCEPT ![p] = FreePage] /\ node' = [node EXCEPT !.nr_slabs = @ - 1]
  BY Zenon DEF DiscardSlab, Become
<1>3. /\ p \in Slabs /\ slab[p].lock = None /\ slab[p].is /\ ~slab[p].frozen /\ p \notin Partial
      /\ slab[p].freelist = Of(p)
      /\ op[c].x = None /\ op[c].after \in {"idle", "get_partial"}
  BY <1>1, Zenon DEF InHand, Doing, Fits, Holding, Type, OpType
<1>4. r \in OpType /\ r.pc = op[c].after /\ r.x = None /\ ~r.discard /\ r.after = "idle"
  BY <1>3, Afresh, Zenon DEF Pcs
<1> HIDE DEF r
<1>5. op'[c] = r /\ \A d \in Cpus : d # c => op'[d] = op[d]
  BY <1>1, <1>2, Zenon DEF Type
<1>6. /\ slab'[p].lock = None /\ ~slab'[p].is /\ ~slab'[p].frozen /\ slab'[p].freelist = {}
      /\ \A q \in Slabs : q # p => slab'[q] = slab[q]
  BY <1>1, <1>2, <1>3, Zenon DEF Type, FreePage
<1>7. /\ node' \in NodeType /\ node'.partial = node.partial /\ node'.nr_partial = node.nr_partial
      /\ node'.list_lock = node.list_lock /\ node'.nr_slabs = node.nr_slabs - 1
  BY <1>1, <1>2 DEF List, NodeType
<1>8. Partial' = Partial
  BY <1>7, Zenon DEF Partial
<1>9. Type'
  <2>1. FreePage \in SlabType
    BY DEF FreePage, SlabType
  <2> QED BY <1>1, <1>2, <1>4, <2>1, Zenon DEF Type
<1>10. Conserved'
  <2>1. \A d \in Cpus : op'[d].x = op[d].x
    BY <1>3, <1>4, <1>5, Zenon
  <2>2. ASSUME NEW o \in Objects
        PROVE  Once(o)' /\ Somewhere(o)'
    <3>1. SlabOf(o) \in Slabs /\ Once(o) /\ Somewhere(o)
      BY <1>1, Zenon DEF Objects, SlabOf, Conserved
    <3>2. SlabOf(o) = p => o \in slab[p].freelist
      BY <1>3, OfSlab
    <3> QED BY <1>2, <1>6, <2>1, <3>1, <3>2 DEF Once, Somewhere
  <2> QED BY <2>2, Zenon DEF Conserved
<1>11. \A d \in Cpus : cpu_slab[d].page # p
  BY <1>3, Zenon DEF Core, SlabOK
<1>12. ASSUME NEW q \in Slabs
       PROVE  SlabOK(q)' /\ Placed(q)'
  <2>1. SlabOK(q) /\ Placed(q)
    BY Zenon DEF Core
  <2>2. CASE q = p
    BY <1>2, <1>3, <1>6, <1>8, <1>11, <2>2 DEF SlabOK, Placed, Constants, SlabConstants
  <2>3. CASE q # p
    <3>1. SlabOK(q)'
      BY <1>1, <1>2, <1>5, <1>6, <2>1, <2>3 DEF SlabOK, Holding
    <3>2. Busy(q)' <=> Busy(q)
      BY <1>3, <1>4, <1>5, <1>6, <2>3, Zenon DEF Busy, At
    <3> QED BY <1>6, <1>8, <2>1, <2>3, <3>1, <3>2, Zenon DEF Placed
  <2> QED BY <2>2, <2>3, Zenon
<1>13. ASSUME NEW d \in Cpus
       PROVE  Own(d)' /\ Doing(d)' /\ InHand(d)' /\ Sole(d)'
  <2>1. Own(d) /\ Doing(d) /\ InHand(d) /\ Sole(d)
    BY Zenon DEF Core
  <2>2. Own(d)'
    <3>1. cpu_slab[d].page # None => cpu_slab[d].page \in Slabs
      BY <1>1, Zenon DEF Type, CpuType
    <3> QED BY <1>2, <1>6, <1>11, <2>1, <3>1, Zenon DEF Own
  <2>3. Doing(d)'
    BY <1>1, <1>2, <1>3, <1>4, <1>5, <1>7, <1>8, <2>1 DEF Doing
  <2>4. InHand(d)'
    <3>1. CASE d = c
      BY <1>3, <1>4, <1>5, <3>1, Zenon DEF InHand, Holding
    <3>2. CASE d # c
      <4>1. op[d].pc \in Holding => op[d].page # p
        BY <1>1, <3>2, OneHand, Zenon
      <4>2. op[d].pc = "discard" => op[d].page # p
        BY <1>1, <3>2, Zenon DEF Sole
      <4>3. op[d].pc \in Holding \cup {"discard"} => op[d].page \in Slabs
        BY <2>1, Zenon DEF InHand
      <4> QED BY <1>5, <1>6, <1>8, <3>2, <4>1, <4>2, <4>3, OtherHand, Zenon
    <3> QED BY <3>1, <3>2, Zenon
  <2>5. Sole(d)'
    BY <1>3, <1>4, <1>5, <2>1, Zenon DEF Sole
  <2> QED BY <2>2, <2>3, <2>4, <2>5, Zenon
<1>14. List'
  <2> DEFINE I == {q \in Slabs : slab[q].is}
  <2>1. {q \in Slabs : slab'[q].is} = I \ {p}
    BY <1>3, <1>6, Zenon
  <2>2. I \in SUBSET Slabs /\ p \in I
    BY <1>3, Zenon
  <2>3. Cardinality(I \ {p}) = Cardinality(I) - 1
    BY <2>2, SlabCount, Zenon
  <2> QED BY <1>1, <1>7, <2>1, <2>3, Zenon DEF List
<1> QED BY <1>9, <1>10, <1>12, <1>13, <1>14, Zenon DEF Core

(* load_freelist, from the slab of the CPU                                 *)
LEMMA LoadStep ==
    ASSUME Constants, Core, NEW c \in Cpus, NEW p, p = cpu_slab[c].page, NEW o \in slab[p].freelist,
           op[c].pc = "load", slab[p].lock \in {None, c}, LoadFreelist(c, p, o),
           held' = held \cup {o}, op' = [op EXCEPT ![c] = Idle], node' = node
    PROVE  Core'
<1>1. Type /\ Conserved /\ Own(c) /\ Doing(c) /\ List
  BY Zenon DEF Core
<1>2. /\ p \in Slabs /\ cpu_slab[c].freelist = {} /\ op[c].x = None /\ node.list_lock # c
      /\ slab[p].is /\ \A d \in Cpus : d # c => cpu_slab[d].page # p
  BY <1>1, Zenon DEF Own, Doing, Type, CpuType
<1>3. SlabOK(p) /\ Placed(p) /\ slab[p].frozen /\ p \notin Partial
      /\ slab[p].freelist \subseteq Of(p) /\ slab[p].freelist \subseteq Objects
  BY <1>1, <1>2 DEF Core, SlabOK, Placed, Type, SlabType
<1>4. /\ cpu_slab'[c].page = p /\ cpu_slab'[c].freelist = slab[p].freelist \ {o}
      /\ \A d \in Cpus : d # c => cpu_slab'[d] = cpu_slab[d]
      /\ cpu_slab' \in [Cpus -> CpuType]
  BY <1>1, <1>2, <1>3, Zenon DEF LoadFreelist, Type, CpuType
<1>5. /\ slab'[p].lock = None /\ slab'[p].is /\ slab'[p].frozen /\ slab'[p].freelist = {}
      /\ slab'[p].inuse = Count
      /\ \A q \in Slabs : q # p => slab'[q] = slab[q]
  BY <1>1, <1>2, <1>3 DEF LoadFreelist, Type, SlabType
<1>6. Idle \in OpType /\ Idle.pc = "idle" /\ Idle.x = None /\ ~Idle.discard /\ Idle.after = "idle"
  BY DEF Idle, OpType, Pcs, Holding
<1>7. op'[c] = Idle /\ \A d \in Cpus : d # c => op'[d] = op[d]
  BY <1>1, Zenon DEF Type
<1>8. Partial' = Partial
  BY Zenon DEF Partial
<1>9. Type'
  <2>1. Count \in Nat
    BY <1>2, <1>3, FreeCount
  <2>2. [slab[p] EXCEPT !.inuse = Count, !.freelist = {}, !.lock = None] \in SlabType
    <3>1. slab[p] \in SlabType /\ Count \in Int
      BY <1>1, <1>2, <2>1 DEF Type
    <3> QED BY <3>1, Zenon DEF SlabType
  <2>3. slab' \in [Slabs -> SlabType]
    BY <1>1, <1>2, <2>2 DEF Type, SlabType, LoadFreelist
  <2> QED BY <1>1, <1>3, <1>4, <1>6, <2>3, Zenon DEF Type
<1>10. Conserved'
  <2>1. \A d \in Cpus : op'[d].x = op[d].x
    BY <1>2, <1>6, <1>7, Zenon
  <2>2. ASSUME NEW b \in Objects
        PROVE  Once(b)' /\ Somewhere(b)'
    <3>1. SlabOf(b) \in Slabs /\ Once(b) /\ Somewhere(b) /\ Once(o)
      BY <1>1, <1>3, Zenon DEF Objects, SlabOf, Conserved
    <3>2. b \in slab[p].freelist => SlabOf(b) = p
      BY <1>2, <1>3, OfSlab, Zenon
    <3>3. Once(b)'
      BY <1>2, <1>4, <1>5, <2>1, <3>1, <3>2 DEF Once
    <3>4. Somewhere(b)'
      BY <1>2, <1>4, <1>5, <2>1, <3>1, <3>2 DEF Somewhere
    <3> QED BY <3>3, <3>4, Zenon
  <2> QED BY <2>2, Zenon DEF Conserved
<1>11. ASSUME NEW q \in Slabs
       PROVE  SlabOK(q)' /\ Placed(q)'
  <2>1. SlabOK(q) /\ Placed(q)
    BY Zenon DEF Core
  <2>2. CASE q = p
    <3>1. Cardinality({}) = 0 /\ Count - 0 = Count
      BY DEF Constants, Counting
    <3>2. SlabOK(q)'
      BY <1>4, <1>5, <2>2, <3>1, Zenon DEF SlabOK, Constants, SlabConstants
    <3> QED BY <1>3, <1>5, <1>8, <2>2, <3>2, Zenon DEF Placed
  <2>3. CASE q # p
    <3>1. SlabOK(q)'
      BY <1>2, <1>4, <1>5, <1>6, <1>7, <2>1, <2>3 DEF SlabOK, Holding
    <3>2. Busy(q)' <=> Busy(q)
      BY <1>5, <1>6, <1>7, <2>3 DEF Busy, At
    <3> QED BY <1>5, <1>8, <2>1, <2>3, <3>1, <3>2, Zenon DEF Placed
  <2> QED BY <2>2, <2>3, Zenon
<1>12. ASSUME NEW d \in Cpus
       PROVE  Own(d)' /\ Doing(d)' /\ InHand(d)' /\ Sole(d)'
  <2>1. Own(d) /\ Doing(d) /\ InHand(d) /\ Sole(d)
    BY Zenon DEF Core
  <2>2. Own(d)'
    <3>1. cpu_slab[d].page # None => cpu_slab[d].page \in Slabs
      BY <1>1, Zenon DEF Type, CpuType
    <3> QED BY <1>2, <1>3, <1>4, <1>5, <2>1, <3>1 DEF Own, Constants, SlabConstants
  <2>3. Doing(d)'
    BY <1>2, <1>4, <1>6, <1>7, <1>8, <2>1 DEF Doing
  <2>4. InHand(d)'
    <3>1. CASE d = c
      BY <1>6, <1>7, <3>1, Zenon DEF InHand, Holding
    <3>2. CASE d # c
      <4>1. op[d].pc \in Holding \cup {"discard"} => op[d].page # p /\ op[d].page \in Slabs
        BY <1>3, <2>1, <3>2, Zenon DEF InHand, Fits, Constants, SlabConstants, Holding
      <4> QED BY <1>5, <1>7, <1>8, <3>2, <4>1, OtherHand, Zenon
    <3> QED BY <3>1, <3>2, Zenon
  <2>5. Sole(d)'
    BY <1>6, <1>7, <2>1, Zenon DEF Sole
  <2> QED BY <2>2, <2>3, <2>4, <2>5, Zenon
<1>13. List'
  <2>1. {q \in Slabs : slab'[q].is} = {q \in Slabs : slab[q].is}
    BY <1>2, <1>5, Zenon
  <2> QED BY <1>1, <2>1, Zenon DEF List
<1> QED BY <1>9, <1>10, <1>11, <1>12, <1>13, Zenon DEF Core

(* deactivate_slab, up to where unfreeze_slab has chosen                   *)
LEMMA DeactivateStep ==
    ASSUME Constants, Core, NEW c \in Cpus, NEW p, p = cpu_slab[c].page, p # None,
           op[c].pc \in {"load", "idle"}, slab[p].lock \in {None, c},
           NEW after \in {"idle", "get_partial"},
           Deactivate(c, [slab[p] EXCEPT !.lock = c], after), held' = held, node' = node
    PROVE  Core'
<1> DEFINE free == slab[p].freelist \cup cpu_slab[c].freelist
           left == slab[p].inuse - Cardinality(cpu_slab[c].freelist)
           s == [slab[p] EXCEPT !.lock = c, !.freelist = free, !.inuse = left, !.frozen = FALSE]
           r == [Idle EXCEPT !.pc = AfterUnfreeze(s), !.page = p, !.after = after,
                             !.discard = s.inuse = 0 /\ AfterUnfreeze(s) = "unlock"]
<1>1. Type /\ Conserved /\ Own(c) /\ Doing(c) /\ List
  BY Zenon DEF Core
<1>2. /\ p \in Slabs /\ op[c].x = None /\ node.list_lock # c
      /\ slab[p].is /\ \A d \in Cpus : d # c => cpu_slab[d].page # p
      /\ cpu_slab[c].freelist \subseteq Of(p) /\ slab[p] \in SlabType
  BY <1>1, Zenon DEF Own, Doing, Type, CpuType
<1>3. /\ SlabOK(p) /\ Placed(p) /\ slab[p].frozen /\ p \notin Partial
      /\ slab[p].freelist \subseteq Of(p)
      /\ slab[p].inuse = Count - Cardinality(slab[p].freelist)
  BY <1>2, Zenon DEF Core, SlabOK, Placed
<1>4. /\ slab' = [slab EXCEPT ![p] = s] /\ op' = [op EXCEPT ![c] = r]
      /\ cpu_slab' = [cpu_slab EXCEPT ![c] = [page |-> None, freelist |-> {}]]
  BY <1>2, Zenon DEF Deactivate, Become, SlabType
<1>5. /\ free \subseteq Of(p) /\ left = Count - Cardinality(free) /\ left \in Int
      /\ left = 0 <=> free = Of(p)
      /\ left = 0 => free # {}
  <2>1. slab[p].freelist \cap cpu_slab[c].freelist = {}
    BY <1>1, <1>2, <1>3, OfSlab DEF Conserved, Once
  <2>2. Cardinality(free) = Cardinality(slab[p].freelist) + Cardinality(cpu_slab[c].freelist)
    BY <1>2, <1>3, <2>1, JoinCount
  <2>3. /\ Cardinality(slab[p].freelist) \in Nat /\ Cardinality(cpu_slab[c].freelist) \in Nat
        /\ Cardinality(free) \in Nat /\ Count \in Nat
        /\ Cardinality(free) = Count <=> free = Of(p)
    BY <1>2, <1>3, FreeCount, Zenon
  <2>4. Of(p) # {}
    BY <1>2, OfSlab, Zenon
  <2>5. left = Count - Cardinality(free)
    BY <1>3, <2>2, <2>3
  <2> HIDE DEF left, free
  <2>6. (left = 0 <=> free = Of(p)) /\ left \in Int
    BY <2>3, <2>5
  <2> QED BY <1>2, <1>3, <2>4, <2>5, <2>6, Zenon DEF free
<1> HIDE DEF free, left
<1>6. /\ s \in SlabType /\ s.is /\ s.lock = c /\ ~s.frozen /\ s.freelist = free /\ s.inuse = left
  <2>1. free \subseteq Objects
    BY <1>2, <1>5, OfSlab, Zenon
  <2> QED BY <1>2, <1>5, <2>1, Zenon DEF SlabType
<1> HIDE DEF s
<1>7. /\ AfterUnfreeze(s) \in {"add_partial", "add_partial_tail", "unlock"}
      /\ AfterUnfreeze(s) # "unlock" => free # {}
      /\ AfterUnfreeze(s) = "unlock" => free = {} \/ left = 0
  BY <1>5, <1>6, Zenon DEF AfterUnfreeze
<1>8. /\ r \in OpType /\ r.pc = AfterUnfreeze(s) /\ r.page = p /\ r.x = None /\ r.after = after
      /\ r.discard <=> left = 0 /\ AfterUnfreeze(s) = "unlock"
  <2>1. Idle \in OpType
    BY DEF Idle, OpType, Pcs
  <2>2. AfterUnfreeze(s) \in Pcs
    BY <1>7, Zenon DEF Pcs, Holding
  <2> QED BY <1>2, <1>6, <2>1, <2>2, Zenon DEF OpType, Idle
<1> HIDE DEF r
<1>9. op'[c] = r /\ \A d \in Cpus : d # c => op'[d] = op[d]
  BY <1>1, <1>4, Zenon DEF Type
<1>10. slab'[p] = s /\ \A q \in Slabs : q # p => slab'[q] = slab[q]
  BY <1>1, <1>2, <1>4, Zenon DEF Type
<1>11. /\ cpu_slab'[c].page = None /\ cpu_slab'[c].freelist = {}
       /\ \A d \in Cpus : d # c => cpu_slab'[d] = cpu_slab[d]
  BY <1>1, <1>4, Zenon DEF Type
<1>12. Partial' = Partial
  BY Zenon DEF Partial
<1>13. Type'
  BY <1>1, <1>4, <1>6, <1>8, Zenon DEF Type, CpuType
<1>14. Conserved'
  <2>1. \A d \in Cpus : op'[d].x = op[d].x
    BY <1>2, <1>8, <1>9, Zenon
  <2>2. ASSUME NEW b \in Objects
        PROVE  Once(b)' /\ Somewhere(b)'
    <3>1. SlabOf(b) \in Slabs /\ Once(b) /\ Somewhere(b)
      BY <1>1, Zenon DEF Objects, SlabOf, Conserved
    <3>2. /\ slab'[p].freelist = slab[p].freelist \cup cpu_slab[c].freelist
          /\ b \in slab'[p].freelist => SlabOf(b) = p
      BY <1>2, <1>5, <1>6, <1>10, OfSlab DEF free
    <3>3. b \in cpu_slab[c].freelist => SlabOf(b) = p
      BY <1>2, OfSlab, Zenon
    <3>4. Once(b)'
      BY <1>2, <1>10, <1>11, <2>1, <3>1, <3>2 DEF Once
    <3>5. Somewhere(b)'
      BY <1>2, <1>6, <1>10, <1>11, <2>1, <3>1, <3>2, <3>3 DEF Somewhere
    <3> QED BY <3>4, <3>5, Zenon
  <2> QED BY <2>2, Zenon DEF Conserved
<1>15. ASSUME NEW q \in Slabs
       PROVE  SlabOK(q)' /\ Placed(q)'
  <2>1. SlabOK(q) /\ Placed(q)
    BY Zenon DEF Core
  <2>2. CASE q = p
    <3>1. \A d \in Cpus : cpu_slab'[d].page # p
      BY <1>2, <1>11, <2>2, Zenon DEF Constants, SlabConstants
    <3>2. r.pc \in Holding
      BY <1>7, <1>8, Zenon DEF Holding
    <3>3. SlabOK(q)'
      BY <1>5, <1>6, <1>8, <1>9, <1>10, <2>2, <3>1, <3>2, Zenon DEF SlabOK
    <3>4. Busy(q)'
      BY <1>6, <1>10, <2>2, Zenon DEF Busy, Constants, SlabConstants
    <3> QED BY <1>3, <1>12, <2>2, <3>3, <3>4, Zenon DEF Placed
  <2>3. CASE q # p
    <3>1. SlabOK(q)'
      BY <1>9, <1>10, <1>11, <2>1, <2>3 DEF SlabOK, Holding, Constants, SlabConstants
    <3>2. Busy(q)' <=> Busy(q)
      BY <1>7, <1>8, <1>9, <1>10, <2>3, Zenon DEF Busy, At
    <3> QED BY <1>10, <1>12, <2>1, <2>3, <3>1, <3>2, Zenon DEF Placed
  <2> QED BY <2>2, <2>3, Zenon
<1>16. ASSUME NEW d \in Cpus
       PROVE  Own(d)' /\ Doing(d)' /\ InHand(d)' /\ Sole(d)'
  <2>1. Own(d) /\ Doing(d) /\ InHand(d) /\ Sole(d)
    BY Zenon DEF Core
  <2>2. Own(d)'
    <3>1. cpu_slab[d].page # None => cpu_slab[d].page \in Slabs
      BY <1>1, Zenon DEF Type, CpuType
    <3> QED BY <1>2, <1>10, <1>11, <2>1, <3>1 DEF Own
  <2>3. Doing(d)'
    BY <1>2, <1>7, <1>8, <1>9, <1>11, <1>12, <2>1, Zenon DEF Doing
  <2>4. InHand(d)'
    <3>1. CASE d = c
      <4>1. r.pc \in Holding \cup {"discard"}
        BY <1>7, <1>8, Zenon DEF Holding
      <4>2. Fits(c, r, s, p \in Partial)
        BY <1>3, <1>5, <1>6, <1>7, <1>8, Zenon DEF Fits
      <4> QED BY <1>2, <1>8, <1>9, <1>10, <1>12, <3>1, <4>1, <4>2, Zenon DEF InHand
    <3>2. CASE d # c
      <4>1. op[d].pc \in Holding \cup {"discard"} => op[d].page # p /\ op[d].page \in Slabs
        BY <1>3, <2>1, <3>2, Zenon DEF InHand, Fits, Constants, SlabConstants, Holding
      <4> QED BY <1>9, <1>10, <1>12, <3>2, <4>1, OtherHand, Zenon
    <3> QED BY <3>1, <3>2, Zenon
  <2>5. Sole(d)'
    BY <1>7, <1>8, <1>9, <2>1, Zenon DEF Sole
  <2> QED BY <2>2, <2>3, <2>4, <2>5, Zenon
<1>17. List'
  <2>1. {q \in Slabs : slab'[q].is} = {q \in Slabs : slab[q].is}
    BY <1>2, <1>6, <1>10
  <2> QED BY <1>1, <2>1, Zenon DEF List
<1> QED BY <1>13, <1>14, <1>15, <1>16, <1>17, Zenon DEF Core

(* __slab_alloc with a slab                                                *)
LEMMA LoadCpuSlabStep ==
    ASSUME Constants, Core, NEW c \in Cpus, LoadCpuSlab(c)
    PROVE  Core'
<1>1. PICK p : p = cpu_slab[c].page
  BY Zenon
<1>2. op[c].pc = "load" /\ slab[p].lock \in {None, c} /\ node' = node /\ p # None
  BY <1>1, Zenon DEF LoadCpuSlab, At, Core, Doing
<1>3. CASE slab[p].freelist # {}
  <2>1. PICK o \in slab[p].freelist : LoadFreelist(c, p, o) /\ held' = held \cup {o}
    BY <1>1, <1>3, Zenon DEF LoadCpuSlab
  <2>2. op' = [op EXCEPT ![c] = Idle]
    BY <1>1, <1>3, Zenon DEF LoadCpuSlab, Become
  <2> QED BY <1>1, <1>2, <2>1, <2>2, LoadStep, Zenon
<1>4. CASE slab[p].freelist = {}
  <2>1. Deactivate(c, [slab[p] EXCEPT !.lock = c], "get_partial") /\ held' = held
    BY <1>1, <1>4, Zenon DEF LoadCpuSlab
  <2> QED BY <1>1, <1>2, <2>1, DeactivateStep, Zenon
<1> QED BY <1>3, <1>4, Zenon

(* lock_and_freeze_slab of the next slab of the list                       *)
LEMMA LockAndFreezeSlabStep ==
    ASSUME Constants, Core, NEW c \in Cpus, LockAndFreezeSlab(c)
    PROVE  Core'
<1>1. PICK p : p = Head(op[c].scan)
  BY Zenon
<1>2. /\ Type /\ Conserved /\ Own(c) /\ Doing(c) /\ List /\ InHand(c)
      /\ op[c].pc = "scan" /\ op[c].scan # <<>>
      /\ op[c] \in OpType /\ op[c].scan \in Seq(Slabs)
  BY Zenon DEF Core, LockAndFreezeSlab, At, Type, OpType
<1>3. /\ p \in Slabs /\ p \in Partial /\ op[c].x = None /\ ~op[c].discard
      /\ node.list_lock = c /\ cpu_slab[c].page = None /\ cpu_slab[c].freelist = {}
  <2>1. p = op[c].scan[1] /\ 1 \in DOMAIN op[c].scan /\ p \in Slabs
    BY <1>1, <1>2
  <2> QED BY <1>2, <2>1, Zenon DEF Doing, Own, InHand, Holding
<1>4. CASE ~Unlocked(p)
  <2> DEFINE r == [op[c] EXCEPT !.scan = Tail(@)]
  <2>1. UNCHANGED <<slab, node, cpu_slab, held>> /\ op' = [op EXCEPT ![c] = r]
    BY <1>1, <1>4, Zenon DEF LockAndFreezeSlab, Become
  <2>2. Tail(op[c].scan) \in Seq(Slabs)
    BY <1>2
  <2>3. /\ r \in OpType /\ r.pc = "scan" /\ r.x = None /\ ~r.discard /\ r.after = op[c].after
        /\ r.scan = Tail(op[c].scan)
    BY <1>2, <1>3, <2>2, Zenon DEF OpType
  <2>4. \A i \in DOMAIN Tail(op[c].scan) :
          i + 1 \in DOMAIN op[c].scan /\ Tail(op[c].scan)[i] = op[c].scan[i + 1]
    BY <1>2
  <2> HIDE DEF r
  <2>5. op'[c] = r /\ Partial' = Partial
    BY <1>2, <2>1, Zenon DEF Type, Partial
  <2>6. Doing(c)'
    <3>1. \A i \in DOMAIN r.scan : r.scan[i] \in Partial
      BY <1>2, <2>3, <2>4, Zenon DEF Doing
    <3>2. \A i \in DOMAIN op'[c].scan : op'[c].scan[i] \in Partial'
      BY <2>5, <3>1, Zenon
    <3>3. op'[c].pc = "scan" /\ op'[c].x = None /\ node'.list_lock = c /\ cpu_slab'[c].page = None
      BY <1>3, <2>1, <2>3, <2>5, Zenon
    <3> QED BY <3>2, <3>3, Zenon DEF Doing
  <2>7. node \in NodeType
    BY <1>2, Zenon DEF List
  <2> QED BY <1>2, <2>1, <2>3, <2>6, <2>7, SearchStep, Zenon DEF Searching
<1>5. CASE Unlocked(p)
  <2> DEFINE r == [Idle EXCEPT !.pc = "load"]
             s == [slab[p] EXCEPT !.lock = c, !.frozen = TRUE]
  <2>1. /\ held' = held /\ op' = [op EXCEPT ![c] = r] /\ slab' = [slab EXCEPT ![p] = s]
        /\ cpu_slab' = [cpu_slab EXCEPT ![c].page = p]
        /\ node' = [node EXCEPT !.nr_partial = @ - 1, !.partial = Without(@, p), !.list_lock = None]
    BY <1>1, <1>3, <1>5, Zenon DEF LockAndFreezeSlab, Become
  <2>2. SlabOK(p) /\ Placed(p) /\ slab[p] \in SlabType
    BY <1>2, <1>3, Zenon DEF Core, Type
  <2>3. /\ slab[p].is /\ ~slab[p].frozen /\ slab[p].lock = None
        /\ \A d \in Cpus : cpu_slab[d].page # p
    BY <1>3, <1>5, <2>2, Zenon DEF Placed, Unlocked, SlabOK
  <2>4. /\ r \in OpType /\ r.pc = "load" /\ r.x = None /\ ~r.discard /\ r.after = "idle"
        /\ r.page = None
    BY Afresh, Zenon DEF Pcs
  <2>5. /\ s \in SlabType /\ s.is /\ s.lock = c /\ s.frozen /\ s.freelist = slab[p].freelist
        /\ s.inuse = slab[p].inuse
    BY <2>2, <2>3, Zenon DEF SlabType
  <2> HIDE DEF r, s
  <2>6. op'[c] = r /\ \A d \in Cpus : d # c => op'[d] = op[d]
    BY <1>2, <2>1, Zenon DEF Type
  <2>7. slab'[p] = s /\ \A q \in Slabs : q # p => slab'[q] = slab[q]
    BY <1>2, <1>3, <2>1, Zenon DEF Type
  <2>8. /\ cpu_slab'[c].page = p /\ cpu_slab'[c].freelist = {}
        /\ \A d \in Cpus : d # c => cpu_slab'[d] = cpu_slab[d]
        /\ cpu_slab' \in [Cpus -> CpuType]
    BY <1>2, <1>3, <2>1 DEF Type, CpuType
  <2>9. /\ node' \in NodeType /\ node'.list_lock = None /\ node'.nr_slabs = node.nr_slabs
        /\ node'.nr_partial = Len(node'.partial) /\ Distinct(node'.partial)
        /\ Partial' = Partial \ {p}
    <3>1. /\ node \in NodeType /\ node.partial \in Seq(Slabs) /\ Distinct(node.partial)
          /\ node.nr_partial = Len(node.partial) /\ Partial = Members(node.partial)
      BY <1>2, Zenon DEF List, NodeType, Partial, Members
    <3>2. Partial' = Members(node'.partial)
      BY Zenon DEF Partial, Members
    <3>3. /\ node'.partial = Without(node.partial, p) /\ node'.nr_partial = node.nr_partial - 1
          /\ node'.list_lock = None /\ node'.nr_slabs = node.nr_slabs
      BY <2>1, <3>1, Zenon DEF NodeType
    <3>4. p \in Members(node.partial)
      BY <1>3, <3>1, Zenon
    <3>5. /\ node'.partial \in Seq(Slabs) /\ Len(node'.partial) = Len(node.partial) - 1
          /\ Distinct(node'.partial) /\ Members(node'.partial) = Members(node.partial) \ {p}
      BY <3>1, <3>3, <3>4, Deleted
    <3>6. node'.nr_partial \in Int
      BY <3>1, <3>3 DEF NodeType
    <3>7. node' \in NodeType
      BY <2>1, <3>1, <3>3, <3>5, <3>6, Zenon DEF NodeType
    <3> QED BY <3>1, <3>2, <3>3, <3>5, <3>7, Zenon
  <2>10. Type'
    BY <1>2, <2>1, <2>4, <2>5, <2>8, Zenon DEF Type
  <2>11. Conserved'
    <3>1. \A d \in Cpus : op'[d].x = op[d].x /\ cpu_slab'[d].freelist = cpu_slab[d].freelist
      BY <1>3, <2>4, <2>6, <2>8, Zenon
    <3>2. \A q \in Slabs : slab'[q].freelist = slab[q].freelist /\ (slab'[q].is <=> slab[q].is)
      BY <2>3, <2>5, <2>7, Zenon
    <3>3. \A b \in Objects : SlabOf(b) \in Slabs
      BY Zenon DEF Objects, SlabOf
    <3> QED BY <1>2, <2>1, <3>1, <3>2, <3>3 DEF Conserved, Once, Somewhere
  <2>12. ASSUME NEW q \in Slabs
         PROVE  SlabOK(q)' /\ Placed(q)'
    <3>1. SlabOK(q) /\ Placed(q)
      BY Zenon DEF Core
    <3>2. CASE q = p
      <4>1. SlabOK(p)'
        BY <2>2, <2>3, <2>4, <2>5, <2>6, <2>7, <2>8, Zenon DEF SlabOK
      <4>2. Placed(p)'
        BY <2>5, <2>7, <2>9, Zenon DEF Placed
      <4> QED BY <3>2, <4>1, <4>2, Zenon
    <3>3. CASE q # p
      <4>1. SlabOK(q)'
        BY <1>2, <1>3, <2>6, <2>7, <2>8, <3>1, <3>3 DEF SlabOK, Holding, Constants, SlabConstants
      <4>2. Busy(q)' <=> Busy(q)
        BY <1>2, <2>4, <2>6, <2>7, <3>3, Zenon DEF Busy, At
      <4> QED BY <2>7, <2>9, <3>1, <3>3, <4>1, <4>2, Zenon DEF Placed
    <3> QED BY <3>2, <3>3, Zenon
  <2>13. ASSUME NEW d \in Cpus
         PROVE  Own(d)' /\ Doing(d)' /\ InHand(d)' /\ Sole(d)'
    <3>1. Own(d) /\ Doing(d) /\ InHand(d) /\ Sole(d)
      BY Zenon DEF Core
    <3>2. Own(d)'
      <4>1. cpu_slab[d].page # None => cpu_slab[d].page \in Slabs
        BY <1>2, Zenon DEF Type, CpuType
      <4>2. p # None
        BY <1>3, Zenon DEF Constants, SlabConstants
      <4> QED BY <2>3, <2>5, <2>7, <2>8, <3>1, <4>1, <4>2 DEF Own
    <3>3. Doing(d)'
      <4>1. p # None /\ d # None
        BY <1>3, Zenon DEF Constants, SlabConstants
      <4>2. CASE d = c
        BY <2>4, <2>6, <2>8, <2>9, <4>1, <4>2, Zenon DEF Doing
      <4>3. CASE d # c
        <5>1. op[d].pc # "scan"
          BY <1>3, <3>1, <4>3, Zenon DEF Doing
        <5> QED BY <2>6, <2>8, <2>9, <3>1, <4>1, <4>3, <5>1, Zenon DEF Doing
      <4> QED BY <4>2, <4>3, Zenon
    <3>4. InHand(d)'
      <4>1. CASE d = c
        BY <2>4, <2>6, <4>1, Zenon DEF InHand, Holding
      <4>2. CASE d # c
        <5>1. op[d].pc \in Holding \cup {"discard"} => op[d].page # p /\ op[d].page \in Slabs
          BY <1>3, <2>3, <3>1, <4>2, Zenon DEF InHand, Fits, Constants, SlabConstants, Holding
        <5> QED BY <2>6, <2>7, <2>9, <4>2, <5>1, OtherHand, Zenon
      <4> QED BY <4>1, <4>2, Zenon
    <3>5. Sole(d)'
      BY <2>4, <2>6, <3>1, Zenon DEF Sole
    <3> QED BY <3>2, <3>3, <3>4, <3>5, Zenon
  <2>14. List'
    <3>1. {q \in Slabs : slab'[q].is} = {q \in Slabs : slab[q].is}
      BY <2>3, <2>5, <2>7, Zenon
    <3> QED BY <1>2, <2>9, <3>1, Zenon DEF List
  <2> QED BY <2>10, <2>11, <2>12, <2>13, <2>14, Zenon DEF Core
<1> QED BY <1>4, <1>5, Zenon

(* new_slab                                                                *)
LEMMA NewSlabStep ==
    ASSUME Constants, Core, NEW c \in Cpus, NewSlab(c)
    PROVE  Core'
<1> DEFINE r == [Idle EXCEPT !.pc = "load"]
           new(q) == [is |-> TRUE, lock |-> c, frozen |-> TRUE, inuse |-> 0, freelist |-> Of(q)]
<1>1. PICK p \in Slabs : /\ ~slab[p].is /\ slab' = [slab EXCEPT ![p] = new(p)]
                         /\ cpu_slab' = [cpu_slab EXCEPT ![c].page = p]
  BY Zenon DEF NewSlab
<1>2. /\ Type /\ Conserved /\ Own(c) /\ Doing(c) /\ List /\ SlabOK(p) /\ Placed(p)
      /\ op[c].pc = "new_slab" /\ held' = held /\ op' = [op EXCEPT ![c] = r]
      /\ node' = [node EXCEPT !.nr_slabs = @ + 1]
  BY Zenon DEF Core, NewSlab, At, Become
<1>3. /\ op[c].x = None /\ cpu_slab[c].page = None /\ cpu_slab[c].freelist = {}
      /\ \A d \in Cpus : cpu_slab[d].page # p
      /\ p \notin Partial /\ p # None
  BY <1>1, <1>2, Zenon DEF Doing, Own, SlabOK, Placed, Constants, SlabConstants
<1>4. /\ r \in OpType /\ r.pc = "load" /\ r.x = None /\ ~r.discard /\ r.after = "idle"
  BY Afresh, Zenon DEF Pcs
<1> DEFINE s == new(p)
<1>5. /\ s \in SlabType /\ s.is /\ s.lock = c /\ s.frozen /\ s.freelist = Of(p) /\ s.inuse = 0
  <2>1. Of(p) \subseteq Objects
    BY OfSlab, Zenon
  <2> QED BY <2>1 DEF SlabType
<1>6. slab' = [slab EXCEPT ![p] = s]
  BY <1>1, Zenon
<1> HIDE DEF r, s
<1>7. op'[c] = r /\ \A d \in Cpus : d # c => op'[d] = op[d]
  BY <1>2, Zenon DEF Type
<1>8. slab'[p] = s /\ \A q \in Slabs : q # p => slab'[q] = slab[q]
  BY <1>2, <1>6, Zenon DEF Type
<1>9. /\ cpu_slab'[c].page = p /\ cpu_slab'[c].freelist = {}
      /\ \A d \in Cpus : d # c => cpu_slab'[d] = cpu_slab[d]
      /\ cpu_slab' \in [Cpus -> CpuType]
  BY <1>1, <1>2, <1>3, Zenon DEF Type, CpuType
<1>10. /\ node' \in NodeType /\ node'.partial = node.partial /\ node'.nr_partial = node.nr_partial
       /\ node'.list_lock = node.list_lock /\ node'.nr_slabs = node.nr_slabs + 1
       /\ Partial' = Partial
  BY <1>2 DEF List, NodeType, Partial
<1>11. Type'
  BY <1>2, <1>4, <1>5, <1>6, <1>9, Zenon DEF Type
<1>12. Conserved'
  <2>1. \A d \in Cpus : op'[d].x = op[d].x /\ cpu_slab'[d].freelist = cpu_slab[d].freelist
    BY <1>3, <1>4, <1>7, <1>9, Zenon
  <2>2. ASSUME NEW b \in Objects
        PROVE  Once(b)' /\ Somewhere(b)'
    <3>1. SlabOf(b) \in Slabs /\ Once(b) /\ Somewhere(b)
      BY <1>2, Zenon DEF Objects, SlabOf, Conserved
    <3>2. b \in Of(p) <=> SlabOf(b) = p
      BY OfSlab, Zenon
    <3> QED BY <1>1, <1>2, <1>5, <1>8, <2>1, <3>1, <3>2 DEF Once, Somewhere
  <2> QED BY <2>2, Zenon DEF Conserved
<1>13. ASSUME NEW q \in Slabs
       PROVE  SlabOK(q)' /\ Placed(q)'
  <2>1. SlabOK(q) /\ Placed(q)
    BY Zenon DEF Core
  <2>2. CASE q = p
    <3>1. Count - Cardinality(Of(p)) = 0
      BY OfSlab, FreeCount
    <3> QED BY <1>3, <1>4, <1>5, <1>7, <1>8, <1>9, <1>10, <2>2, <3>1 DEF SlabOK, Placed
  <2>3. CASE q # p
    <3>1. SlabOK(q)'
      BY <1>2, <1>3, <1>7, <1>8, <1>9, <2>1, <2>3 DEF SlabOK, Holding, Constants, SlabConstants
    <3>2. Busy(q)' <=> Busy(q)
      BY <1>2, <1>4, <1>7, <1>8, <2>3, Zenon DEF Busy, At
    <3> QED BY <1>8, <1>10, <2>1, <2>3, <3>1, <3>2, Zenon DEF Placed
  <2> QED BY <2>2, <2>3, Zenon
<1>14. ASSUME NEW d \in Cpus
       PROVE  Own(d)' /\ Doing(d)' /\ InHand(d)' /\ Sole(d)'
  <2>1. Own(d) /\ Doing(d) /\ InHand(d) /\ Sole(d)
    BY Zenon DEF Core
  <2>2. Own(d)'
    <3>1. cpu_slab[d].page # None => cpu_slab[d].page \in Slabs
      BY <1>2, Zenon DEF Type, CpuType
    <3> QED BY <1>3, <1>5, <1>8, <1>9, <2>1, <3>1 DEF Own
  <2>3. Doing(d)'
    BY <1>2, <1>3, <1>4, <1>7, <1>9, <1>10, <2>1 DEF Doing
  <2>4. InHand(d)'
    <3>1. CASE d = c
      BY <1>4, <1>7, <3>1, Zenon DEF InHand, Holding
    <3>2. CASE d # c
      <4>1. op[d].pc \in Holding \cup {"discard"} => op[d].page # p /\ op[d].page \in Slabs
        BY <1>1, <2>1, <3>2, Zenon DEF InHand, Fits
      <4> QED BY <1>7, <1>8, <1>10, <3>2, <4>1, OtherHand, Zenon
    <3> QED BY <3>1, <3>2, Zenon
  <2>5. Sole(d)'
    BY <1>4, <1>7, <2>1, Zenon DEF Sole
  <2> QED BY <2>2, <2>3, <2>4, <2>5, Zenon
<1>15. List'
  <2> DEFINE I == {q \in Slabs : slab[q].is}
  <2>1. {q \in Slabs : slab'[q].is} = I \cup {p}
    BY <1>5, <1>8, Zenon
  <2>2. I \in SUBSET Slabs /\ p \in Slabs \ I
    BY <1>1, Zenon
  <2>3. Cardinality(I \cup {p}) = Cardinality(I) + 1
    BY <2>2, SlabCount, Zenon
  <2> QED BY <1>2, <1>10, <2>1, <2>3, Zenon DEF List
<1> QED BY <1>11, <1>12, <1>13, <1>14, <1>15, Zenon DEF Core
=============================================================================
