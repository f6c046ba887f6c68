--------------------------- MODULE CrossCallProofs ---------------------------
(***************************************************************************)
(* Why CallsExact holds of CrossCall for any number of CPUs and of calls,  *)
(* whether or not handle_IPI takes the call interrupt to the queue.        *)
(*                                                                         *)
(* A csd travels: its owner locks it, it is pushed on one CPU's queue,     *)
(* that queue is taken as a whole and reversed, and its entries run and    *)
(* are unlocked in turn.  Flights(st) says that a csd under way is locked  *)
(* and at one place only, and that a function still owed is under way.     *)
(* Callers(st) says that the csd on a caller's stack is locked only while  *)
(* that caller waits for it, that a caller about to lock a csd is about to *)
(* lock one of its own, and that calls to many come from the boot CPU.     *)
(* Each operation is then a journey of one csd (QueueFlights, TakeFlights, *)
(* RunFlights, PopFlights) and a move of one caller (MoveCallers).         *)
(*                                                                         *)
(* The last section does the same for soft interrupts, the other work that *)
(* an interrupt leaves behind (SoftIrq).                                   *)
(***************************************************************************)
EXTENDS CrossCall, NaturalsInduction, WellFoundedInduction, TLAPS

(* A set of numbers that is not empty has a least element.                 *)
LEMMA LeastOf ==
    ASSUME NEW S \in SUBSET Nat, S # {}
    PROVE  \E i \in S : \A j \in S : i =< j
<1> DEFINE R == OpToRel(<, Nat)
<1>1. IsWellFoundedOn(R, Nat)
  BY NatLessThanWellFounded, Zenon
<1>2. PICK i \in S : \A j \in S : ~(<<j, i>> \in R)
  BY <1>1, WFMin, Zenon
<1>3. \A j \in S : ~(j < i)
  BY <1>2, Zenon DEF OpToRel
<1> QED BY <1>3

-----------------------------------------------------------------------------
(* The sequences queues are made of.                                       *)

(* What Range says of a sequence.                                          *)
LEMMA Elements ==
    ASSUME NEW S, NEW s \in Seq(S)
    PROVE  \A x : x \in Range(s) <=> \E i \in 1..Len(s) : x = s[i]
<1>1. DOMAIN s = 1..Len(s)
  OBVIOUS
<1> QED BY <1>1, Zenon DEF Range

(* What IsInjective says of a sequence.                                    *)
LEMMA Injective ==
    ASSUME NEW S, NEW s \in Seq(S)
    PROVE  IsInjective(s) <=> \A i, j \in 1..Len(s) : s[i] = s[j] => i = j
<1>1. DOMAIN s = 1..Len(s)
  OBVIOUS
<1> QED BY <1>1, Zenon DEF IsInjective

(* llist_add: the new entry is in front of the others.                     *)
LEMMA Pushed ==
    ASSUME NEW S, NEW q \in Seq(S), NEW t \in Seq(S), NEW d \in S,
           d \notin Range(q), d \notin Range(t), IsInjective(q \o t)
    PROVE  /\ <<d>> \o q \in Seq(S)
           /\ Range(<<d>> \o q) = {d} \cup Range(q)
           /\ IsInjective((<<d>> \o q) \o t)
<1> DEFINE p == <<d>> \o q
           s == q \o t
           u == p \o t
<1>1. /\ p \in Seq(S) /\ Len(p) = Len(q) + 1 /\ p[1] = d
      /\ \A i \in 1..Len(q) : p[i + 1] = q[i]
  OBVIOUS
<1>2. /\ s \in Seq(S) /\ Len(s) = Len(q) + Len(t)
      /\ \A i \in 1..Len(s) : s[i] = IF i <= Len(q) THEN q[i] ELSE t[i - Len(q)]
  OBVIOUS
<1>3. /\ u \in Seq(S) /\ Len(u) = Len(s) + 1 /\ u[1] = d
      /\ \A i \in 2..Len(u) : u[i] = s[i - 1]
  <2>1. u \in Seq(S) /\ Len(u) = Len(p) + Len(t)
    BY <1>1
  <2>2. \A i \in 1..Len(u) : u[i] = IF i <= Len(p) THEN p[i] ELSE t[i - Len(p)]
    BY <1>1
  <2>3. \A i \in 2..Len(p) : p[i] = q[i - 1]
    BY <1>1
  <2> HIDE DEF p, s, u
  <2>4. ASSUME NEW i \in 2..Len(u) PROVE u[i] = s[i - 1]
    <3>1. i \in 1..Len(u) /\ i - 1 \in 1..Len(s)
      BY <1>1, <1>2, <2>1
    <3> DEFINE j == i - 1
    <3> HIDE DEF j
    <3>2. s[j] = IF j <= Len(q) THEN q[j] ELSE t[j - Len(q)]
      BY <1>2, <3>1, Zenon DEF j
    <3>3. u[i] = IF i <= Len(p) THEN p[i] ELSE t[i - Len(p)]
      BY <2>2, <3>1, Zenon
    <3>4. i <= Len(p) => p[i] = q[j]
      BY <2>3 DEF j
    <3>5. (i <= Len(p) <=> j <= Len(q)) /\ i - Len(p) = j - Len(q)
      BY <1>1, <3>1 DEF j
    <3>6. CASE i <= Len(p)
      BY <3>2, <3>3, <3>4, <3>5, <3>6, Zenon DEF j
    <3>7. CASE ~(i <= Len(p))
      <4>1. u[i] = t[i - Len(p)] /\ s[j] = t[j - Len(q)]
        BY <3>2, <3>3, <3>5, <3>7, Zenon
      <4> QED BY <3>5, <4>1, Zenon DEF j
    <3> QED BY <3>6, <3>7, Zenon
  <2>5. u[1] = d /\ Len(u) = Len(s) + 1
    BY <1>1, <1>2, <2>1, <2>2
  <2> QED BY <2>1, <2>4, <2>5, Zenon
<1> HIDE DEF p, s, u
<1>4. \A i \in 2..Len(p) : i - 1 \in 1..Len(q) /\ p[i] = q[i - 1]
  BY <1>1
<1>5. \A x : x \in Range(p) <=> x = d \/ x \in Range(q)
  <2>1. ASSUME NEW i \in 1..Len(p) PROVE p[i] = d \/ \E j \in 1..Len(q) : p[i] = q[j]
    <3>1. i = 1 \/ i \in 2..Len(p)
      BY <1>1
    <3> QED BY <1>1, <1>4, <3>1, Zenon
  <2>2. \E i \in 1..Len(p) : p[i] = d
    BY <1>1
  <2>3. ASSUME NEW j \in 1..Len(q) PROVE \E i \in 1..Len(p) : p[i] = q[j]
    BY <1>1
  <2>6. p \in Seq(S)
    BY <1>1, Zenon
  <2>4. \A x : x \in Range(p) <=> \E i \in 1..Len(p) : x = p[i]
    BY <2>6, Elements, Zenon
  <2>5. \A x : x \in Range(q) <=> \E i \in 1..Len(q) : x = q[i]
    BY Elements, Zenon
  <2>7. TAKE x
  <2>8. ASSUME x \in Range(p) PROVE x = d \/ x \in Range(q)
    BY <2>1, <2>4, <2>5, <2>8, Zenon
  <2>9. ASSUME x = d \/ x \in Range(q) PROVE x \in Range(p)
    BY <2>2, <2>3, <2>4, <2>5, <2>9, Zenon
  <2> QED BY <2>8, <2>9, Zenon
<1>6. \A i \in 1..Len(s) : s[i] # d
  <2>1. \A i \in 1..Len(q) : q[i] # d
    BY Elements, Zenon
  <2>2. \A i \in 1..Len(t) : t[i] # d
    BY Elements, Zenon
  <2> QED BY <1>2, <2>1, <2>2
<1>7. \A i, j \in 1..Len(s) : s[i] = s[j] => i = j
  BY <1>2, Injective, Zenon DEF s
<1>8. \A i, j \in 1..Len(u) : u[i] = u[j] => i = j
  <2>1. \A i \in 1..Len(u) : i = 1 \/ (i \in 2..Len(u) /\ i - 1 \in 1..Len(s) /\ u[i] = s[i - 1])
    BY <1>2, <1>3
  <2> SUFFICES ASSUME NEW i \in 1..Len(u), NEW j \in 1..Len(u), u[i] = u[j] PROVE i = j
    BY Zenon
  <2>2. CASE i = 1 \/ j = 1
    BY <1>3, <1>6, <2>1, <2>2
  <2>3. CASE i # 1 /\ j # 1
    <3>1. s[i - 1] = s[j - 1] /\ i - 1 \in 1..Len(s) /\ j - 1 \in 1..Len(s)
      BY <2>1, <2>3, Zenon
    <3>2. i - 1 = j - 1
      BY <1>7, <3>1, Zenon
    <3> QED BY <3>2
  <2> QED BY <2>2, <2>3, Zenon
<1>9. IsInjective(u)
  BY <1>3, <1>8, Injective, Zenon
<1> QED BY <1>1, <1>5, <1>9, Zenon DEF p, u

(* llist_del_all and llist_reverse_order: the same entries, the other way. *)
LEMMA Reversed ==
    ASSUME NEW S, NEW q \in Seq(S), IsInjective(q \o <<>>)
    PROVE  /\ LlistReverseOrder(q) \in Seq(S)
           /\ Range(LlistReverseOrder(q)) = Range(q)
           /\ IsInjective(<<>> \o LlistReverseOrder(q))
<1> DEFINE r == LlistReverseOrder(q)
<1>1. /\ r \in Seq(S) /\ Len(r) = Len(q) /\ \A i \in 1..Len(q) : r[i] = q[(Len(q) - i) + 1]
  BY DEF LlistReverseOrder
<1>2. q \o <<>> = q /\ <<>> \o r = r
  BY <1>1
<1> HIDE DEF r
<1>3. ASSUME NEW i \in 1..Len(q)
      PROVE  (Len(q) - i) + 1 \in 1..Len(q) /\ q[i] = r[(Len(q) - i) + 1]
  <2> DEFINE j == (Len(q) - i) + 1
  <2>1. j \in 1..Len(q) /\ (Len(q) - j) + 1 = i
    OBVIOUS
  <2> HIDE DEF j
  <2>2. r[j] = q[(Len(q) - j) + 1]
    BY <1>1, <2>1, Zenon
  <2> QED BY <2>1, <2>2, Zenon DEF j
<1>4. \A x : x \in Range(r) <=> x \in Range(q)
  <2>3. r \in Seq(S) /\ Len(r) = Len(q)
    BY <1>1, Zenon
  <2>1. \A x : x \in Range(r) <=> \E i \in 1..Len(q) : x = r[i]
    BY <2>3, Elements, Zenon
  <2>5. \A x : x \in Range(q) <=> \E i \in 1..Len(q) : x = q[i]
    BY Elements, Zenon
  <2> QED BY <1>1, <1>3, <2>1, <2>5, Zenon
<1>5. \A i, j \in 1..Len(q) : q[i] = q[j] => i = j
  BY <1>2, Injective, Zenon
<1>6. \A i, j \in 1..Len(r) : r[i] = r[j] => i = j
  <2> SUFFICES ASSUME NEW i \in 1..Len(q), NEW j \in 1..Len(q), r[i] = r[j] PROVE i = j
    BY <1>1, Zenon
  <2>1. (Len(q) - i) + 1 = (Len(q) - j) + 1
    BY <1>1, <1>3, <1>5, ZenonT(30)
  <2> QED BY <2>1
<1>7. IsInjective(r)
  BY <1>1, <1>6, Injective, Zenon
<1> QED BY <1>1, <1>2, <1>4, <1>7, Zenon DEF r

(* The first entry that was taken is done with.                            *)
LEMMA Popped ==
    ASSUME NEW S, NEW q \in Seq(S), NEW t \in Seq(S), t # <<>>, IsInjective(q \o t)
    PROVE  /\ Tail(t) \in Seq(S) /\ Head(t) \in S
           /\ Range(t) = {Head(t)} \cup Range(Tail(t))
           /\ Head(t) \notin Range(Tail(t)) /\ Head(t) \notin Range(q)
           /\ IsInjective(q \o Tail(t))
<1> DEFINE r == Tail(t)
           s == q \o t
           u == q \o r
<1>1. /\ r \in Seq(S) /\ Len(t) = Len(r) + 1 /\ Head(t) = t[1] /\ Head(t) \in S
      /\ \A i \in 1..Len(r) : r[i] = t[i + 1]
  OBVIOUS
<1>2. /\ s \in Seq(S) /\ Len(s) = Len(q) + Len(t)
      /\ \A i \in 1..Len(q) : s[i] = q[i]
      /\ \A i \in 1..Len(t) : s[i + Len(q)] = t[i]
  OBVIOUS
<1>3. /\ u \in Seq(S) /\ Len(u) = Len(q) + Len(r)
      /\ \A i \in 1..Len(u) : u[i] = IF i <= Len(q) THEN q[i] ELSE r[i - Len(q)]
  BY <1>1
<1>4. \A i, j \in 1..Len(s) : s[i] = s[j] => i = j
  BY <1>2, Injective, Zenon
<1> HIDE DEF r, s, u
<1>5. \A x : x \in Range(t) <=> x = t[1] \/ x \in Range(r)
  <2>1. ASSUME NEW i \in 1..Len(t) PROVE t[i] = t[1] \/ \E j \in 1..Len(r) : t[i] = r[j]
    <3>1. i = 1 \/ (i - 1 \in 1..Len(r) /\ r[i - 1] = t[i])
      BY <1>1
    <3> QED BY <3>1, Zenon
  <2>2. ASSUME NEW j \in 1..Len(r) PROVE \E i \in 1..Len(t) : r[j] = t[i]
    BY <1>1
  <2>3. 1 \in 1..Len(t)
    BY <1>1
  <2>4. \A x : x \in Range(t) <=> \E i \in 1..Len(t) : x = t[i]
    BY Elements, Zenon
  <2>6. r \in Seq(S)
    BY <1>1, Zenon
  <2>5. \A x : x \in Range(r) <=> \E i \in 1..Len(r) : x = r[i]
    BY <2>6, Elements, Zenon
  <2>7. TAKE x
  <2>8. ASSUME x \in Range(t) PROVE x = t[1] \/ x \in Range(r)
    <3>1. PICK i \in 1..Len(t) : x = t[i]
      BY <2>4, <2>8, Zenon
    <3> QED BY <2>1, <2>5, <3>1, Zenon
  <2>9. ASSUME x = t[1] \/ x \in Range(r) PROVE x \in Range(t)
    BY <2>2, <2>3, <2>4, <2>5, <2>9, Zenon
  <2> QED BY <2>8, <2>9, Zenon
<1>6. \A i \in 1..Len(r) : r[i] # t[1]
  <2> SUFFICES ASSUME NEW i \in 1..Len(r), r[i] = t[1] PROVE FALSE
    BY Zenon
  <2>1. /\ i + 1 \in 1..Len(t) /\ 1 \in 1..Len(t) /\ (i + 1) + Len(q) \in 1..Len(s)
        /\ 1 + Len(q) \in 1..Len(s) /\ s[(i + 1) + Len(q)] = s[1 + Len(q)]
    BY <1>1, <1>2
  <2>2. (i + 1) + Len(q) = 1 + Len(q)
    BY <1>4, <2>1, Zenon
  <2> QED BY <2>2
<1>7. \A i \in 1..Len(q) : q[i] # t[1]
  <2> SUFFICES ASSUME NEW i \in 1..Len(q), q[i] = t[1] PROVE FALSE
    BY Zenon
  <2>1. 1 \in 1..Len(t) /\ i \in 1..Len(s) /\ 1 + Len(q) \in 1..Len(s) /\ s[i] = s[1 + Len(q)]
    BY <1>1, <1>2
  <2>2. i = 1 + Len(q)
    BY <1>4, <2>1, Zenon
  <2> QED BY <2>2
<1>8. \A i, j \in 1..Len(u) : u[i] = u[j] => i = j
  <2> DEFINE k(i) == IF i <= Len(q) THEN i ELSE i + 1
  <2>1. ASSUME NEW i \in 1..Len(u) PROVE k(i) \in 1..Len(s) /\ u[i] = s[k(i)]
    <3>1. CASE i <= Len(q)
      BY <1>1, <1>2, <1>3, <3>1
    <3>2. CASE ~(i <= Len(q))
      <4>1. i - Len(q) \in 1..Len(r) /\ u[i] = r[i - Len(q)]
        BY <1>3, <3>2
      <4>2. (i - Len(q)) + 1 \in 1..Len(t) /\ r[i - Len(q)] = t[(i - Len(q)) + 1]
        <5> DEFINE j == i - Len(q)
        <5>1. j \in 1..Len(r)
          BY <4>1, Zenon
        <5> HIDE DEF j
        <5>2. j + 1 \in 1..Len(t) /\ r[j] = t[j + 1]
          BY <1>1, <5>1
        <5> QED BY <5>2, Zenon DEF j
      <4>3. s[((i - Len(q)) + 1) + Len(q)] = t[(i - Len(q)) + 1]
        BY <1>2, <4>2
      <4> QED BY <1>2, <3>2, <4>1, <4>2, <4>3
    <3> QED BY <3>1, <3>2, Zenon
  <2> SUFFICES ASSUME NEW i \in 1..Len(u), NEW j \in 1..Len(u), u[i] = u[j] PROVE i = j
    BY Zenon
  <2>2. k(i) = k(j)
    <3> HIDE DEF k
    <3> QED BY <1>4, <2>1, Zenon
  <2> QED BY <1>3, <2>2
<1>9. IsInjective(u)
  BY <1>3, <1>8, Injective, Zenon
<1>10. t[1] \notin Range(r)
  <2>1. r \in Seq(S)
    BY <1>1, Zenon
  <2>2. \A x : x \in Range(r) <=> \E i \in 1..Len(r) : x = r[i]
    BY <2>1, Elements, Zenon
  <2> QED BY <1>6, <2>2, Zenon
<1>11. t[1] \notin Range(q)
  <2>1. \A x : x \in Range(q) <=> \E i \in 1..Len(q) : x = q[i]
    BY Elements, Zenon
  <2> QED BY <1>7, <2>1, Zenon
<1> QED BY <1>1, <1>5, <1>9, <1>10, <1>11, Zenon DEF r, u

-----------------------------------------------------------------------------
(* Least elements: for_each_cpu() starts with the first CPU of a mask.     *)
LEMMA FirstCpu ==
    ASSUME Cpus \subseteq Nat, NEW S \in SUBSET Cpus, S # {}
    PROVE  CpumaskFirst(S) \in S
BY LeastOf, Zenon DEF CpumaskFirst

(* The csds of different users are different.                              *)
LEMMA CsdNames ==
    ASSUME Boot \in Cpus, NEW c \in Cpus
    PROVE  /\ Stack(c) \in Csds /\ Data(c) \in Csds /\ Own(c) \in Csds
           /\ \A e \in Cpus : Stack(e) = Stack(c) => e = c
           /\ \A e \in Cpus : Stack(e) # Data(c) /\ Stack(e) # Own(c)
           /\ c # Boot => Pair(Boot, c) \in Csds /\ \A e \in Cpus : Stack(e) # Pair(Boot, c)
BY Zenon DEF Stack, Data, Own, Pair, Csds

CallerType ==
    [at : {"idle", "lock", "many", "wait", "stop"}, csd : Csds, to : Cpus, wait : BOOLEAN,
     todo : SUBSET (Cpus \cup Csds), mask : SUBSET Cpus, kick : SUBSET Cpus]

CallType ==
    [online : SUBSET Cpus, queue : [Cpus -> Seq(Csds)], ipi : SUBSET Cpus, stop : SUBSET Cpus,
     csd : [Csds -> [lock : BOOLEAN, sync : BOOLEAN]], taken : [Cpus -> Seq(Csds)],
     cur : [Cpus -> {"none", "unlock", "func"}], owed : SUBSET Csds, made : Nat,
     pc : [Cpus -> CallerType]]

Flying(st, c) == Range(st.queue[c]) \cup Range(st.taken[c])

(* A csd is under way once, and locked; a function that has to run is      *)
(* under way; and the one being unlocked has run.                          *)
Flights(st) ==
    /\ \A c, e \in Cpus : c # e => Flying(st, c) \cap Flying(st, e) = {}
    /\ \A c \in Cpus : IsInjective(st.queue[c] \o st.taken[c])
    /\ \A c \in Cpus : \A d \in Flying(st, c) : st.csd[d].lock
    /\ \A d \in st.owed : \E c \in Cpus : d \in Flying(st, c)
    /\ \A c \in Cpus : st.cur[c] = "unlock" =>
          st.taken[c] # <<>> /\ Head(st.taken[c]) \notin st.owed

(* The csd on a CPU's stack is in use only while the CPU waits for it.     *)
Callers(st) ==
    \A c \in Cpus :
       /\ st.csd[Stack(c)].lock => st.pc[c].at = "wait" /\ Stack(c) \in st.pc[c].todo
       /\ st.pc[c].at = "lock" => st.pc[c].csd \in {Data(c), Own(c)}
       /\ st.pc[c].at = "many" =>
             /\ c = Boot
             /\ st.pc[c].todo \subseteq Cpus \ {Boot} /\ st.pc[c].mask \subseteq Cpus \ {Boot}

CallInv(st) == st \in CallType /\ Flights(st) /\ Callers(st)

(* What a type-correct record gives.                                       *)
LEMMA FlyingTypes ==
    ASSUME NEW st \in CallType, NEW c \in Cpus
    PROVE  /\ st.queue[c] \in Seq(Csds) /\ st.taken[c] \in Seq(Csds)
           /\ Flying(st, c) \subseteq Csds
<1>1. st.queue[c] \in Seq(Csds) /\ st.taken[c] \in Seq(Csds)
  BY Zenon DEF CallType
<1>2. Range(st.queue[c]) \subseteq Csds
  BY <1>1, Elements
<1>3. Range(st.taken[c]) \subseteq Csds
  BY <1>1, Elements
<1> QED BY <1>1, <1>2, <1>3, Zenon DEF Flying

(* A sequence that is not empty contains its first element.                *)
LEMMA HeadTaken ==
    ASSUME NEW S, NEW s \in Seq(S), s # <<>>
    PROVE  Head(s) \in Range(s)
<1>1. Head(s) = s[1] /\ 1 \in 1..Len(s)
  OBVIOUS
<1> QED BY <1>1, Elements, Zenon

(* The empty sequence has no elements.                                     *)
LEMMA NoElements == Range(<<>>) = {}
<1>1. DOMAIN <<>> = {}
  OBVIOUS
<1> QED BY <1>1, Zenon DEF Range

(* Locks of csds that are not under way do not matter.                     *)
LEMMA SameFlights ==
    ASSUME NEW st \in CallType, Flights(st), NEW n, n.queue = st.queue, n.taken = st.taken, n.owed = st.owed,
           \A c \in Cpus : n.cur[c] = "unlock" => st.cur[c] = "unlock",
           \A c \in Cpus : \A d \in Flying(st, c) : n.csd[d].lock
    PROVE  Flights(n)
<1>1. \A c \in Cpus : Flying(n, c) = Flying(st, c)
  BY Zenon DEF Flying
<1> QED BY <1>1, Zenon DEF Flights

(* llist_add of a csd that is not under way.                               *)
LEMMA QueueFlights ==
    ASSUME NEW st \in CallType, Flights(st), NEW n, NEW t \in Cpus, NEW d \in Csds,
           \A c \in Cpus : d \notin Flying(st, c),
           n.queue = [st.queue EXCEPT ![t] = <<d>> \o @], n.taken = st.taken, n.cur = st.cur,
           n.owed = st.owed \cup {d}, n.csd[d].lock, \A x \in Csds \ {d} : n.csd[x] = st.csd[x]
    PROVE  Flights(n) /\ n.queue \in [Cpus -> Seq(Csds)]
<1> DEFINE q == <<d>> \o st.queue[t]
<1>1. /\ st.queue \in [Cpus -> Seq(Csds)] /\ st.queue[t] \in Seq(Csds) /\ st.taken[t] \in Seq(Csds)
      /\ \A c \in Cpus : Flying(st, c) \subseteq Csds
  BY FlyingTypes, Zenon DEF CallType
<1>2. d \notin Range(st.queue[t]) /\ d \notin Range(st.taken[t])
  BY Zenon DEF Flying
<1>3. IsInjective(st.queue[t] \o st.taken[t])
  BY Zenon DEF Flights
<1>4. q \in Seq(Csds) /\ Range(q) = {d} \cup Range(st.queue[t]) /\ IsInjective(q \o st.taken[t])
  BY <1>1, <1>2, <1>3, Pushed
<1>5. n.queue \in [Cpus -> Seq(Csds)] /\ n.queue[t] = q /\ \A c \in Cpus \ {t} : n.queue[c] = st.queue[c]
  BY <1>1, <1>4, Zenon
<1> HIDE DEF q
<1>6. Flying(n, t) = {d} \cup Flying(st, t) /\ \A c \in Cpus \ {t} : Flying(n, c) = Flying(st, c)
  BY <1>4, <1>5, Zenon DEF Flying
<1>7. \A c \in Cpus : IsInjective(n.queue[c] \o n.taken[c])
  BY <1>4, <1>5, Zenon DEF Flights
<1>8. \A c, e \in Cpus : c # e => Flying(n, c) \cap Flying(n, e) = {}
  BY <1>6 DEF Flights
<1>9. \A c \in Cpus : \A x \in Flying(n, c) : n.csd[x].lock
  BY <1>1, <1>6, Zenon DEF Flights
<1>10. \A x \in n.owed : \E c \in Cpus : x \in Flying(n, c)
  BY <1>6, Zenon DEF Flights
<1>11. ASSUME NEW c \in Cpus, n.cur[c] = "unlock"
       PROVE  n.taken[c] # <<>> /\ Head(n.taken[c]) \notin n.owed
  <2>1. st.taken[c] # <<>> /\ Head(st.taken[c]) \notin st.owed /\ st.taken[c] \in Seq(Csds)
    BY <1>11, FlyingTypes, Zenon DEF Flights
  <2>2. Head(st.taken[c]) \in Flying(st, c)
    BY <2>1, HeadTaken, Zenon DEF Flying
  <2> QED BY <2>1, <2>2
<1> QED BY <1>5, <1>7, <1>8, <1>9, <1>10, <1>11, Zenon DEF Flights

(* flush_smp_call_function_queue: the queue is taken whole, and reversed.  *)
LEMMA TakeFlights ==
    ASSUME NEW st \in CallType, Flights(st), NEW n, NEW c \in Cpus, st.taken[c] = <<>>,
           n.queue = [st.queue EXCEPT ![c] = <<>>], n.taken = [st.taken EXCEPT ![c] = LlistReverseOrder(st.queue[c])],
           n.cur = st.cur, n.owed = st.owed, n.csd = st.csd
    PROVE  Flights(n) /\ n.queue \in [Cpus -> Seq(Csds)] /\ n.taken \in [Cpus -> Seq(Csds)]
<1> DEFINE r == LlistReverseOrder(st.queue[c])
<1>1. /\ st.queue \in [Cpus -> Seq(Csds)] /\ st.taken \in [Cpus -> Seq(Csds)] /\ st.queue[c] \in Seq(Csds)
      /\ IsInjective(st.queue[c] \o <<>>)
  BY Zenon DEF CallType, Flights
<1>2. r \in Seq(Csds) /\ Range(r) = Range(st.queue[c]) /\ IsInjective(<<>> \o r)
  BY <1>1, Reversed, Zenon
<1> HIDE DEF r
<1>3. /\ n.queue \in [Cpus -> Seq(Csds)] /\ n.taken \in [Cpus -> Seq(Csds)]
      /\ n.queue[c] = <<>> /\ n.taken[c] = r
      /\ \A e \in Cpus \ {c} : n.queue[e] = st.queue[e] /\ n.taken[e] = st.taken[e]
  BY <1>1, <1>2 DEF r
<1>4. \A e \in Cpus : Flying(n, e) = Flying(st, e)
  BY <1>2, <1>3, NoElements DEF Flying
<1>5. \A e \in Cpus : IsInjective(n.queue[e] \o n.taken[e])
  BY <1>2, <1>3, Zenon DEF Flights
<1>6. \A e \in Cpus : n.cur[e] = "unlock" => n.taken[e] # <<>> /\ Head(n.taken[e]) \notin n.owed
  BY <1>3, Zenon DEF Flights
<1> QED BY <1>3, <1>4, <1>5, <1>6 DEF Flights

(* The function of a synchronous call has run.                             *)
LEMMA RunFlights ==
    ASSUME NEW st \in CallType, Flights(st), NEW n, NEW c \in Cpus, st.taken[c] # <<>>,
           n.queue = st.queue, n.taken = st.taken, n.csd = st.csd,
           n.cur = [st.cur EXCEPT ![c] = "unlock"], n.owed = st.owed \ {Head(st.taken[c])}
    PROVE  Flights(n)
<1>1. \A e \in Cpus : Flying(n, e) = Flying(st, e)
  BY Zenon DEF Flying
<1>2. \A e \in Cpus : n.cur[e] = "unlock" => e = c \/ st.cur[e] = "unlock"
  BY Zenon DEF CallType
<1> QED BY <1>1, <1>2, Zenon DEF Flights

(* An entry is done with: unlocked and dropped.                            *)
LEMMA PopFlights ==
    ASSUME NEW st \in CallType, Flights(st), NEW n, NEW c \in Cpus, st.taken[c] # <<>>,
           n.queue = st.queue, n.taken = [st.taken EXCEPT ![c] = Tail(@)],
           \A x \in Csds \ {Head(st.taken[c])} : n.csd[x] = st.csd[x],
           \A e \in Cpus : n.cur[e] = "unlock" => e # c /\ st.cur[e] = "unlock",
           n.owed = st.owed \ {Head(st.taken[c])}
    PROVE  Flights(n) /\ n.taken \in [Cpus -> Seq(Csds)]
<1> DEFINE d == Head(st.taken[c])
           r == Tail(st.taken[c])
<1>1. /\ st.taken \in [Cpus -> Seq(Csds)] /\ st.queue[c] \in Seq(Csds) /\ st.taken[c] \in Seq(Csds)
      /\ IsInjective(st.queue[c] \o st.taken[c])
      /\ \A e \in Cpus : Flying(st, e) \subseteq Csds
  BY FlyingTypes, Zenon DEF CallType, Flights
<1>2. /\ r \in Seq(Csds) /\ d \in Csds /\ Range(st.taken[c]) = {d} \cup Range(r)
      /\ d \notin Range(r) /\ d \notin Range(st.queue[c]) /\ IsInjective(st.queue[c] \o r)
  BY <1>1, Popped
<1>3. /\ n.taken \in [Cpus -> Seq(Csds)] /\ n.taken[c] = r
      /\ \A e \in Cpus \ {c} : n.taken[e] = st.taken[e]
  BY <1>1, <1>2, Zenon
<1> HIDE DEF d, r
<1>4. Flying(n, c) = Flying(st, c) \ {d} /\ \A e \in Cpus \ {c} : Flying(n, e) = Flying(st, e)
  BY <1>2, <1>3, Zenon DEF Flying
<1>5. \A e \in Cpus \ {c} : d \notin Flying(st, e)
  BY <1>2, Zenon DEF Flights, Flying
<1>6. \A e \in Cpus : IsInjective(n.queue[e] \o n.taken[e])
  BY <1>2, <1>3, Zenon DEF Flights
<1>7. \A a, e \in Cpus : a # e => Flying(n, a) \cap Flying(n, e) = {}
  BY <1>4 DEF Flights
<1>8. \A e \in Cpus : \A x \in Flying(n, e) : n.csd[x].lock
  BY <1>1, <1>4, <1>5 DEF Flights, d
<1>9. \A x \in n.owed : \E e \in Cpus : x \in Flying(n, e)
  BY <1>4, Zenon DEF Flights, d
<1>10. \A e \in Cpus : n.cur[e] = "unlock" => n.taken[e] # <<>> /\ Head(n.taken[e]) \notin n.owed
  BY <1>3, Zenon DEF Flights
<1> QED BY <1>3, <1>6, <1>7, <1>8, <1>9, <1>10, Zenon DEF Flights

-----------------------------------------------------------------------------
(* The steps.                                                              *)

(* The position of one caller changes.                                     *)
Moves(st, n, c) ==
    /\ n.pc = [st.pc EXCEPT ![c] = n.pc[c]] /\ n.pc[c] \in CallerType
    /\ n.pc[c].at = "lock" => n.pc[c].csd \in {Data(c), Own(c)}
    /\ n.pc[c].at = "many" =>
          /\ c = Boot
          /\ n.pc[c].todo \subseteq Cpus \ {Boot} /\ n.pc[c].mask \subseteq Cpus \ {Boot}

(* A caller that is not waiting for its stack's csd has it unlocked.       *)
LEMMA StackFree ==
    ASSUME NEW st, CallInv(st), NEW c \in Cpus, st.pc[c].at # "wait", Boot \in Cpus
    PROVE  /\ ~st.csd[Stack(c)].lock
           /\ \A e \in Cpus : Stack(c) \notin Flying(st, e)
BY Zenon DEF CallInv, Callers, Flights

(* A caller moves, and its stack's csd is free or waited for.              *)
LEMMA MoveCallers ==
    ASSUME NEW st, CallInv(st), Boot \in Cpus, NEW n, NEW c \in Cpus, Moves(st, n, c),
           \A e \in Cpus \ {c} : n.csd[Stack(e)].lock => st.csd[Stack(e)].lock,
           n.csd[Stack(c)].lock => n.pc[c].at = "wait" /\ Stack(c) \in n.pc[c].todo
    PROVE  Callers(n)
<1>1. st.pc \in [Cpus -> CallerType]
  BY Zenon DEF CallInv, CallType
<1>2. \A e \in Cpus \ {c} : n.pc[e] = st.pc[e]
  BY <1>1, Zenon DEF Moves
<1> QED BY <1>2 DEF Callers, CallInv, Moves

(* What the idle caller is.                                                *)
LEMMA IdleType ==
    ASSUME Boot \in Cpus
    PROVE  Idle \in CallerType /\ Idle.at = "idle" /\ Idle.todo = {} /\ Idle.wait = FALSE
BY CsdNames, Zenon DEF Idle, CallerType

(* generic_exec_single of a csd that is locked for this call and not under *)
(* way.                                                                    *)
LEMMA ExecStep ==
    ASSUME NEW st, CallInv(st), Boot \in Cpus, NEW c \in Cpus, NEW t \in Cpus, NEW d \in Csds,
           \A e \in Cpus : d \notin Flying(st, e),
           NEW sync \in BOOLEAN, ~st.csd[Stack(c)].lock,
           \/ sync /\ d = Stack(c)
           \/ ~sync /\ d \in {Data(c), Own(c)}
    PROVE  CallInv(GenericExecSingle(Lock(st, d, sync), c, t, d, sync))
<1> DEFINE l == Lock(st, d, sync)
           n == GenericExecSingle(l, c, t, d, sync)
<1>1. st \in CallType /\ Flights(st) /\ Callers(st)
  BY Zenon DEF CallInv
<1>2. /\ l \in CallType /\ l.csd = [st.csd EXCEPT ![d] = [lock |-> TRUE, sync |-> sync]]
      /\ l.queue = st.queue /\ l.taken = st.taken /\ l.cur = st.cur /\ l.owed = st.owed
      /\ l.pc = st.pc /\ l.online = st.online /\ l.ipi = st.ipi /\ l.stop = st.stop /\ l.made = st.made
  BY <1>1, Zenon DEF Lock, CallType
<1> HIDE DEF l
<1>3. /\ Idle \in CallerType /\ Idle.at = "idle"
  BY IdleType, Zenon
<1>4. CASE t = c \/ t \notin st.online
  <2>1. n = Return(CsdUnlock(l, d), c)
    BY <1>2, <1>4, Zenon DEF GenericExecSingle
  <2>2. /\ n \in CallType /\ n.csd = [st.csd EXCEPT ![d] = [lock |-> FALSE, sync |-> FALSE]]
        /\ n.queue = st.queue /\ n.taken = st.taken /\ n.cur = st.cur /\ n.owed = st.owed
        /\ n.pc = [st.pc EXCEPT ![c] = Idle]
    BY <1>2, <1>3, <2>1 DEF Return, CsdUnlock, CallType
  <2> HIDE DEF n
  <2>3. \A x \in Csds : n.csd[x].lock => st.csd[x].lock
    BY <1>1, <2>2 DEF CallType
  <2>4. \A x \in Csds \ {d} : n.csd[x] = st.csd[x]
    BY <1>1, <2>2, Zenon DEF CallType
  <2>5. Flights(n)
    <3>1. \A e \in Cpus : \A x \in Flying(st, e) : n.csd[x].lock
      BY <1>1, <2>4, FlyingTypes DEF Flights
    <3> QED BY <1>1, <2>2, <3>1, SameFlights, Zenon
  <2>6. Moves(st, n, c) /\ n.pc[c].at = "idle"
    BY <1>1, <1>3, <2>2, Zenon DEF Moves, CallType
  <2>7. Callers(n)
    BY <2>3, <2>6, CsdNames, MoveCallers, Zenon
  <2>8. CallInv(n)
    BY <2>2, <2>5, <2>7, Zenon DEF CallInv
  <2> QED BY <2>8, Zenon DEF n, l
<1>5. CASE ~(t = c \/ t \notin st.online)
  <2> DEFINE p == IF sync THEN [Idle EXCEPT !.at = "wait", !.todo = {d}] ELSE Idle
  <2>1. /\ p \in CallerType /\ p.at \in {"idle", "wait"}
        /\ sync => p.at = "wait" /\ p.todo = {d}
    BY IdleType, Zenon DEF CallerType
  <2>2. n = [LlistAdd(l, d, t) EXCEPT !.ipi = @ \cup SendIpi(l, t), !.pc[c] = p]
    BY <1>2, <1>5, Zenon DEF GenericExecSingle
  <2> HIDE DEF p
  <2>3. /\ n.queue = [l.queue EXCEPT ![t] = <<d>> \o @] /\ n.owed = l.owed \cup {d}
        /\ n.taken = l.taken /\ n.cur = l.cur /\ n.csd = l.csd /\ n.pc = [l.pc EXCEPT ![c] = p]
        /\ n.online = l.online /\ n.stop = l.stop /\ n.made = l.made /\ n.ipi = l.ipi \cup SendIpi(l, t)
        /\ n = [online |-> n.online, queue |-> n.queue, ipi |-> n.ipi, stop |-> n.stop, csd |-> n.csd,
                taken |-> n.taken, cur |-> n.cur, owed |-> n.owed, made |-> n.made, pc |-> n.pc]
    BY <1>2, <2>2, Zenon DEF LlistAdd, CallType
  <2> HIDE DEF n
  <2>4. n.csd[d].lock /\ \A x \in Csds \ {d} : n.csd[x] = st.csd[x]
    BY <1>1, <1>2, <2>3 DEF CallType
  <2>5. Flights(n) /\ n.queue \in [Cpus -> Seq(Csds)]
    <3>1. /\ n.queue = [st.queue EXCEPT ![t] = <<d>> \o @] /\ n.owed = st.owed \cup {d}
          /\ n.taken = st.taken /\ n.cur = st.cur
      BY <1>2, <2>3, Zenon
    <3> QED BY <1>1, <2>4, <3>1, QueueFlights, Zenon
  <2>6. n.pc \in [Cpus -> CallerType] /\ n.pc[c] = p
    BY <1>1, <1>2, <2>1, <2>3 DEF CallType
  <2>7. SendIpi(l, t) \in SUBSET Cpus
    BY Zenon DEF SendIpi
  <2>8. n \in CallType
    BY <1>2, <2>3, <2>5, <2>6, <2>7, Zenon DEF CallType
  <2>9. Moves(st, n, c)
    BY <1>2, <2>1, <2>3, <2>6, Zenon DEF Moves
  <2>10. Callers(n)
    <3>1. \A e \in Cpus \ {c} : n.csd[Stack(e)].lock => st.csd[Stack(e)].lock
      BY <2>4, CsdNames, Zenon
    <3>2. n.csd[Stack(c)].lock => n.pc[c].at = "wait" /\ Stack(c) \in n.pc[c].todo
      BY <2>1, <2>4, <2>6, CsdNames, Zenon
    <3> QED BY <2>9, <3>1, <3>2, MoveCallers, Zenon
  <2>11. CallInv(n)
    BY <2>5, <2>8, <2>10, Zenon DEF CallInv
  <2> QED BY <2>11, Zenon DEF n, l
<1> QED BY <1>4, <1>5, Zenon

(* A caller moves and leaves the csds alone.                               *)
LEMMA PcStep ==
    ASSUME NEW st, CallInv(st), Boot \in Cpus, NEW n \in CallType, NEW c \in Cpus, Moves(st, n, c),
           n.queue = st.queue, n.taken = st.taken, n.owed = st.owed, n.cur = st.cur, n.csd = st.csd,
           st.csd[Stack(c)].lock => n.pc[c].at = "wait" /\ Stack(c) \in n.pc[c].todo
    PROVE  CallInv(n)
<1>1. Flights(n)
  BY SameFlights, Zenon DEF CallInv, Flights
<1>2. Callers(n)
  BY MoveCallers, Zenon
<1> QED BY <1>1, <1>2, Zenon DEF CallInv

(* The count of calls is read by nobody.                                   *)
LEMMA MadeStep ==
    ASSUME NEW st, CallInv(st)
    PROVE  /\ CallInv(Made(st)) /\ Made(st).pc = st.pc /\ Made(st).csd = st.csd
           /\ Made(st).online = st.online /\ Made(st).queue = st.queue /\ Made(st).taken = st.taken
           /\ Made(st).stop = st.stop
<1> DEFINE n == Made(st)
<1>1. /\ n \in CallType /\ n.pc = st.pc /\ n.csd = st.csd /\ n.online = st.online /\ n.queue = st.queue
      /\ n.taken = st.taken /\ n.owed = st.owed /\ n.cur = st.cur /\ n.stop = st.stop
  <2>1. st \in CallType /\ st.made + 1 \in Nat
    BY DEF CallInv, CallType
  <2> QED BY <2>1, Zenon DEF Made, CallType
<1> HIDE DEF n
<1>2. Flights(n)
  BY <1>1, SameFlights, Zenon DEF CallInv, Flights
<1>3. Callers(n)
  BY <1>1, Zenon DEF CallInv, Callers
<1>4. CallInv(n)
  BY <1>1, <1>2, <1>3, Zenon DEF CallInv
<1> QED BY <1>1, <1>4, Zenon DEF n

(* smp_call_function_single by a CPU that is in no other call.             *)
LEMMA SingleStep ==
    ASSUME NEW st, CallInv(st), Boot \in Cpus, NEW c \in Cpus, NEW t \in Cpus, NEW wait \in BOOLEAN,
           st.pc[c].at = "idle"
    PROVE  CallInv(SmpCallFunctionSingle(st, c, t, wait))
<1>1. ~st.csd[Stack(c)].lock /\ \A e \in Cpus : Stack(c) \notin Flying(st, e)
  BY StackFree, Zenon
<1>2. CASE wait
  <2>1. SmpCallFunctionSingle(st, c, t, wait) = GenericExecSingle(Lock(st, Stack(c), TRUE), c, t, Stack(c), TRUE)
    BY <1>2, Zenon DEF SmpCallFunctionSingle
  <2>2. Stack(c) \in Csds
    BY CsdNames, Zenon
  <2> QED BY <1>1, <2>1, <2>2, ExecStep, Zenon
<1>3. CASE ~wait
  <2> DEFINE p == [Idle EXCEPT !.at = "lock", !.csd = Data(c), !.to = t]
             n == [st EXCEPT !.pc[c] = p]
  <2>1. SmpCallFunctionSingle(st, c, t, wait) = n
    BY <1>3, Zenon DEF SmpCallFunctionSingle
  <2>2. p \in CallerType /\ p.at = "lock" /\ p.csd = Data(c)
    BY IdleType, CsdNames, Zenon DEF CallerType
  <2> HIDE DEF p
  <2>3. /\ n \in CallType /\ n.queue = st.queue /\ n.taken = st.taken /\ n.owed = st.owed /\ n.cur = st.cur
        /\ n.csd = st.csd /\ n.pc = [st.pc EXCEPT ![c] = p] /\ n.pc[c] = p
    BY <2>2, Zenon DEF CallInv, CallType
  <2> HIDE DEF n
  <2>4. Moves(st, n, c)
    BY <2>2, <2>3, Zenon DEF Moves
  <2>5. CallInv(n)
    BY <1>1, <2>3, <2>4, PcStep, Zenon
  <2> QED BY <2>1, <2>5, Zenon
<1> QED BY <1>2, <1>3, Zenon

(* smp_call_function_single, waiting or not.                               *)
LEMMA CallSingleStep ==
    ASSUME CallInv(call), Boot \in Cpus, NEW c \in Cpus, CallSingle(c)
    PROVE  CallInv(call')
<1>1. PICK t \in Cpus, wait \in BOOLEAN : call' = SmpCallFunctionSingle(Made(call), c, t, wait)
  BY Zenon DEF CallSingle
<1>2. CallInv(Made(call)) /\ Made(call).pc[c].at = "idle"
  BY MadeStep, Zenon DEF CallSingle, MayCall, At
<1> QED BY <1>1, <1>2, SingleStep, Zenon

(* smp_call_function_single_async.                                         *)
LEMMA CallAsyncStep ==
    ASSUME CallInv(call), Boot \in Cpus, NEW c \in Cpus, CallAsync(c)
    PROVE  CallInv(call')
<1> DEFINE st == Made(call)
<1>1. CallInv(st) /\ st.pc[c].at = "idle"
  BY MadeStep, Zenon DEF CallAsync, MayCall, At
<1>2. PICK t \in Cpus : call' = [st EXCEPT !.pc[c] = [Idle EXCEPT !.at = "lock", !.csd = Own(c), !.to = t]]
  BY Zenon DEF CallAsync
<1> HIDE DEF st
<1> DEFINE p == [Idle EXCEPT !.at = "lock", !.csd = Own(c), !.to = t]
<1>3. p \in CallerType /\ p.at = "lock" /\ p.csd = Own(c)
  BY IdleType, CsdNames, Zenon DEF CallerType
<1> HIDE DEF p
<1>4. call' = [st EXCEPT !.pc[c] = p]
  BY <1>2, Zenon DEF p
<1>5. /\ call' \in CallType /\ call'.queue = st.queue /\ call'.taken = st.taken /\ call'.owed = st.owed
      /\ call'.cur = st.cur /\ call'.csd = st.csd /\ call'.pc = [st.pc EXCEPT ![c] = p] /\ call'.pc[c] = p
  BY <1>1, <1>3, <1>4, Zenon DEF CallInv, CallType
<1>6. Moves(st, call', c)
  BY <1>3, <1>5, Zenon DEF Moves
<1>7. ~st.csd[Stack(c)].lock
  BY <1>1, StackFree, Zenon
<1> QED BY <1>1, <1>5, <1>6, <1>7, PcStep, Zenon

(* csd_lock has found the csd free.                                        *)
LEMMA CsdLockStep ==
    ASSUME CallInv(call), Boot \in Cpus, NEW c \in Cpus, CsdLock(c)
    PROVE  CallInv(call')
<1> DEFINE d == call.pc[c].csd
           t == call.pc[c].to
<1>1. /\ call.pc[c].at = "lock" /\ ~call.csd[d].lock
      /\ call' = GenericExecSingle(Lock(call, d, FALSE), c, t, d, FALSE)
  BY Zenon DEF CsdLock, At, Locked
<1>2. d \in {Data(c), Own(c)} /\ d \in Csds /\ t \in Cpus
  BY <1>1, CsdNames, Zenon DEF CallInv, Callers, CallType, CallerType
<1>3. \A e \in Cpus : d \notin Flying(call, e)
  BY <1>1, Zenon DEF CallInv, Flights
<1>4. ~call.csd[Stack(c)].lock
  BY <1>1, StackFree, Zenon
<1> HIDE DEF d, t
<1> QED BY <1>1, <1>2, <1>3, <1>4, ExecStep, Zenon

(* smp_call_function_many: one CPU, or several that are queued in turn.    *)
LEMMA CallManyStep ==
    ASSUME CallInv(call), Boot \in Cpus, Cpus \subseteq Nat, NEW c \in Cpus, CallMany(c)
    PROVE  CallInv(call')
<1> DEFINE st == Made(call)
<1>1. CallInv(st) /\ st.pc[c].at = "idle"
  BY MadeStep, Zenon DEF CallMany, MayCall, At
<1>2. PICK mask \in SUBSET Cpus, wait \in BOOLEAN :
         LET others == (mask \cap call.online) \ {c}
         IN  /\ others # {}
             /\ IF Cardinality(others) = 1
                THEN call' = SmpCallFunctionSingle(st, c, CpumaskFirst(others), wait)
                ELSE /\ c = Boot
                     /\ call' = [st EXCEPT !.pc[c] =
                          [Idle EXCEPT !.at = "many", !.todo = others, !.mask = others,
                                       !.wait = wait]]
  BY Zenon DEF CallMany
<1> HIDE DEF st
<1> DEFINE others == (mask \cap call.online) \ {c}
<1>3. others # {} /\ others \in SUBSET Cpus /\ c \notin others
  BY <1>2, Zenon
<1>4. CASE Cardinality(others) = 1
  <2>1. call' = SmpCallFunctionSingle(st, c, CpumaskFirst(others), wait)
    BY <1>2, <1>4, Zenon
  <2>2. CpumaskFirst(others) \in Cpus
    BY <1>3, FirstCpu, Zenon
  <2> QED BY <1>1, <2>1, <2>2, SingleStep, Zenon
<1>5. CASE Cardinality(others) # 1
  <2> DEFINE p == [Idle EXCEPT !.at = "many", !.todo = others, !.mask = others, !.wait = wait]
  <2>1. c = Boot /\ call' = [st EXCEPT !.pc[c] = p]
    BY <1>2, <1>5, Zenon
  <2> HIDE DEF others
  <2>2. p \in CallerType /\ p.at = "many" /\ p.todo = others /\ p.mask = others
    BY <1>3, IdleType, Zenon DEF CallerType
  <2> HIDE DEF p
  <2>3. /\ call' \in CallType /\ call'.queue = st.queue /\ call'.taken = st.taken /\ call'.owed = st.owed
        /\ call'.cur = st.cur /\ call'.csd = st.csd /\ call'.pc = [st.pc EXCEPT ![c] = p] /\ call'.pc[c] = p
    BY <1>1, <2>1, <2>2, Zenon DEF CallInv, CallType
  <2>4. Moves(st, call', c)
    BY <1>3, <2>1, <2>2, <2>3, Zenon DEF Moves
  <2>5. ~st.csd[Stack(c)].lock
    BY <1>1, StackFree, Zenon
  <2> QED BY <1>1, <2>3, <2>4, <2>5, PcStep, Zenon
<1> QED BY <1>4, <1>5, Zenon

(* One target of a call to several CPUs is queued.                         *)
LEMMA ManyQueueStep ==
    ASSUME CallInv(call), Boot \in Cpus, Cpus \subseteq Nat, NEW c \in Cpus, ManyQueue(c)
    PROVE  CallInv(call')
<1> DEFINE p == call.pc[c]
           t == CpumaskFirst(p.todo)
           d == Pair(c, t)
           l == Lock(call, d, p.wait)
           r == [p EXCEPT !.todo = @ \ {t}, !.kick = @ \cup SendIpi(call, t)]
<1>1. /\ call \in CallType /\ Flights(call) /\ Callers(call) /\ p \in CallerType
      /\ p.at = "many" /\ p.todo # {} /\ ~call.csd[d].lock
      /\ c = Boot /\ p.todo \subseteq Cpus \ {Boot} /\ p.mask \subseteq Cpus \ {Boot}
  BY Zenon DEF CallInv, CallType, Callers, ManyQueue, At, Locked
<1>2. t \in Cpus /\ t # Boot /\ t \in p.todo
  BY <1>1, FirstCpu, Zenon
<1>3. d \in Csds /\ \A e \in Cpus : Stack(e) # d
  BY <1>1, <1>2, CsdNames, Zenon
<1>4. call' = [LlistAdd(l, d, t) EXCEPT !.pc[c].todo = @ \ {t}, !.pc[c].kick = @ \cup SendIpi(call, t)]
  BY Zenon DEF ManyQueue
<1>5. /\ r \in CallerType /\ r.at = "many"
      /\ r.todo \subseteq Cpus \ {Boot} /\ r.mask \subseteq Cpus \ {Boot}
  BY <1>1, <1>2, Zenon DEF CallerType, SendIpi
<1> HIDE DEF t, d
<1>6. /\ l \in CallType /\ l.csd = [call.csd EXCEPT ![d] = [lock |-> TRUE, sync |-> p.wait]]
      /\ l.queue = call.queue /\ l.taken = call.taken /\ l.cur = call.cur /\ l.owed = call.owed
      /\ l.pc = call.pc
  BY <1>1, <1>3, Zenon DEF Lock, CallType, CallerType
<1> HIDE DEF l
<1>7. /\ call'.queue = [l.queue EXCEPT ![t] = <<d>> \o @] /\ call'.owed = l.owed \cup {d}
      /\ call'.taken = l.taken /\ call'.cur = l.cur /\ call'.csd = l.csd /\ call'.pc = [l.pc EXCEPT ![c] = r]
      /\ call'.online = l.online /\ call'.stop = l.stop /\ call'.made = l.made /\ call'.ipi = l.ipi
      /\ call' = [online |-> call'.online, queue |-> call'.queue, ipi |-> call'.ipi, stop |-> call'.stop,
                  csd |-> call'.csd, taken |-> call'.taken, cur |-> call'.cur, owed |-> call'.owed,
                  made |-> call'.made, pc |-> call'.pc]
  BY <1>4, <1>6, Zenon DEF LlistAdd, CallType, CallerType
<1> HIDE DEF r
<1>8. call'.csd[d].lock /\ \A x \in Csds \ {d} : call'.csd[x] = call.csd[x]
  BY <1>1, <1>3, <1>6, <1>7 DEF CallType
<1>9. Flights(call') /\ call'.queue \in [Cpus -> Seq(Csds)]
  <2>1. /\ call'.queue = [call.queue EXCEPT ![t] = <<d>> \o @] /\ call'.owed = call.owed \cup {d}
        /\ call'.taken = call.taken /\ call'.cur = call.cur
    BY <1>6, <1>7, Zenon
  <2>2. \A e \in Cpus : d \notin Flying(call, e)
    BY <1>1, Zenon DEF Flights
  <2> QED BY <1>1, <1>2, <1>3, <1>8, <2>1, <2>2, QueueFlights, Zenon
<1>10. call'.pc \in [Cpus -> CallerType] /\ call'.pc[c] = r
  BY <1>1, <1>5, <1>6, <1>7 DEF CallType
<1>11. call' \in CallType
  BY <1>3, <1>6, <1>7, <1>9, <1>10, Zenon DEF CallType
<1>12. Moves(call, call', c)
  BY <1>1, <1>5, <1>6, <1>7, <1>10, Zenon DEF Moves
<1>13. \A e \in Cpus : call'.csd[Stack(e)].lock => call.csd[Stack(e)].lock
  BY <1>3, <1>8, CsdNames, Zenon
<1>14. ~call.csd[Stack(c)].lock
  BY <1>1, StackFree, Zenon
<1>15. Callers(call')
  BY <1>12, <1>13, <1>14, MoveCallers, Zenon
<1> QED BY <1>9, <1>11, <1>15, Zenon DEF CallInv

(* The interrupts are sent, and the caller waits or returns.               *)
LEMMA ManySendStep ==
    ASSUME CallInv(call), Boot \in Cpus, NEW c \in Cpus, ManySend(c)
    PROVE  CallInv(call')
<1> DEFINE p == call.pc[c]
           r == IF p.wait THEN [Idle EXCEPT !.at = "wait", !.todo = {Pair(c, t) : t \in p.mask}] ELSE Idle
<1>1. /\ call \in CallType /\ p \in CallerType /\ p.at = "many" /\ c = Boot
      /\ p.mask \subseteq Cpus \ {Boot}
      /\ call' = [call EXCEPT !.ipi = @ \cup p.kick, !.pc[c] = r]
  BY Zenon DEF CallInv, CallType, Callers, ManySend, At
<1>2. \A t \in p.mask : Pair(c, t) \in Csds
  BY <1>1, CsdNames, Zenon DEF CallerType
<1>3. r \in CallerType /\ r.at \in {"wait", "idle"}
  <2>1. CASE ~p.wait
    BY <2>1, IdleType, Zenon
  <2>2. CASE p.wait
    <3> DEFINE w == {Pair(c, t) : t \in p.mask}
    <3>1. w \in SUBSET Csds
      BY <1>1, <1>2, Zenon
    <3> HIDE DEF w
    <3>2. r = [Idle EXCEPT !.at = "wait", !.todo = w]
      BY <2>2, Zenon DEF w
    <3> QED BY <3>1, <3>2, IdleType, Zenon DEF CallerType
  <2> QED BY <2>1, <2>2, Zenon
<1> HIDE DEF r
<1>4. /\ call' \in CallType /\ call'.queue = call.queue /\ call'.taken = call.taken
      /\ call'.owed = call.owed /\ call'.cur = call.cur /\ call'.csd = call.csd
      /\ call'.pc = [call.pc EXCEPT ![c] = r] /\ call'.pc[c] = r
  BY <1>1, <1>3, Zenon DEF CallType, CallerType
<1>5. Moves(call, call', c)
  BY <1>3, <1>4, Zenon DEF Moves
<1>6. ~call.csd[Stack(c)].lock
  BY <1>1, StackFree, Zenon
<1> QED BY <1>4, <1>5, <1>6, PcStep, Zenon

(* csd_lock_wait and smp_send_stop return.                                 *)
LEMMA WaitStep ==
    ASSUME CallInv(call), Boot \in Cpus, NEW c \in Cpus, CsdLockWait(c) \/ StopWait(c)
    PROVE  CallInv(call')
<1>1. call' = Return(call, c) /\ Idle \in CallerType /\ Idle.at = "idle" /\ call \in CallType
  BY IdleType, Zenon DEF CsdLockWait, StopWait, CallInv
<1>2. ~call.csd[Stack(c)].lock
  BY StackFree, Zenon DEF CsdLockWait, StopWait, At, CallInv, Callers, Locked
<1>3. /\ call' \in CallType /\ call'.queue = call.queue /\ call'.taken = call.taken
      /\ call'.owed = call.owed /\ call'.cur = call.cur /\ call'.csd = call.csd
      /\ call'.pc = [call.pc EXCEPT ![c] = Idle] /\ call'.pc[c] = Idle
  BY <1>1, Zenon DEF Return, CallType
<1>4. Moves(call, call', c)
  BY <1>1, <1>3, Zenon DEF Moves
<1> QED BY <1>2, <1>3, <1>4, PcStep, Zenon

(* smp_send_stop interrupts the others.                                    *)
LEMMA SendStopStep ==
    ASSUME CallInv(call), Boot \in Cpus, NEW c \in Cpus, SmpSendStop(c)
    PROVE  CallInv(call')
<1> DEFINE st == Made(call)
           p == [Idle EXCEPT !.at = "stop"]
<1>1. CallInv(st) /\ st.pc[c].at = "idle" /\ call.online \in SUBSET Cpus
  BY MadeStep, Zenon DEF SmpSendStop, MayCall, At, CallInv, CallType
<1>2. call' = [st EXCEPT !.stop = @ \cup (call.online \ {c}), !.pc[c] = p]
  BY Zenon DEF SmpSendStop
<1> HIDE DEF st
<1>3. p \in CallerType /\ p.at = "stop"
  BY IdleType, Zenon DEF CallerType
<1> HIDE DEF p
<1>4. /\ call' \in CallType /\ call'.queue = st.queue /\ call'.taken = st.taken /\ call'.owed = st.owed
      /\ call'.cur = st.cur /\ call'.csd = st.csd /\ call'.pc = [st.pc EXCEPT ![c] = p] /\ call'.pc[c] = p
  BY <1>1, <1>2, <1>3, Zenon DEF CallInv, CallType
<1>5. Moves(st, call', c)
  BY <1>3, <1>4, Zenon DEF Moves
<1>6. ~st.csd[Stack(c)].lock
  BY <1>1, StackFree, Zenon
<1> QED BY <1>1, <1>4, <1>5, <1>6, PcStep, Zenon

(* The masks of CPUs are read by no part of the invariant.                 *)
LEMMA MaskStep ==
    ASSUME CallInv(call), NEW c \in Cpus,
           \/ call' = [call EXCEPT !.ipi = @ \ {c}]
           \/ call' = [call EXCEPT !.stop = @ \ {c}, !.online = @ \ {c}]
    PROVE  CallInv(call')
<1>1. /\ call' \in CallType /\ call'.queue = call.queue /\ call'.taken = call.taken
      /\ call'.owed = call.owed /\ call'.cur = call.cur /\ call'.csd = call.csd /\ call'.pc = call.pc
  <2>1. call \in CallType
    BY Zenon DEF CallInv
  <2>2. CASE call' = [call EXCEPT !.ipi = @ \ {c}]
    BY <2>1, <2>2, Zenon DEF CallType
  <2>3. CASE call' = [call EXCEPT !.stop = @ \ {c}, !.online = @ \ {c}]
    BY <2>1, <2>3, Zenon DEF CallType
  <2> QED BY <2>2, <2>3, Zenon
<1>2. Flights(call')
  BY <1>1, SameFlights, Zenon DEF CallInv, Flights
<1>3. Callers(call')
  BY <1>1, Zenon DEF CallInv, Callers
<1> QED BY <1>1, <1>2, <1>3, Zenon DEF CallInv

(* handle_IPI takes the queue, if the interrupt is wired.                  *)
LEMMA HandleCallIpiStep ==
    ASSUME CallInv(call), Boot \in Cpus, NEW c \in Cpus, HandleCallIpi(c)
    PROVE  CallInv(call')
<1>1. call \in CallType /\ call.taken[c] = <<>> /\ Flights(call)
  BY Zenon DEF CallInv, HandleCallIpi, InTask
<1>2. CASE Wired
  <2>1. call' = [call EXCEPT !.ipi = @ \ {c}, !.taken[c] = LlistReverseOrder(call.queue[c]), !.queue[c] = <<>>]
    BY <1>2, Zenon DEF HandleCallIpi
  <2>2. /\ call'.queue = [call.queue EXCEPT ![c] = <<>>]
        /\ call'.taken = [call.taken EXCEPT ![c] = LlistReverseOrder(call.queue[c])]
        /\ call'.cur = call.cur /\ call'.owed = call.owed /\ call'.csd = call.csd /\ call'.pc = call.pc
        /\ call'.online = call.online /\ call'.stop = call.stop /\ call'.made = call.made
        /\ call'.ipi \in SUBSET Cpus
        /\ call' = [online |-> call'.online, queue |-> call'.queue, ipi |-> call'.ipi, stop |-> call'.stop,
                    csd |-> call'.csd, taken |-> call'.taken, cur |-> call'.cur, owed |-> call'.owed,
                    made |-> call'.made, pc |-> call'.pc]
    BY <1>1, <2>1, Zenon DEF CallType
  <2>3. /\ Flights(call') /\ call'.queue \in [Cpus -> Seq(Csds)]
        /\ call'.taken \in [Cpus -> Seq(Csds)]
    BY <1>1, <2>2, TakeFlights, Zenon
  <2>4. call' \in CallType
    BY <1>1, <2>2, <2>3, Zenon DEF CallType
  <2>5. Callers(call')
    BY <2>2, Zenon DEF CallInv, Callers
  <2> QED BY <2>3, <2>4, <2>5, Zenon DEF CallInv
<1>3. CASE ~Wired
  <2>1. call' = [call EXCEPT !.ipi = @ \ {c}]
    BY <1>3, Zenon DEF HandleCallIpi
  <2> QED BY <1>1, <2>1, MaskStep, Zenon
<1> QED BY <1>2, <1>3, Zenon

(* ipi_cpu_stop takes the CPU offline.                                     *)
LEMMA IpiCpuStopStep ==
    ASSUME CallInv(call), NEW c \in Cpus, IpiCpuStop(c)
    PROVE  CallInv(call')
BY MaskStep, Zenon DEF IpiCpuStop

(* One step of flush_smp_call_function_queue.                              *)
LEMMA FlushStep ==
    ASSUME CallInv(call), Boot \in Cpus, NEW c \in Cpus, Flush(c)
    PROVE  CallInv(call')
<1>1. call \in CallType /\ Flights(call) /\ Callers(call)
  BY Zenon DEF CallInv
<1>2. CASE call.cur[c] = "func" /\ call' = [call EXCEPT !.cur[c] = "none"]
  <2>1. /\ call' \in CallType /\ call'.queue = call.queue /\ call'.taken = call.taken
        /\ call'.owed = call.owed /\ call'.csd = call.csd /\ call'.pc = call.pc
        /\ \A e \in Cpus : call'.cur[e] = "unlock" => call.cur[e] = "unlock"
    BY <1>1, <1>2, Zenon DEF CallType
  <2>2. Flights(call')
    BY <1>1, <2>1, SameFlights, Zenon DEF Flights
  <2>3. Callers(call')
    BY <1>1, <2>1, Zenon DEF Callers
  <2> QED BY <2>1, <2>2, <2>3, Zenon DEF CallInv
<1>3. CASE /\ call.taken[c] # <<>> /\ call.cur[c] # "func"
           /\ call' = FlushEntry(call, c, Head(call.taken[c]))
  <2> DEFINE d == Head(call.taken[c])
  <2>1. d \in Csds
    BY <1>1, <1>3 DEF CallType
  <2>2. CASE call.cur[c] # "unlock" /\ call.csd[d].sync
    <3>1. call' = [call EXCEPT !.owed = @ \ {d}, !.cur[c] = "unlock"]
      BY <1>3, <2>2, Zenon DEF FlushEntry
    <3>2. /\ call' \in CallType /\ call'.queue = call.queue /\ call'.taken = call.taken
          /\ call'.csd = call.csd /\ call'.pc = call.pc
          /\ call'.cur = [call.cur EXCEPT ![c] = "unlock"] /\ call'.owed = call.owed \ {d}
      BY <1>1, <3>1, Zenon DEF CallType
    <3>3. Flights(call')
      BY <1>1, <1>3, <3>2, RunFlights, Zenon
    <3>4. Callers(call')
      BY <1>1, <3>2, Zenon DEF Callers
    <3> QED BY <3>2, <3>3, <3>4, Zenon DEF CallInv
  <2>3. CASE call.cur[c] = "unlock" \/ ~call.csd[d].sync
    <3> DEFINE o == IF call.cur[c] = "unlock" THEN call.owed ELSE call.owed \ {d}
               k == IF call.cur[c] = "unlock" THEN "none" ELSE "func"
    <3>1. /\ call'.owed = o /\ call'.csd = [call.csd EXCEPT ![d] = [lock |-> FALSE, sync |-> FALSE]]
          /\ call'.taken = [call.taken EXCEPT ![c] = Tail(@)] /\ call'.cur = [call.cur EXCEPT ![c] = k]
          /\ call'.queue = call.queue /\ call'.pc = call.pc
          /\ call'.online = call.online /\ call'.ipi = call.ipi /\ call'.stop = call.stop
          /\ call'.made = call.made
          /\ call' = [online |-> call'.online, queue |-> call'.queue, ipi |-> call'.ipi, stop |-> call'.stop,
                      csd |-> call'.csd, taken |-> call'.taken, cur |-> call'.cur, owed |-> call'.owed,
                      made |-> call'.made, pc |-> call'.pc]
      <4>1. CASE call.cur[c] = "unlock"
        <5>1. call' = Pop(CsdUnlock(call, d), c, "none")
          BY <1>3, <4>1, Zenon DEF FlushEntry
        <5> QED BY <1>1, <4>1, <5>1, Zenon DEF Pop, CsdUnlock, CallType
      <4>2. CASE call.cur[c] # "unlock"
        <5>1. call' = Pop(CsdUnlock([call EXCEPT !.owed = @ \ {d}], d), c, "func")
          BY <1>3, <2>3, <4>2, Zenon DEF FlushEntry
        <5> QED BY <1>1, <4>2, <5>1, Zenon DEF Pop, CsdUnlock, CallType
      <4> QED BY <4>1, <4>2, Zenon
    <3>2. o = call.owed \ {d}
      BY <1>1, Zenon DEF Flights
    <3>3. k \in {"none", "func"}
      BY Zenon
    <3> HIDE DEF d, o, k
    <3>4. /\ \A x \in Csds \ {d} : call'.csd[x] = call.csd[x]
          /\ ~call'.csd[d].lock /\ call'.csd \in [Csds -> [lock : BOOLEAN, sync : BOOLEAN]]
      BY <1>1, <2>1, <3>1 DEF CallType
    <3>5. /\ \A e \in Cpus : call'.cur[e] = "unlock" => e # c /\ call.cur[e] = "unlock"
          /\ call'.cur \in [Cpus -> {"none", "unlock", "func"}]
      BY <1>1, <3>1, <3>3 DEF CallType
    <3>6. Flights(call') /\ call'.taken \in [Cpus -> Seq(Csds)]
      <4>1. /\ call.taken[c] # <<>> /\ call'.queue = call.queue
            /\ call'.taken = [call.taken EXCEPT ![c] = Tail(@)] /\ call'.owed = call.owed \ {d}
        BY <1>3, <3>1, <3>2, Zenon
      <4>2. d = Head(call.taken[c])
        BY Zenon DEF d
      <4> HIDE <1>3, <3>1
      <4> QED BY <1>1, <3>4, <3>5, <4>1, <4>2, PopFlights, Zenon
    <3>7. call' \in CallType
      BY <1>1, <3>1, <3>2, <3>4, <3>5, <3>6, Zenon DEF CallType
    <3>8. \A e \in Cpus : call'.csd[Stack(e)].lock => call.csd[Stack(e)].lock
      BY <3>4, CsdNames, Zenon
    <3>9. Callers(call')
      BY <1>1, <3>1, <3>8 DEF Callers
    <3> QED BY <3>6, <3>7, <3>9, Zenon DEF CallInv
  <2> QED BY <2>2, <2>3, Zenon
<1> QED BY <1>2, <1>3, Zenon DEF Flush

(* core/smp.c, for any number of CPUs and calls, whether the interrupt is  *)
(* wired or not: a csd is in use by one call at a time, a function that    *)
(* has still to run is under way, and a synchronous caller leaves only     *)
(* after it ran.                                                           *)
THEOREM Calls ==
    ASSUME Cpus \subseteq Nat, Boot \in Cpus
    PROVE  Spec => []CallsExact
<1> DEFINE I == CallInv(call)
<1>1. Init => I
  <2> SUFFICES ASSUME Init PROVE CallInv(call)
    BY Zenon
  <2>1. /\ call \in CallType /\ call.owed = {}
        /\ \A c \in Cpus : call.queue[c] = <<>> /\ call.taken[c] = <<>> /\ call.cur[c] = "none"
        /\ \A c \in Cpus : call.pc[c].at = "idle"
        /\ \A d \in Csds : ~call.csd[d].lock
    BY IdleType DEF Init, CallType
  <2>2. \A c \in Cpus : Flying(call, c) = {}
    BY <2>1, NoElements, Zenon DEF Flying
  <2>3. IsInjective(<<>> \o <<>>)
    BY DEF IsInjective
  <2>4. Flights(call)
    BY <2>1, <2>2, <2>3, Zenon DEF Flights
  <2>5. Callers(call)
    BY <2>1, CsdNames, Zenon DEF Callers
  <2> QED BY <2>1, <2>4, <2>5, Zenon DEF CallInv
<1>2. I /\ [Next]_call => I'
  <2>1. I /\ Next => I'
    BY CallSingleStep, CallAsyncStep, CallManyStep, SendStopStep, HandleCallIpiStep, IpiCpuStopStep,
       CsdLockStep, ManyQueueStep, ManySendStep, WaitStep, FlushStep, Zenon DEF Next, Step
  <2> QED BY <2>1, Zenon
<1>3. I => CallsExact
  <2> SUFFICES ASSUME CallInv(call) PROVE CallsExact
    BY Zenon
  <2>1. \A c \in Cpus : InFlight(c) = Flying(call, c)
    BY Zenon DEF InFlight, Flying
  <2>2. \A c \in Cpus : Range(call.queue[c]) \subseteq Flying(call, c)
    BY Zenon DEF Flying
  <2>3. \A c \in Cpus : call.pc[c].at # "wait" => Stack(c) \notin call.owed
    BY StackFree, Zenon DEF CallInv, Flights
  <2>4. \A c, e \in Cpus : c # e => InFlight(c) \cap InFlight(e) = {}
    BY <2>1, Zenon DEF CallInv, Flights
  <2>5. \A d \in call.owed : \E c \in Cpus : d \in InFlight(c)
    BY <2>1 DEF CallInv, Flights
  <2>6. \A c \in Cpus : \A d \in Range(call.queue[c]) : Locked(call, d)
    BY <2>2, Zenon DEF CallInv, Flights, Locked
  <2>7. \A c \in Cpus : IsInjective(call.queue[c] \o call.taken[c])
    BY Zenon DEF CallInv, Flights
  <2> QED BY <2>3, <2>4, <2>5, <2>6, <2>7, Zenon DEF CallsExact
<1> HIDE DEF I
<1> QED BY <1>1, <1>2, <1>3, PTL DEF Spec

-----------------------------------------------------------------------------
(* Soft interrupts.                                                        *)

CONSTANTS NrSoftirqs, MaxRestart, MaxBh

VARIABLE si

Soft == INSTANCE SoftIrq

(* Why SoftirqKept holds, for any number of vectors and restarts.  The     *)
(* invariant adds what ksoftirqd's own pass relies on: while it has the    *)
(* CPU it is on the run queue, and no bottom half is disabled.             *)

SoftType ==
    [pending : SUBSET Soft!Vectors, thread : {"none", "sleeping", "running"},
     runner : {"task", "ksoftirqd"}, bh : Nat,
     soft : [on : BOOLEAN, vecs : SUBSET Soft!Vectors, left : Nat],
     irq : BOOLEAN, ran : SUBSET Soft!Vectors]

Kept(s) ==
    /\ s \in SoftType
    /\ s.thread # "none" /\ ~Soft!InInterrupt(s) /\ s.pending # {} => s.thread = "running"
    /\ s.soft.on => s.bh = 0
    /\ s.runner = "ksoftirqd" => s.thread = "running" /\ s.bh = 0

(* The CPU before anything was raised.                                     *)
LEMMA SoftInit == Soft!Init => Kept(si)
BY DEF Soft!Init, Kept, SoftType, Soft!NoSoft, Soft!InInterrupt, Soft!InSoftirq

(* wakeup_softirqd: ksoftirqd runs, if it exists.                          *)
LEMMA Woken ==
    ASSUME NEW s \in SoftType
    PROVE  /\ Soft!WakeupSoftirqd(s) \in SoftType
           /\ Soft!WakeupSoftirqd(s).thread = IF s.thread = "none" THEN "none" ELSE "running"
           /\ \A f \in {"pending", "runner", "bh", "soft", "irq", "ran"} :
                 Soft!WakeupSoftirqd(s)[f] = s[f]
BY Zenon DEF SoftType, Soft!WakeupSoftirqd

(* restart: the softirqs pending are about to run.                         *)
LEMMA Restarted ==
    ASSUME NEW s \in SoftType, NEW left \in Nat
    PROVE  /\ Soft!Restart(s, left) \in SoftType
           /\ Soft!Restart(s, left).pending = {} /\ Soft!Restart(s, left).soft.on
           /\ \A f \in {"thread", "runner", "bh", "irq", "ran"} : Soft!Restart(s, left)[f] = s[f]
BY Zenon DEF SoftType, Soft!Restart

(* A softirq is raised by the task, an interrupt or a softirq's action.    *)
LEMMA SoftRaise ==
    ASSUME NEW nr \in Soft!Vectors, Kept(si),
           Soft!TaskRaise(nr) \/ Soft!IrqRaise(nr) \/ Soft!ActionRaise(nr)
    PROVE  Kept(si')
<1> DEFINE r == Soft!RaiseVec(si, nr)
<1>1. /\ r \in SoftType /\ r.thread = si.thread /\ r.bh = si.bh /\ r.soft = si.soft
      /\ r.irq = si.irq /\ r.runner = si.runner
  BY Zenon DEF Kept, SoftType, Soft!RaiseVec
<1>2. si' = IF Soft!InInterrupt(si) THEN r ELSE Soft!WakeupSoftirqd(r)
  BY Zenon DEF Soft!TaskRaise, Soft!IrqRaise, Soft!ActionRaise, Soft!RaiseSoftirqIrqoff
<1> HIDE DEF r
<1>3. CASE Soft!InInterrupt(si)
  BY <1>1, <1>2, <1>3, Zenon DEF Kept, Soft!InInterrupt, Soft!InSoftirq
<1>4. CASE ~Soft!InInterrupt(si)
  BY <1>1, <1>2, <1>4, Woken DEF Kept
<1> QED BY <1>3, <1>4, Zenon

(* Bottom halves are disabled, and enabled again.                          *)
LEMMA SoftBh ==
    ASSUME Kept(si), MaxRestart \in Nat, Soft!LocalBhDisable \/ Soft!LocalBhEnable
    PROVE  Kept(si')
<1>1. CASE Soft!LocalBhDisable
  BY <1>1 DEF Kept, SoftType, Soft!InInterrupt, Soft!InSoftirq, Soft!LocalBhDisable, Soft!TaskRuns
<1>2. CASE Soft!LocalBhEnable
  <2> DEFINE e == [si EXCEPT !.bh = @ - 1]
  <2>1. /\ e \in SoftType /\ e.bh = si.bh - 1 /\ e.thread = si.thread /\ e.soft = si.soft
        /\ e.irq = si.irq /\ e.runner = si.runner /\ e.pending = si.pending
        /\ ~si.irq /\ ~si.soft.on /\ si.runner = "task" /\ si.bh > 0 /\ si.bh \in Nat
    BY <1>2 DEF Kept, SoftType, Soft!LocalBhEnable, Soft!TaskRuns
  <2>2. si' = IF ~Soft!InInterrupt(e) /\ e.pending # {} THEN Soft!DoSoftirq(e) ELSE e
    BY <1>2, Zenon DEF Soft!LocalBhEnable
  <2> HIDE DEF e
  <2>3. CASE Soft!InInterrupt(e) \/ e.pending = {} \/ Soft!KsoftirqdRunning(e)
    BY <2>1, <2>2, <2>3, Zenon DEF Kept, Soft!DoSoftirq, Soft!KsoftirqdRunning
  <2>4. CASE ~(Soft!InInterrupt(e) \/ e.pending = {} \/ Soft!KsoftirqdRunning(e))
    <3>1. si' = Soft!Restart(e, MaxRestart) /\ e.bh = 0
      BY <2>1, <2>2, <2>4 DEF Soft!DoSoftirq, Soft!InInterrupt, Soft!InSoftirq
    <3> QED BY <2>1, <3>1, Restarted, Zenon DEF Kept, Soft!InInterrupt, Soft!InSoftirq
  <2> QED BY <2>3, <2>4, Zenon
<1> QED BY <1>1, <1>2, Zenon

(* A hardware interrupt comes, and goes.                                   *)
LEMMA SoftIrqs ==
    ASSUME Kept(si), Soft!IrqEnter \/ Soft!IrqLeave
    PROVE  Kept(si')
<1>1. CASE Soft!IrqEnter
  BY <1>1, Zenon DEF Kept, SoftType, Soft!InInterrupt, Soft!InSoftirq, Soft!IrqEnter
<1>2. CASE Soft!IrqLeave
  BY <1>2, ZenonT(30) DEF Kept, SoftType, Soft!InInterrupt, Soft!InSoftirq, Soft!IrqLeave,
       Soft!IrqExit, Soft!InvokeSoftirq, Soft!WakeupSoftirqd, Soft!KsoftirqdRunning, Soft!HI
<1> QED BY <1>1, <1>2, Zenon

(* A softirq runs, and a pass over the vectors ends.                       *)
LEMMA SoftProgress ==
    ASSUME Kept(si), Soft!Progress
    PROVE  Kept(si')
<1>1. CASE Soft!RunVector
  <2> DEFINE v == Soft!Min(si.soft.vecs)
  <2>1. si.soft.vecs # {} /\ si.soft.vecs \in SUBSET Nat
    BY <1>1 DEF Soft!RunVector, Kept, SoftType, Soft!Vectors
  <2>2. v \in si.soft.vecs
    BY <2>1, LeastOf, Zenon DEF Soft!Min
  <2> HIDE DEF v
  <2>3. si' = [si EXCEPT !.soft.vecs = @ \ {v}, !.ran = @ \cup {v}]
    BY <1>1, Zenon DEF Soft!RunVector, v
  <2> QED BY <2>2, <2>3, Zenon DEF Kept, SoftType, Soft!InInterrupt, Soft!InSoftirq
<1>2. ASSUME NEW again \in BOOLEAN, Soft!SoftirqDone(again)
      PROVE  Kept(si')
  <2> DEFINE s == IF si.pending # {} THEN Soft!WakeupSoftirqd(si) ELSE si
  <2>1. si \in SoftType /\ ~si.irq /\ si.soft.on /\ si.bh = 0
    BY <1>2, Zenon DEF Kept, Soft!SoftirqDone
  <2>2. CASE si.pending # {} /\ again /\ si.soft.left > 1
    <3>1. si' = Soft!Restart(si, si.soft.left - 1) /\ si.soft.left - 1 \in Nat
      BY <1>2, <2>1, <2>2 DEF Soft!SoftirqDone, Soft!DoSoftirqDone, SoftType
    <3> QED BY <2>1, <3>1, Restarted, Zenon DEF Kept, Soft!InInterrupt, Soft!InSoftirq
  <2>3. CASE ~(si.pending # {} /\ again /\ si.soft.left > 1)
    <3>1. si' = [s EXCEPT !.soft = Soft!NoSoft]
      BY <1>2, <2>3, Zenon DEF Soft!SoftirqDone, Soft!DoSoftirqDone
    <3>2. /\ s \in SoftType /\ s.irq = si.irq /\ s.bh = 0 /\ s.runner = si.runner
          /\ s.pending # {} /\ s.thread # "none" => s.thread = "running"
          /\ si.thread = "running" => s.thread = "running"
      BY <2>1, Woken, Zenon
    <3> HIDE DEF s
    <3>3. /\ si' \in SoftType /\ ~si'.soft.on /\ si'.bh = 0 /\ si'.thread = s.thread
          /\ si'.runner = s.runner /\ si'.pending = s.pending
      BY <3>1, <3>2, Zenon DEF SoftType, Soft!NoSoft
    <3> QED BY <3>2, <3>3, Zenon DEF Kept
  <2> QED BY <2>2, <2>3, Zenon
<1> QED BY <1>1, <1>2, Zenon DEF Soft!Progress

(* ksoftirqd is created, gets the CPU and gives it up.                     *)
LEMMA SoftThread ==
    ASSUME Kept(si), MaxRestart \in Nat, Soft!SpawnKsoftirqd \/ Soft!Schedule \/ Soft!RunKsoftirqd
    PROVE  Kept(si')
<1>1. CASE Soft!SpawnKsoftirqd \/ Soft!Schedule
  BY <1>1, Zenon DEF Kept, SoftType, Soft!InInterrupt, Soft!InSoftirq, Soft!SpawnKsoftirqd, Soft!Schedule,
       Soft!TaskRuns
<1>2. CASE Soft!RunKsoftirqd
  <2>1. CASE si.pending # {}
    <3>1. si' = Soft!Restart(si, MaxRestart)
      BY <1>2, <2>1, Zenon DEF Soft!RunKsoftirqd
    <3> QED BY <1>2, <3>1, Restarted DEF Kept, Soft!RunKsoftirqd, Soft!InInterrupt, Soft!InSoftirq
  <2>2. CASE si.pending = {}
    BY <1>2, <2>2, Zenon DEF Kept, SoftType, Soft!RunKsoftirqd
  <2> QED BY <2>1, <2>2, Zenon
<1> QED BY <1>1, <1>2, Zenon

(* softirq.c, for any number of vectors and restarts: once ksoftirqd       *)
(* exists, a pending softirq outside interrupts and disabled regions has   *)
(* it on the run queue, and one __do_softirq never starts inside another.  *)
THEOREM Softirqs ==
    ASSUME MaxRestart \in Nat
    PROVE  Soft!Spec => []Soft!SoftirqKept
<1>1. Kept(si) /\ [Soft!Next]_si => Kept(si')
  <2>1. Kept(si) /\ Soft!Next => Kept(si')
    BY SoftRaise, SoftBh, SoftIrqs, SoftProgress, SoftThread, Zenon DEF Soft!Next
  <2> QED BY <2>1, Zenon
<1>2. Kept(si) => Soft!SoftirqKept
  BY Zenon DEF Kept, Soft!SoftirqKept
<1> DEFINE I == Kept(si)
<1>3. Soft!Init => I
  BY SoftInit, Zenon
<1>4. I /\ [Soft!Next]_si => I'
  BY <1>1, Zenon
<1>5. I => Soft!SoftirqKept
  BY <1>2, Zenon
<1> HIDE DEF I
<1> QED BY <1>3, <1>4, <1>5, PTL DEF Soft!Spec
=============================================================================
