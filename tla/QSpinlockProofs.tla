-------------------------- MODULE QSpinlockProofs --------------------------
(***************************************************************************)
(* Proofs about QSpinlock for any set of contexts and any number of        *)
(* pending spins: type correctness, mutual exclusion, the ownership of the *)
(* pending bit, and the implementation of the abstract lock.               *)
(*                                                                         *)
(* Mutual exclusion is not inductive.  A context that stores the locked    *)
(* byte without a compare (clear_pending_set_locked, set_locked) relies on *)
(* being the only one entitled to: the pending context because the bit is  *)
(* its own and the queue head waits for the bit to clear, the head because *)
(* the queue has one head and a non-empty tail makes every other path      *)
(* queue.  That the head is unique in turn needs the shape of the MCS      *)
(* queue: distinct live predecessors, links to contexts still spinning.    *)
(*                                                                         *)
(* After it, dec_and_lock.c, which takes a spinlock for the last reference *)
(* only (Refs), and the per-CPU nodes the queue is made of (Nodes).        *)
(***************************************************************************)
EXTENDS QSpinlock, FiniteSetTheorems, TLAPS

CONSTANTS Cpus, NrCpus
VARIABLES phase, count, idx, tmp, owner, dl

Nodes == INSTANCE QNodes
Refs  == INSTANCE DecAndLock

USE NoThreadAssumption, PendingLoopsAssumption
USE DEF Idle, Fast, Spin, SetPending, UndoPending, WaitOwner, TakePending,
        InitNode, Retry, XchgTail, Link, WaitNode, ReadNext, WaitHead, Claim,
        SetLocked, WaitNext, PassHead, Held, PCs
USE DEF At, Goto, Owns, Queued, Waits, Heads, Pends, word, node, locals

(* The initial state satisfies the inductive invariant. *)
LEMMA InitIInv == Init => IInv
BY DEF Init, IInv, TypeOK, MutualExclusion, PendingOwned, NoStealing,
       QueueShape, LinksLive, PendingBeforeQueue

(* A context that asks for the lock touches no shared state. *)
LEMMA RequestStep ==
    ASSUME NEW t \in Threads, IInv, Request(t)
    PROVE  IInv'
BY DEF IInv, Request, TypeOK, MutualExclusion, PendingOwned, NoStealing,
       QueueShape, LinksLive, PendingBeforeQueue

(* A trylock takes a word that is 0: nobody owns, pends or heads the queue. *)
LEMMA TrylockStep ==
    ASSUME NEW t \in Threads, IInv, Trylock(t)
    PROVE  IInv'
BY DEF IInv, Trylock, Unlocked, TypeOK, MutualExclusion, PendingOwned,
       NoStealing,
       QueueShape, LinksLive, PendingBeforeQueue

(* So does the fast path, which otherwise only chooses where to go. *)
LEMMA FastPathStep ==
    ASSUME NEW t \in Threads, IInv, FastPath(t)
    PROVE  IInv'
BY DEF IInv, FastPath, FirstLook, Unlocked, Contended, OnlyPending, TypeOK,
       MutualExclusion, PendingOwned, NoStealing,
       QueueShape, LinksLive, PendingBeforeQueue

(* The bounded spin changes only the spinner's counter. *)
LEMMA SpinOnHandoverStep ==
    ASSUME NEW t \in Threads, IInv, SpinOnHandover(t)
    PROVE  IInv'
BY DEF IInv, SpinOnHandover, FirstLook, Contended, OnlyPending, TypeOK,
       MutualExclusion, PendingOwned, NoStealing,
       QueueShape, LinksLive, PendingBeforeQueue

(* A context that finds no tail and no pending bit is the only pending one,
   and no queue head exists to compete with it. *)
LEMMA FetchSetPendingStep ==
    ASSUME NEW t \in Threads, IInv, FetchSetPending(t)
    PROVE  IInv'
<1>1. TypeOK'
  BY Zenon DEF IInv, FetchSetPending, TypeOK, Contended
<1>2. MutualExclusion'
  BY DEF IInv, FetchSetPending, MutualExclusion, Contended, TypeOK
<1>3. PendingOwned'
  BY DEF IInv, FetchSetPending, PendingOwned, Contended, TypeOK
<1>4. NoStealing'
  BY Zenon DEF IInv, FetchSetPending, NoStealing, Contended, TypeOK
<1>5. QueueShape'
  BY DEF IInv, FetchSetPending, QueueShape, Contended, TypeOK
<1>6. LinksLive'
  BY DEF IInv, FetchSetPending, LinksLive, Contended, TypeOK, QueueShape
<1>7. PendingBeforeQueue'
  BY DEF IInv, FetchSetPending, PendingBeforeQueue, Contended, TypeOK,
         QueueShape
<1> QED
  BY <1>1, <1>2, <1>3, <1>4, <1>5, <1>6, <1>7, Zenon DEF IInv

(* Only the context that set the pending bit undoes it. *)
LEMMA ClearPendingStep ==
    ASSUME NEW t \in Threads, IInv, ClearPending(t)
    PROVE  IInv'
BY DEF IInv, ClearPending, TypeOK, MutualExclusion, PendingOwned, NoStealing,
       QueueShape, LinksLive, PendingBeforeQueue

(* The pending context saw the locked byte clear. *)
LEMMA OwnerGoneStep ==
    ASSUME NEW t \in Threads, IInv, OwnerGone(t)
    PROVE  IInv'
BY DEF IInv, OwnerGone, TypeOK, MutualExclusion, PendingOwned, NoStealing,
       QueueShape, LinksLive, PendingBeforeQueue

(* The pending context takes a lock nobody else may take. *)
LEMMA ClearPendingSetLockedStep ==
    ASSUME NEW t \in Threads, IInv, ClearPendingSetLocked(t)
    PROVE  IInv'
BY DEF IInv, ClearPendingSetLocked, TypeOK, MutualExclusion, PendingOwned,
       NoStealing,
       QueueShape, LinksLive, PendingBeforeQueue

(* A node is initialised while no other context can reach it. *)
LEMMA InitialiseNodeStep ==
    ASSUME NEW t \in Threads, IInv, InitialiseNode(t)
    PROVE  IInv'
BY DEF IInv, InitialiseNode, TypeOK, MutualExclusion, PendingOwned,
       NoStealing,
       QueueShape, LinksLive, PendingBeforeQueue

(* The trylock of the slow path is the fast path again. *)
LEMMA SlowTrylockStep ==
    ASSUME NEW t \in Threads, IInv, SlowTrylock(t)
    PROVE  IInv'
BY DEF IInv, SlowTrylock, Unlocked, TypeOK, MutualExclusion, PendingOwned,
       NoStealing,
       QueueShape, LinksLive, PendingBeforeQueue

(* xchg_tail appends the context to the queue: its predecessor is the old
   tail, which no other context waits behind. *)
LEMMA ExchangeTailStep ==
    ASSUME NEW t \in Threads, IInv, ExchangeTail(t)
    PROVE  IInv'
<1>1. TypeOK'
  BY Zenon DEF IInv, ExchangeTail, TypeOK
<1>2. MutualExclusion'
  BY Zenon DEF IInv, ExchangeTail, MutualExclusion, TypeOK
<1>3. PendingOwned'
  BY Zenon DEF IInv, ExchangeTail, PendingOwned, TypeOK
<1>4. NoStealing'
  BY Zenon DEF IInv, ExchangeTail, NoStealing, TypeOK
<1>5. QueueShape'
  BY DEF IInv, ExchangeTail, QueueShape, TypeOK, LinksLive
<1>6. LinksLive'
  BY DEF IInv, ExchangeTail, LinksLive, TypeOK, QueueShape
<1>7. PendingBeforeQueue'
  BY Zenon DEF IInv, ExchangeTail, PendingBeforeQueue, TypeOK
<1> QED
  BY <1>1, <1>2, <1>3, <1>4, <1>5, <1>6, <1>7, Zenon DEF IInv

(* A context links itself to the one predecessor it has. *)
LEMMA LinkNodeStep ==
    ASSUME NEW t \in Threads, IInv, LinkNode(t)
    PROVE  IInv'
<1>1. TypeOK'
  BY Zenon DEF IInv, LinkNode, TypeOK, QueueShape
<1>2. MutualExclusion'
  BY Zenon DEF IInv, LinkNode, MutualExclusion, TypeOK
<1>3. PendingOwned'
  BY Zenon DEF IInv, LinkNode, PendingOwned, TypeOK
<1>4. NoStealing'
  BY Zenon DEF IInv, LinkNode, NoStealing, TypeOK
<1>5. QueueShape'
  BY DEF IInv, LinkNode, QueueShape, TypeOK, LinksLive
<1>6. LinksLive'
  BY DEF IInv, LinkNode, LinksLive, TypeOK, QueueShape
<1>7. PendingBeforeQueue'
  BY Zenon DEF IInv, LinkNode, PendingBeforeQueue, TypeOK
<1> QED
  BY <1>1, <1>2, <1>3, <1>4, <1>5, <1>6, <1>7, Zenon DEF IInv

(* A context that is told it is the head already counted as the head. *)
LEMMA HeadArrivedStep ==
    ASSUME NEW t \in Threads, IInv, HeadArrived(t)
    PROVE  IInv'
BY DEF IInv, HeadArrived, TypeOK, MutualExclusion, PendingOwned, NoStealing,
       QueueShape, LinksLive, PendingBeforeQueue

(* The head's copy of its successor is the link itself. *)
LEMMA LoadNextStep ==
    ASSUME NEW t \in Threads, IInv, LoadNext(t)
    PROVE  IInv'
BY DEF IInv, LoadNext, TypeOK, MutualExclusion, PendingOwned, NoStealing,
       QueueShape, LinksLive, PendingBeforeQueue

(* The head sees neither owner nor pending context. *)
LEMMA LockFreeStep ==
    ASSUME NEW t \in Threads, IInv, LockFree(t)
    PROVE  IInv'
BY DEF IInv, LockFree, TypeOK, MutualExclusion, PendingOwned, NoStealing,
       QueueShape, LinksLive, PendingBeforeQueue

(* The last context of the queue empties it and takes the lock at once. *)
LEMMA ClaimUncontendedStep ==
    ASSUME NEW t \in Threads, IInv, ClaimUncontended(t)
    PROVE  IInv'
<1>1. TypeOK'
  BY Zenon DEF IInv, ClaimUncontended, TypeOK
<1>2. MutualExclusion'
  BY DEF IInv, ClaimUncontended, MutualExclusion, TypeOK, QueueShape
<1>3. PendingOwned'
  BY Zenon DEF IInv, ClaimUncontended, PendingOwned, TypeOK
<1>4. NoStealing'
  BY DEF IInv, ClaimUncontended, NoStealing, TypeOK, QueueShape,
         PendingBeforeQueue
<1>5. QueueShape'
  BY DEF IInv, ClaimUncontended, QueueShape, TypeOK
<1>6. LinksLive'
  BY DEF IInv, ClaimUncontended, LinksLive, TypeOK, QueueShape
<1>7. PendingBeforeQueue'
  BY Zenon DEF IInv, ClaimUncontended, PendingBeforeQueue, TypeOK
<1> QED
  BY <1>1, <1>2, <1>3, <1>4, <1>5, <1>6, <1>7, Zenon DEF IInv

(* Otherwise the head stores the locked byte, which is still clear. *)
LEMMA TakeLockStep ==
    ASSUME NEW t \in Threads, IInv, TakeLock(t)
    PROVE  IInv'
BY DEF IInv, TakeLock, TypeOK, MutualExclusion, PendingOwned, NoStealing,
       QueueShape, LinksLive, PendingBeforeQueue

(* The owner's copy of its successor is the link itself. *)
LEMMA NextArrivedStep ==
    ASSUME NEW t \in Threads, IInv, NextArrived(t)
    PROVE  IInv'
BY DEF IInv, NextArrived, TypeOK, MutualExclusion, PendingOwned, NoStealing,
       QueueShape, LinksLive, PendingBeforeQueue

(* The owner leaves the queue and its successor, the only context that
   waits behind it, becomes the head. *)
LEMMA PassHeadOnStep ==
    ASSUME NEW t \in Threads, IInv, PassHeadOn(t)
    PROVE  IInv'
<1>1. TypeOK'
  BY Zenon DEF IInv, PassHeadOn, TypeOK, LinksLive
<1>2. MutualExclusion'
  BY Zenon DEF IInv, PassHeadOn, MutualExclusion, TypeOK
<1>3. PendingOwned'
  BY Zenon DEF IInv, PassHeadOn, PendingOwned, TypeOK
<1>4. NoStealing'
  BY Zenon DEF IInv, PassHeadOn, NoStealing, TypeOK
<1>5. QueueShape'
  BY DEF IInv, PassHeadOn, QueueShape, TypeOK, LinksLive
<1>6. LinksLive'
  BY DEF IInv, PassHeadOn, LinksLive, TypeOK, QueueShape
<1>7. PendingBeforeQueue'
  BY Zenon DEF IInv, PassHeadOn, PendingBeforeQueue, TypeOK
<1> QED
  BY <1>1, <1>2, <1>3, <1>4, <1>5, <1>6, <1>7, Zenon DEF IInv

(* The owner clears the locked byte. *)
LEMMA UnlockStep ==
    ASSUME NEW t \in Threads, IInv, Unlock(t)
    PROVE  IInv'
BY DEF IInv, Unlock, TypeOK, MutualExclusion, PendingOwned, NoStealing,
       QueueShape, LinksLive, PendingBeforeQueue

(* IInv is inductive: every step of every context preserves it. *)
LEMMA NextIInv == IInv /\ [Next]_vars => IInv'
<1> SUFFICES ASSUME IInv, [Next]_vars PROVE IInv'
  BY Zenon
<1>1. CASE UNCHANGED vars
  BY <1>1 DEF vars, IInv, TypeOK, MutualExclusion, PendingOwned, NoStealing,
       QueueShape, LinksLive, PendingBeforeQueue
<1>2. CASE Next
  <2> PICK t \in Threads : Request(t) \/ Trylock(t) \/ Step(t)
    BY <1>2, Zenon DEF Next
  <2> QED
    BY RequestStep, TrylockStep, FastPathStep, SpinOnHandoverStep,
         FetchSetPendingStep, ClearPendingStep, OwnerGoneStep,
         ClearPendingSetLockedStep, InitialiseNodeStep, SlowTrylockStep,
         ExchangeTailStep, LinkNodeStep, HeadArrivedStep, LoadNextStep,
         LockFreeStep, ClaimUncontendedStep, TakeLockStep, NextArrivedStep,
         PassHeadOnStep, UnlockStep, Zenon
       DEF Step
<1> QED
  BY <1>1, <1>2, Zenon

(* The inductive invariant holds in every reachable state. *)
THEOREM Invariance == Spec => []IInv
BY InitIInv, NextIInv, PTL DEF Spec

(* The lock word, the nodes and the locals keep their types. *)
THEOREM TypeCorrect == Spec => []TypeOK
BY Invariance, PTL DEF IInv

(* queued_spin_lock grants the lock to one context at a time, for any       *)
(* number of contexts, and the locked byte tells whether it is owned.       *)
THEOREM Mutex == Spec => []MutualExclusion
BY Invariance, PTL DEF IInv

(* The pending bit is set exactly while one context is entitled to clear it. *)
THEOREM PendingBitOwned == Spec => []PendingOwned
BY Invariance, PTL DEF IInv

(* The MCS queue has at most one head, every waiter a live predecessor of    *)
(* its own, and the tail is a member.                                        *)
THEOREM QueueWellFormed == Spec => []QueueShape
BY Invariance, PTL DEF IInv

(* Every step of the queued spinlock is a step of the abstract lock or       *)
(* leaves it unchanged: the slow path is invisible to callers.               *)
LEMMA StepSimulation == IInv /\ [Next]_vars => [Lock!Next]_(Lock!vars)
<1> SUFFICES ASSUME IInv, [Next]_vars PROVE [Lock!Next]_(Lock!vars)
  BY Zenon
<1> USE DEF Tries, Lock!vars
<1>1. CASE UNCHANGED vars
  BY <1>1, Zenon DEF vars
<1>2. ASSUME NEW t \in Threads, Request(t)
      PROVE  Lock!Request(t)
  BY <1>2 DEF IInv, TypeOK, Request, Lock!Request
<1>3. ASSUME NEW t \in Threads, Trylock(t)
      PROVE  Lock!Trylock(t)
  BY <1>3 DEF IInv, TypeOK, MutualExclusion, Trylock, Unlocked, Lock!Trylock
<1>4. ASSUME NEW t \in Threads, Unlock(t)
      PROVE  Lock!Release(t)
  BY <1>4, Zenon DEF IInv, TypeOK, MutualExclusion, Unlock, Lock!Release
<1>5. ASSUME NEW t \in Threads, Step(t), ~Unlock(t), Owns(t) <=> Owns(t)'
      PROVE  UNCHANGED Lock!vars
  BY <1>5 DEF IInv, TypeOK, Step, FastPath, SpinOnHandover, FetchSetPending,
         ClearPending, OwnerGone, ClearPendingSetLocked, InitialiseNode,
         SlowTrylock, ExchangeTail, LinkNode, HeadArrived, LoadNext, LockFree,
         ClaimUncontended, TakeLock, NextArrived, PassHeadOn, FirstLook
<1>6. ASSUME NEW t \in Threads, Step(t), ~Unlock(t), ~(Owns(t) <=> Owns(t)')
      PROVE  Lock!Acquire(t)
  BY <1>6 DEF IInv, TypeOK, MutualExclusion, NoStealing, Step, FastPath,
         SpinOnHandover, FetchSetPending, ClearPending, OwnerGone,
         ClearPendingSetLocked, InitialiseNode, SlowTrylock, ExchangeTail,
         LinkNode, HeadArrived, LoadNext, LockFree, ClaimUncontended,
         TakeLock, NextArrived, PassHeadOn, FirstLook, Unlocked, Lock!Acquire
<1>7. CASE Next
  <2> PICK t \in Threads : Request(t) \/ Trylock(t) \/ Step(t)
    BY <1>7, Zenon DEF Next
  <2> QED
    BY <1>2, <1>3, <1>4, <1>5, <1>6, Zenon DEF Lock!Next
<1> QED
  BY <1>1, <1>7, Zenon

(* The queued spinlock implements the abstract lock. *)
THEOREM Implementation == Spec => ImplementsLock
<1>1. Init => Lock!Init
  BY Zenon DEF Init, Lock!Init, Tries
<1> QED
  BY <1>1, Invariance, StepSimulation, PTL DEF Spec, ImplementsLock, Lock!Spec

(* A context waits behind the predecessor xchg_tail gave it until that      *)
(* predecessor owns the lock and passes the head of the queue on.           *)
LEMMA PredecessorFixed ==
    ASSUME IInv, [Next]_vars, NEW u \in Threads, Waits(u), NEW p, p = prev[u]
    PROVE  /\ p \in Threads
           /\ \/ Waits(u)' /\ prev'[u] = p
              \/ Owns(p)' /\ ~Waits(p)
<1>1. p \in Threads
  BY Zenon DEF IInv, QueueShape
<1>2. CASE UNCHANGED vars
  BY <1>1, <1>2, Zenon DEF vars
<1>3. ASSUME NEW t \in Threads, PassHeadOn(t)
      PROVE  \/ Waits(u)' /\ prev'[u] = p
             \/ Owns(p)' /\ ~Waits(p)
  <2>1. prev[next[t]] = t /\ next[t] \in Threads
    BY <1>3 DEF PassHeadOn, IInv, LinksLive, TypeOK
  <2>2. CASE u = next[t]
    BY <1>3, <2>1, <2>2, Zenon DEF PassHeadOn, IInv, TypeOK
  <2>3. CASE u # next[t]
    BY <1>3, <2>3, Zenon DEF PassHeadOn, IInv, TypeOK
  <2> QED BY <2>2, <2>3, Zenon
<1>4. ASSUME NEW t \in Threads, Request(t) \/ Trylock(t) \/ (Step(t) /\ ~PassHeadOn(t))
      PROVE  Waits(u)' /\ prev'[u] = p
  BY <1>4 DEF IInv, TypeOK, LinksLive, Request, Trylock, Step, FastPath,
         SpinOnHandover, FetchSetPending, ClearPending, OwnerGone,
         ClearPendingSetLocked, InitialiseNode, SlowTrylock, ExchangeTail,
         LinkNode, HeadArrived, LoadNext, LockFree, ClaimUncontended,
         TakeLock, NextArrived, FirstLook, Unlock
<1>5. CASE Next
  BY <1>1, <1>3, <1>4, <1>5, Zenon DEF Next
<1> QED
  BY <1>1, <1>2, <1>5, Zenon

(* The queue is served in the order xchg_tail made: whoever is ahead of a    *)
(* context stays ahead of it until it owns the lock.  A set closed under the *)
(* predecessors after a step, with the one that took the lock added, is      *)
(* closed under those before it.                                             *)
THEOREM Fifo == Spec => FifoQueue
<1>1. ASSUME IInv, [Next]_vars, NEW u \in Threads, NEW t \in Ahead(u), ~Owns(t)'
      PROVE  t \in Ahead(u)'
  <2> DEFINE Taken == {p \in Threads : Owns(p)' /\ ~Waits(p)}
  <2> SUFFICES ASSUME NEW S \in SUBSET Threads,
                      \A w \in S \cup {u} : Waits(w)' => prev'[w] \in S
               PROVE  t \in S
    BY <1>1, Zenon DEF Ahead
  <2>1. ASSUME NEW w \in S \cup Taken \cup {u}, Waits(w)
        PROVE  prev[w] \in S \cup Taken
    <3>1. w \in S \cup {u} /\ w \in Threads
      BY <2>1, Zenon
    <3>2. PICK p : p = prev[w]
      BY Zenon
    <3>3. /\ p \in Threads
          /\ \/ Waits(w)' /\ prev'[w] = p
             \/ Owns(p)' /\ ~Waits(p)
      BY <1>1, <2>1, <3>1, <3>2, PredecessorFixed
    <3>4. CASE Waits(w)' /\ prev'[w] = p
      BY <3>1, <3>2, <3>4, Zenon
    <3>5. CASE Owns(p)' /\ ~Waits(p)
      BY <3>2, <3>3, <3>5, Zenon
    <3> QED
      BY <3>3, <3>4, <3>5, Zenon
  <2>2. t \in S \cup Taken
    BY <1>1, <2>1, Zenon DEF Ahead
  <2> QED
    BY <1>1, <2>2, Zenon
<1>2. IInv /\ [Next]_vars
        => [\A u \in Threads : \A t \in Ahead(u) : t \in Ahead(u)' \/ Owns(t)']_vars
  BY <1>1, Zenon
<1> QED
  BY <1>2, Invariance, PTL DEF Spec, FifoQueue

-----------------------------------------------------------------------------
(* Why ReferencesExact holds for any number of threads: whoever is between *)
(* the two looks at the count still has its reference, and from the drop   *)
(* to zero to the unlink the lock keeps everyone else out.                 *)

Holding == {"locked", "unlock", "last"}

RefsType == [count : Nat, refs : SUBSET Threads, listed : BOOLEAN,
             lock : Threads \cup {"none"}, pc : [Threads -> {"out", "slow"} \cup Holding]]

Sound(d) ==
    /\ d \in RefsType
    /\ IsFiniteSet(d.refs) /\ d.count = Cardinality(d.refs)
    /\ d.refs # {} => d.listed
    /\ d.listed /\ d.refs = {} => \E t \in Threads : d.pc[t] = "last"
    /\ \A t \in Threads : /\ d.pc[t] \in Holding <=> d.lock = t
                          /\ d.pc[t] \in {"slow", "locked"} => t \in d.refs
                          /\ d.pc[t] = "last" => d.refs = {}

RefsInv == Sound(dl)

(* The record with given fields. *)
After(c, r, li, lo, p) == [count |-> c, refs |-> r, listed |-> li, lock |-> lo, pc |-> p]

(* The invariant of a record with given fields. *)
LEMMA AfterSound ==
    ASSUME NEW c \in Nat, NEW r \in SUBSET Threads, NEW li \in BOOLEAN,
           NEW lo \in Threads \cup {"none"}, NEW p \in [Threads -> {"out", "slow"} \cup Holding],
           IsFiniteSet(r), c = Cardinality(r), r # {} => li,
           li /\ r = {} => \E t \in Threads : p[t] = "last",
           \A t \in Threads : /\ p[t] \in Holding <=> lo = t
                              /\ p[t] \in {"slow", "locked"} => t \in r
                              /\ p[t] = "last" => r = {}
    PROVE  Sound(After(c, r, li, lo, p))
<1> DEFINE d == After(c, r, li, lo, p)
<1>1. d.count = c /\ d.refs = r /\ d.listed = li /\ d.lock = lo /\ d.pc = p /\ d \in RefsType
  BY Zenon DEF After, RefsType
<1> HIDE DEF d
<1>2. \A t \in Threads : /\ d.pc[t] \in Holding <=> d.lock = t
                         /\ d.pc[t] \in {"slow", "locked"} => t \in d.refs
                         /\ d.pc[t] = "last" => d.refs = {}
  BY <1>1, Zenon
<1>3. d.listed /\ d.refs = {} => \E t \in Threads : d.pc[t] = "last"
  BY <1>1, Zenon
<1>4. IsFiniteSet(d.refs) /\ d.count = Cardinality(d.refs) /\ (d.refs # {} => d.listed)
  BY <1>1, Zenon
<1>5. Sound(d)
  BY <1>1, <1>2, <1>3, <1>4, Zenon DEF Sound
<1> QED BY <1>5, Zenon DEF d

(* What the count says of the references. *)
LEMMA Count ==
    ASSUME RefsInv, NEW t \in Threads
    PROVE  /\ dl.count = 0 <=> dl.refs = {}
           /\ t \in dl.refs => /\ dl.count > 0
                              /\ IsFiniteSet(dl.refs \ {t})
                              /\ Cardinality(dl.refs \ {t}) = dl.count - 1
           /\ t \notin dl.refs => /\ IsFiniteSet(dl.refs \cup {t})
                                 /\ Cardinality(dl.refs \cup {t}) = dl.count + 1
           /\ IsFiniteSet({t}) /\ Cardinality({t}) = 1
           /\ t \in dl.refs => (dl.refs \ {t} = {} <=> dl.count = 1)
<1>1. IsFiniteSet(dl.refs) /\ dl.count = Cardinality(dl.refs) /\ dl.count \in Nat
  BY FS_CardinalityType, Zenon DEF RefsInv, Sound
<1>2. dl.count = 0 <=> dl.refs = {}
  BY <1>1, FS_EmptySet, Zenon
<1>3. IsFiniteSet(dl.refs \ {t}) /\ (t \in dl.refs => Cardinality(dl.refs \ {t}) = dl.count - 1)
  BY <1>1, FS_RemoveElement, Zenon
<1>4. IsFiniteSet(dl.refs \cup {t}) /\ (t \notin dl.refs => Cardinality(dl.refs \cup {t}) = dl.count + 1)
  BY <1>1, FS_AddElement, Zenon
<1>5. IsFiniteSet({t}) /\ Cardinality({t}) = 1
  BY FS_Singleton, Zenon
<1>6. Cardinality(dl.refs \ {t}) = 0 <=> dl.refs \ {t} = {}
  BY <1>3, FS_EmptySet, Zenon
<1> QED BY <1>1, <1>2, <1>3, <1>4, <1>5, <1>6

(* A step of _atomic_dec_and_lock or of its users keeps the invariant. *)
LEMMA RefsStep ==
    ASSUME RefsInv, "none" \notin Threads, NEW t \in Threads,
           \/ Refs!Drop(t) \/ Refs!Slow(t) \/ Refs!Locked(t) \/ Refs!Unlock(t)
           \/ Refs!Unlink(t) \/ Refs!Lookup(t) \/ Refs!Create(t)
    PROVE  RefsInv'
<1> DEFINE n == dl.count
           r == dl.refs
           li == dl.listed
           lo == dl.lock
           p == dl.pc
<1>1. /\ n \in Nat /\ r \in SUBSET Threads /\ li \in BOOLEAN /\ lo \in Threads \cup {"none"}
      /\ p \in [Threads -> {"out", "slow"} \cup Holding]
      /\ dl = After(n, r, li, lo, p)
  BY Zenon DEF RefsInv, Sound, RefsType, After
<1>2. /\ IsFiniteSet(r) /\ n = Cardinality(r) /\ (r # {} => li)
      /\ li /\ r = {} => \E u \in Threads : p[u] = "last"
      /\ \A u \in Threads : /\ p[u] \in Holding <=> lo = u
                            /\ p[u] \in {"slow", "locked"} => u \in r
                            /\ p[u] = "last" => r = {}
  BY Zenon DEF RefsInv, Sound
<1>3. /\ n = 0 <=> r = {}
      /\ t \in r => n > 0 /\ IsFiniteSet(r \ {t}) /\ Cardinality(r \ {t}) = n - 1
      /\ t \notin r => IsFiniteSet(r \cup {t}) /\ Cardinality(r \cup {t}) = n + 1
      /\ IsFiniteSet({t}) /\ Cardinality({t}) = 1
      /\ t \in r => (r \ {t} = {} <=> n = 1)
  BY Count, Zenon
<1>4. CASE Refs!Drop(t)
  <2>1. p[t] = "out" /\ t \in r
    BY <1>4, Zenon DEF Refs!Drop
  <2>2. CASE n # 1
    <3>1. dl' = After(n - 1, r \ {t}, li, lo, p)
      BY <1>1, <1>4, <2>2, Zenon DEF After, Refs!Drop, Refs!DecUnlessOne
    <3>2. n - 1 \in Nat /\ n - 1 = Cardinality(r \ {t}) /\ r \ {t} # {} /\ li
      BY <1>1, <1>2, <1>3, <2>1, <2>2
    <3>3. \A u \in Threads : /\ p[u] \in Holding <=> lo = u
                             /\ p[u] \in {"slow", "locked"} => u \in r \ {t}
                             /\ p[u] = "last" => r \ {t} = {}
      BY <1>2, <2>1, Zenon
    <3> QED BY <1>1, <1>3, <2>1, <3>1, <3>2, <3>3, AfterSound, Zenon DEF RefsInv
  <2>3. CASE n = 1
    <3> DEFINE q == [p EXCEPT ![t] = "slow"]
    <3>1. dl' = After(n, r, li, lo, q)
      BY <1>1, <1>4, <2>3, Zenon DEF After, Refs!Drop, Refs!DecUnlessOne, Refs!Goto
    <3>2. q \in [Threads -> {"out", "slow"} \cup Holding] /\ r # {}
      BY <1>1, <2>1, Zenon
    <3>3. \A u \in Threads : /\ q[u] \in Holding <=> lo = u
                             /\ q[u] \in {"slow", "locked"} => u \in r
                             /\ q[u] = "last" => r = {}
      BY <1>1, <1>2, <2>1, Zenon DEF Holding
    <3> HIDE DEF q
    <3> QED BY <1>1, <1>2, <3>1, <3>2, <3>3, AfterSound, Zenon DEF RefsInv
  <2> QED BY <2>2, <2>3, Zenon
<1>5. CASE Refs!Slow(t)
  <2> DEFINE q == [p EXCEPT ![t] = "locked"]
  <2>1. /\ p[t] = "slow" /\ lo = "none"
        /\ dl' = After(n, r, li, t, q)
    BY <1>1, <1>5, Zenon DEF After, Refs!Slow, Refs!Free, Refs!Goto, Refs!SpinLock
  <2>3. /\ n \in Nat /\ r \in SUBSET Threads /\ t \in Threads \cup {"none"}
        /\ q \in [Threads -> {"out", "slow"} \cup Holding]
        /\ IsFiniteSet(r) /\ n = Cardinality(r) /\ (r # {} => li)
    BY <1>1, <1>2, <1>3, <2>1, Zenon DEF Holding
  <2>4. li /\ r = {} => \E u \in Threads : q[u] = "last"
    BY <1>1, <1>2, <1>3, <2>1, Zenon DEF Holding
  <2>5. \A u \in Threads : /\ q[u] \in Holding <=> t = u
                           /\ q[u] \in {"slow", "locked"} => u \in r
                           /\ q[u] = "last" => r = {}
    BY <1>1, <1>2, <1>3, <2>1 DEF Holding
  <2> HIDE DEF q
  <2> QED BY <1>1, <2>1, <2>3, <2>4, <2>5, AfterSound, Zenon DEF RefsInv
<1>6. CASE Refs!Locked(t)
  <2> DEFINE q == [p EXCEPT ![t] = IF n = 1 THEN "last" ELSE "unlock"]
  <2>1. /\ p[t] = "locked"
        /\ dl' = After((n - 1), (r \ {t}), li, lo, q)
    BY <1>1, <1>6, Zenon DEF After, Refs!Locked, Refs!DecAndTest
  <2>3. /\ (n - 1) \in Nat /\ (r \ {t}) \in SUBSET Threads /\ lo \in Threads \cup {"none"}
        /\ q \in [Threads -> {"out", "slow"} \cup Holding]
        /\ IsFiniteSet((r \ {t})) /\ (n - 1) = Cardinality((r \ {t})) /\ ((r \ {t}) # {} => li)
    BY <1>1, <1>2, <1>3, <2>1 DEF Holding
  <2>4. li /\ (r \ {t}) = {} => \E u \in Threads : q[u] = "last"
    BY <1>1, <1>2, <1>3, <2>1, Zenon DEF Holding
  <2>5. \A u \in Threads : /\ q[u] \in Holding <=> lo = u
                           /\ q[u] \in {"slow", "locked"} => u \in (r \ {t})
                           /\ q[u] = "last" => (r \ {t}) = {}
    BY <1>1, <1>2, <1>3, <2>1 DEF Holding
  <2> HIDE DEF q
  <2> QED BY <1>1, <2>1, <2>3, <2>4, <2>5, AfterSound, Zenon DEF RefsInv
<1>7. CASE Refs!Unlock(t)
  <2> DEFINE q == [p EXCEPT ![t] = "out"]
  <2>1. /\ p[t] = "unlock"
        /\ dl' = After(n, r, li, "none", q)
    BY <1>1, <1>7, Zenon DEF After, Refs!Unlock, Refs!Goto, Refs!SpinUnlock
  <2>3. /\ n \in Nat /\ r \in SUBSET Threads /\ "none" \in Threads \cup {"none"}
        /\ q \in [Threads -> {"out", "slow"} \cup Holding]
        /\ IsFiniteSet(r) /\ n = Cardinality(r) /\ (r # {} => li)
    BY <1>1, <1>2, <1>3, <2>1, Zenon DEF Holding
  <2>4. li /\ r = {} => \E u \in Threads : q[u] = "last"
    BY <1>1, <1>2, <1>3, <2>1, Zenon DEF Holding
  <2>5. \A u \in Threads : /\ q[u] \in Holding <=> "none" = u
                           /\ q[u] \in {"slow", "locked"} => u \in r
                           /\ q[u] = "last" => r = {}
    BY <1>1, <1>2, <1>3, <2>1 DEF Holding
  <2> HIDE DEF q
  <2> QED BY <1>1, <2>1, <2>3, <2>4, <2>5, AfterSound, Zenon DEF RefsInv
<1>8. CASE Refs!Unlink(t)
  <2> DEFINE q == [p EXCEPT ![t] = "out"]
  <2>1. /\ p[t] = "last"
        /\ dl' = After(n, r, FALSE, "none", q)
    BY <1>1, <1>8, Zenon DEF After, Refs!Unlink, Refs!Goto, Refs!SpinUnlock
  <2>3. /\ n \in Nat /\ r \in SUBSET Threads /\ "none" \in Threads \cup {"none"}
        /\ q \in [Threads -> {"out", "slow"} \cup Holding]
        /\ IsFiniteSet(r) /\ n = Cardinality(r) /\ (r # {} => FALSE)
    BY <1>1, <1>2, <1>3, <2>1, Zenon DEF Holding
  <2>4. FALSE /\ r = {} => \E u \in Threads : q[u] = "last"
    BY <1>1, <1>2, <1>3, <2>1, Zenon DEF Holding
  <2>5. \A u \in Threads : /\ q[u] \in Holding <=> "none" = u
                           /\ q[u] \in {"slow", "locked"} => u \in r
                           /\ q[u] = "last" => r = {}
    BY <1>1, <1>2, <1>3, <2>1, Zenon DEF Holding
  <2> HIDE DEF q
  <2> QED BY <1>1, <2>1, <2>3, <2>4, <2>5, AfterSound, Zenon DEF RefsInv
<1>9. CASE Refs!Lookup(t)
  <2> DEFINE q == p
  <2>1. /\ p[t] = "out" /\ t \notin r /\ lo = "none" /\ li
        /\ dl' = After((n + 1), (r \cup {t}), li, lo, q)
    BY <1>1, <1>9, Zenon DEF After, Refs!Lookup, Refs!Free
  <2>3. /\ (n + 1) \in Nat /\ (r \cup {t}) \in SUBSET Threads /\ lo \in Threads \cup {"none"}
        /\ q \in [Threads -> {"out", "slow"} \cup Holding]
        /\ IsFiniteSet((r \cup {t})) /\ (n + 1) = Cardinality((r \cup {t})) /\ ((r \cup {t}) # {} => li)
    BY <1>1, <1>2, <1>3, <2>1 DEF Holding
  <2>4. li /\ (r \cup {t}) = {} => \E u \in Threads : q[u] = "last"
    BY <1>1, <1>2, <1>3, <2>1, Zenon DEF Holding
  <2>5. \A u \in Threads : /\ q[u] \in Holding <=> lo = u
                           /\ q[u] \in {"slow", "locked"} => u \in (r \cup {t})
                           /\ q[u] = "last" => (r \cup {t}) = {}
    BY <1>1, <1>2, <1>3, <2>1, Zenon DEF Holding
  <2> HIDE DEF q
  <2> QED BY <1>1, <2>1, <2>3, <2>4, <2>5, AfterSound, Zenon DEF RefsInv
<1>10. CASE Refs!Create(t)
  <2> DEFINE q == p
  <2>1. /\ p[t] = "out" /\ lo = "none" /\ n = 0
        /\ dl' = After(1, {t}, TRUE, lo, q)
    BY <1>1, <1>10, Zenon DEF After, Refs!Create, Refs!Free
  <2>3. /\ 1 \in Nat /\ {t} \in SUBSET Threads /\ lo \in Threads \cup {"none"}
        /\ q \in [Threads -> {"out", "slow"} \cup Holding]
        /\ IsFiniteSet({t}) /\ 1 = Cardinality({t}) /\ ({t} # {} => TRUE)
    BY <1>1, <1>2, <1>3, <2>1, Zenon DEF Holding
  <2>4. TRUE /\ {t} = {} => \E u \in Threads : q[u] = "last"
    BY <1>1, <1>2, <1>3, <2>1, Zenon DEF Holding
  <2>5. \A u \in Threads : /\ q[u] \in Holding <=> lo = u
                           /\ q[u] \in {"slow", "locked"} => u \in {t}
                           /\ q[u] = "last" => {t} = {}
    BY <1>1, <1>2, <1>3, <2>1 DEF Holding
  <2> HIDE DEF q
  <2> QED BY <1>1, <2>1, <2>3, <2>4, <2>5, AfterSound, Zenon DEF RefsInv
<1> QED BY <1>4, <1>5, <1>6, <1>7, <1>8, <1>9, <1>10, Zenon

(* _atomic_dec_and_lock, for any number of threads: the count is the       *)
(* references out, an object with references is on the list, and a count   *)
(* of zero on the list is seen only by the holder of the lock. *)
THEOREM References ==
    ASSUME "none" \notin Threads
    PROVE  Refs!Spec => []Refs!ReferencesExact
<1>1. Refs!Init => RefsInv
  BY FS_EmptySet DEF Refs!Init, RefsInv, Sound, RefsType, Holding
<1>2. RefsInv /\ [Refs!Next]_dl => RefsInv'
  <2>1. RefsInv /\ Refs!Next => RefsInv'
    BY RefsStep, Zenon DEF Refs!Next
  <2>2. RefsInv /\ UNCHANGED dl => RefsInv'
    BY Zenon DEF RefsInv
  <2> QED BY <2>1, <2>2, Zenon
<1>3. RefsInv => Refs!ReferencesExact
  <2> SUFFICES ASSUME RefsInv PROVE Refs!ReferencesExact
    BY Zenon
  <2>1. dl.count = 0 => dl.refs = {}
    BY FS_EmptySet, Zenon DEF RefsInv, Sound
  <2>2. \A t \in Threads : dl.pc[t] = "last" => dl.lock = t
    BY Zenon DEF RefsInv, Sound, Holding
  <2>3. Refs!Cardinality(dl.refs) = Cardinality(dl.refs)
    BY Zenon DEF Refs!Cardinality, Cardinality
  <2> QED BY <2>1, <2>2, <2>3, Zenon DEF RefsInv, Sound, Refs!ReferencesExact
<1> QED BY <1>1, <1>2, <1>3, PTL DEF Refs!Spec

-----------------------------------------------------------------------------
(* Proofs, for any set of CPUs below CONFIG_NR_CPUS: count is exact, hence *)
(* every context in the slow path has a node of its own and the tail of    *)
(* the lock word names it without ambiguity.                               *)

USE DEF Nodes!Contexts, Nodes!MaxNodes, Nodes!Phases, Nodes!Top, Nodes!Enter, Nodes!Counted,
        Nodes!Below, Nodes!UsesNode

(* The inductive invariant: exact counts determine every index. *)
NodesInv == Nodes!TypeOK /\ Nodes!CountExact /\ Nodes!NodeIntact

(* The initial state satisfies the inductive invariant. *)
LEMMA InitNodes == Nodes!Init => NodesInv
BY DEF Nodes!Init, NodesInv, Nodes!TypeOK, Nodes!CountExact, Nodes!NodeIntact

(* An interrupt arrives or returns only where no node is held above. *)
LEMMA InterruptStep ==
    ASSUME NEW c \in Cpus, NEW l \in Nodes!Contexts, NodesInv,
           Nodes!Interrupt(c, l) \/ Nodes!InterruptReturn(c, l)
    PROVE  NodesInv'
<1>1. CASE Nodes!Interrupt(c, l)
  <2>1. Nodes!TypeOK'
    BY <1>1, Zenon DEF NodesInv, Nodes!TypeOK, Nodes!Interrupt
  <2>2. Nodes!CountExact'
    BY <1>1 DEF NodesInv, Nodes!TypeOK, Nodes!CountExact, Nodes!Interrupt
  <2>3. Nodes!NodeIntact'
    BY <1>1, Zenon DEF NodesInv, Nodes!TypeOK, Nodes!NodeIntact, Nodes!Interrupt
  <2> QED BY <2>1, <2>2, <2>3, Zenon DEF NodesInv
<1>2. CASE Nodes!InterruptReturn(c, l)
  <2>1. Nodes!TypeOK'
    BY <1>2, Zenon DEF NodesInv, Nodes!TypeOK, Nodes!InterruptReturn
  <2>2. Nodes!CountExact'
    BY <1>2 DEF NodesInv, Nodes!TypeOK, Nodes!CountExact, Nodes!InterruptReturn
  <2>3. Nodes!NodeIntact'
    BY <1>2, Zenon DEF NodesInv, Nodes!TypeOK, Nodes!NodeIntact, Nodes!InterruptReturn
  <2> QED BY <2>1, <2>2, <2>3, Zenon DEF NodesInv
<1> QED BY <1>1, <1>2, Zenon

(* The index loaded is the number of nodes the interrupted contexts hold. *)
LEMMA LoadCountStep ==
    ASSUME NEW c \in Cpus, NEW l \in Nodes!Contexts, NodesInv, Nodes!LoadCount(c, l)
    PROVE  NodesInv'
BY DEF NodesInv, Nodes!TypeOK, Nodes!CountExact, Nodes!NodeIntact, Nodes!LoadCount

(* Interrupts between the load and the store gave their nodes back. *)
LEMMA StoreCountStep ==
    ASSUME NEW c \in Cpus, NEW l \in Nodes!Contexts, NodesInv, Nodes!StoreCount(c, l)
    PROVE  NodesInv'
BY DEF NodesInv, Nodes!TypeOK, Nodes!CountExact, Nodes!NodeIntact, Nodes!StoreCount

(* The node is initialised when its index is already counted. *)
LEMMA InitNodeStep ==
    ASSUME NEW c \in Cpus, NEW l \in Nodes!Contexts, NodesInv, Nodes!InitNode(c, l)
    PROVE  NodesInv'
BY DEF NodesInv, Nodes!TypeOK, Nodes!CountExact, Nodes!NodeIntact, Nodes!InitNode

(* The decrement starts from the count of the context's own depth. *)
LEMMA LoadForDecrementStep ==
    ASSUME NEW c \in Cpus, NEW l \in Nodes!Contexts, NodesInv, Nodes!LoadForDecrement(c, l)
    PROVE  NodesInv'
BY DEF NodesInv, Nodes!TypeOK, Nodes!CountExact, Nodes!NodeIntact, Nodes!LoadForDecrement

(* Releasing a node leaves the nodes of the interrupted contexts alone. *)
LEMMA StoreDecrementStep ==
    ASSUME NEW c \in Cpus, NEW l \in Nodes!Contexts, NodesInv, Nodes!StoreDecrement(c, l)
    PROVE  NodesInv'
BY DEF NodesInv, Nodes!TypeOK, Nodes!CountExact, Nodes!NodeIntact, Nodes!StoreDecrement

(* NodesInv is inductive. *)
LEMMA NextNodes == NodesInv /\ [Nodes!Next]_(Nodes!vars) => NodesInv'
<1> SUFFICES ASSUME NodesInv, [Nodes!Next]_(Nodes!vars) PROVE NodesInv'
  BY Zenon
<1>1. CASE UNCHANGED Nodes!vars
  BY <1>1 DEF Nodes!vars, NodesInv, Nodes!TypeOK, Nodes!CountExact, Nodes!NodeIntact
<1>2. CASE Nodes!Next
  BY <1>2, InterruptStep, LoadCountStep, StoreCountStep, InitNodeStep,
     LoadForDecrementStep, StoreDecrementStep, Zenon DEF Nodes!Next
<1> QED
  BY <1>1, <1>2, Zenon

(* For every CPU number the BUILD_BUG_ON admits and every node index, the    *)
(* tail fits its 16 bits, is not 0, and decode_tail inverts encode_tail.     *)
LEMMA TailRoundTrip ==
    ASSUME NrCpus \in Nat, NrCpus < Nodes!TailCpuLimit,
           NEW cpu \in 0..(NrCpus - 1), NEW i \in 0..(Nodes!MaxNodes - 1)
    PROVE  /\ Nodes!EncodeTail(cpu, i) = (cpu + 1) * 4 + i
           /\ Nodes!DecodeTail(Nodes!EncodeTail(cpu, i)) = <<cpu, i>>
<1>1. cpu \in Int /\ 0 <= cpu /\ cpu <= 16382 /\ i \in Int /\ 0 <= i /\ i <= 3
  BY DEF Nodes!TailCpuLimit
<1> DEFINE x == (cpu + 1) * 4 + i
<1>2. x \in Int /\ 0 <= x /\ x <= 65535
  BY <1>1
<1>3. x % 65536 = x
  <2> HIDE DEF x
  <2> QED BY <1>2
<1>4. x \div 4 = cpu + 1 /\ x % 4 = i
  BY <1>1
<1> QED
  BY <1>3, <1>4 DEF Nodes!EncodeTail, Nodes!DecodeTail

(* The inductive invariant holds in every reachable state. *)
THEOREM NodesInvariance == Nodes!Spec => []NodesInv
BY InitNodes, NextNodes, PTL DEF Nodes!Spec

(* No index leaves the node array, whatever interrupts nest. *)
THEOREM IndexInRange == Nodes!Spec => []Nodes!TypeOK
BY NodesInvariance, PTL DEF NodesInv

(* A context's node is the one it initialised until it gives it back. *)
THEOREM NodesExclusive == Nodes!Spec => []Nodes!NodeIntact
BY NodesInvariance, PTL DEF NodesInv

(* The tail names one context of one CPU and decodes to its node. *)
THEOREM TailNamesNode ==
    ASSUME NrCpus \in Nat, NrCpus < Nodes!TailCpuLimit, Cpus \subseteq 0..(NrCpus - 1)
    PROVE  Nodes!Spec => []Nodes!TailsUnambiguous
<1>1. NodesInv => Nodes!TailsUnambiguous
  <2> SUFFICES ASSUME NodesInv, NEW c \in Cpus, NEW l \in Nodes!Contexts, Nodes!UsesNode(c, l)
               PROVE  /\ Nodes!EncodeTail(c, idx[c][l]) # 0
                      /\ Nodes!DecodeTail(Nodes!EncodeTail(c, idx[c][l])) = <<c, idx[c][l]>>
                      /\ \A d \in Cpus, m \in Nodes!Contexts :
                           Nodes!UsesNode(d, m) /\ Nodes!EncodeTail(d, idx[d][m]) = Nodes!EncodeTail(c, idx[c][l])
                             => d = c /\ m = l
    BY Zenon DEF Nodes!TailsUnambiguous
  <2>1. ASSUME NEW d \in Cpus, NEW m \in Nodes!Contexts
        PROVE  d \in 0..(NrCpus - 1) /\ idx[d][m] \in 0..(Nodes!MaxNodes - 1)
    BY DEF NodesInv, Nodes!TypeOK
  <2>2. ASSUME NEW d \in Cpus, NEW m \in Nodes!Contexts
        PROVE  /\ Nodes!EncodeTail(d, idx[d][m]) = (d + 1) * 4 + idx[d][m]
               /\ Nodes!DecodeTail(Nodes!EncodeTail(d, idx[d][m])) = <<d, idx[d][m]>>
    BY <2>1, TailRoundTrip, Zenon
  <2>3. Nodes!EncodeTail(c, idx[c][l]) # 0
    BY <2>1, <2>2
  <2>4. ASSUME NEW d \in Cpus, NEW m \in Nodes!Contexts, Nodes!UsesNode(d, m),
               Nodes!EncodeTail(d, idx[d][m]) = Nodes!EncodeTail(c, idx[c][l])
        PROVE  d = c /\ m = l
    <3>1. d = c /\ idx[d][m] = idx[c][l]
      BY <2>1, <2>2, <2>4
    <3> QED
      BY <3>1, <2>4, Zenon DEF NodesInv, Nodes!NodeIntact
  <2> QED
    BY <2>2, <2>3, <2>4, Zenon
<1> QED
  BY <1>1, NodesInvariance, PTL
=============================================================================
