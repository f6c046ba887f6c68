------------------------------ MODULE QSpinlock ------------------------------
(***************************************************************************)
(* The queued spinlock of core/locking/qspinlock.c for one lock word.      *)
(*                                                                         *)
(* A thread is one execution context (a CPU in task, softirq, hardirq or   *)
(* NMI context); it owns one MCS node while it is in the slow path, which  *)
(* module QNodes justifies.  The 32-bit lock word is the triple            *)
(* (tail, pending, locked); tail is the thread whose node it encodes, or   *)
(* NoThread.  Every action is one access to shared memory together with    *)
(* the local computation up to the next access; a local is reset where it  *)
(* is dead.  Memory is sequentially                                        *)
(* consistent: the acquire, release and barrier annotations of the code    *)
(* are taken at their word.                                                *)
(***************************************************************************)
EXTENDS Integers, FiniteSets

CONSTANTS Threads,      \* contexts that use the lock
          NoThread,     \* the null tail and the NULL node pointer
          PendingLoops  \* _Q_PENDING_LOOPS

ASSUME NoThreadAssumption == NoThread \notin Threads
ASSUME PendingLoopsAssumption == PendingLoops \in Nat

VARIABLES tail, pending, locked,  \* the lock word
          mcsLocked, mcsNext,     \* node->locked and node->next, per thread
          pc,                     \* where each thread is
          cnt,                    \* remaining spins on a pending hand-over
          prev, next              \* the slow path's locals of those names

vars == <<tail, pending, locked, mcsLocked, mcsNext, pc, cnt, prev, next>>
word == <<tail, pending, locked>>
node == <<mcsLocked, mcsNext>>
locals == <<cnt, prev, next>>

\* Program points, each named after the shared access that comes next.
Idle == "idle"                  \* outside the lock
Fast == "fast"                  \* queued_spin_lock: try_cmpxchg(0 -> LOCKED)
Spin == "spin"                  \* bounded wait while the word is (0,1,0)
SetPending == "set_pending"     \* fetch_or(PENDING)
UndoPending == "undo_pending"   \* clear_pending
WaitOwner == "wait_owner"       \* pending, wait for !locked
TakePending == "take_pending"   \* clear_pending_set_locked
InitNode == "init_node"         \* grab and initialise the MCS node
Retry == "retry"                \* queued_spin_trylock from the slow path
XchgTail == "xchg_tail"
Link == "link"                  \* WRITE_ONCE(prev->next, node)
WaitNode == "wait_node"         \* arch_mcs_spin_lock_contended
ReadNext == "read_next"         \* READ_ONCE(node->next)
WaitHead == "wait_head"         \* wait for !(locked | pending)
Claim == "claim"                \* try_cmpxchg(val -> LOCKED)
SetLocked == "set_locked"
WaitNext == "wait_next"         \* wait for node->next
PassHead == "pass_head"         \* arch_mcs_spin_unlock_contended
Held == "held"                  \* queued_spin_lock has returned

PCs == {Idle, Fast, Spin, SetPending, UndoPending, WaitOwner, TakePending,
        InitNode, Retry, XchgTail, Link, WaitNode, ReadNext, WaitHead, Claim,
        SetLocked, WaitNext, PassHead, Held}

Goto(t, l) == pc' = [pc EXCEPT ![t] = l]
At(t, l) == pc[t] = l

Init ==
    /\ tail = NoThread /\ pending = 0 /\ locked = 0
    /\ mcsLocked = [t \in Threads |-> 0]
    /\ mcsNext = [t \in Threads |-> NoThread]
    /\ pc = [t \in Threads |-> Idle]
    /\ cnt = [t \in Threads |-> 0]
    /\ prev = [t \in Threads |-> NoThread]
    /\ next = [t \in Threads |-> NoThread]

\* The lock word is 0.
Unlocked == tail = NoThread /\ pending = 0 /\ locked = 0
\* val & ~_Q_LOCKED_MASK
Contended == tail # NoThread \/ pending = 1
\* val == _Q_PENDING_VAL
OnlyPending == tail = NoThread /\ pending = 1 /\ locked = 0

-----------------------------------------------------------------------------
(* queued_spin_lock and the pending-bit half of the slow path              *)

Request(t) ==
    /\ At(t, Idle)
    /\ Goto(t, Fast)
    /\ UNCHANGED <<word, node, locals>>

\* Mutated form: the locked byte alone decides.
TrylockIgnoresWaiters(t) ==
    /\ At(t, Idle)
    /\ locked = 0
    /\ locked' = 1
    /\ Goto(t, Held)
    /\ UNCHANGED <<tail, pending, node, locals>>

\* queued_spin_trylock from outside the slow path: fails without a trace.
Trylock(t) ==
    /\ At(t, Idle)
    /\ Unlocked
    /\ locked' = 1
    /\ Goto(t, Held)
    /\ UNCHANGED <<tail, pending, node, locals>>

\* The slow path with the value just read.
FirstLook(t) == IF Contended THEN Goto(t, InitNode) ELSE Goto(t, SetPending)

FastPath(t) ==
    /\ At(t, Fast)
    /\ \/ /\ Unlocked
          /\ locked' = 1
          /\ Goto(t, Held)
          /\ UNCHANGED cnt
       \/ /\ OnlyPending
          /\ cnt' = [cnt EXCEPT ![t] = PendingLoops]
          /\ Goto(t, Spin)
          /\ UNCHANGED locked
       \/ /\ ~Unlocked /\ ~OnlyPending
          /\ FirstLook(t)
          /\ UNCHANGED <<locked, cnt>>
    /\ UNCHANGED <<tail, pending, node, prev, next>>

\* Mutated form: the spins are not counted.
SpinWithoutCount(t) ==
    /\ At(t, Spin)
    /\ \/ OnlyPending /\ UNCHANGED <<pc, cnt>>
       \/ ~OnlyPending /\ FirstLook(t) /\ cnt' = [cnt EXCEPT ![t] = 0]
    /\ UNCHANGED <<word, node, prev, next>>

SpinOnHandover(t) ==
    /\ At(t, Spin)
    /\ \/ /\ OnlyPending /\ cnt[t] > 0
          /\ cnt' = [cnt EXCEPT ![t] = @ - 1]
          /\ UNCHANGED pc
       \/ /\ ~OnlyPending \/ cnt[t] = 0
          /\ FirstLook(t)
          /\ cnt' = [cnt EXCEPT ![t] = 0]
    /\ UNCHANGED <<word, node, prev, next>>

FetchSetPending(t) ==
    /\ At(t, SetPending)
    /\ pending' = 1
    /\ Goto(t, CASE Contended /\ pending = 0 -> UndoPending
                 [] Contended /\ pending = 1 -> InitNode
                 [] ~Contended /\ locked = 1 -> WaitOwner
                 [] ~Contended /\ locked = 0 -> TakePending)
    /\ UNCHANGED <<tail, locked, node, locals>>

ClearPending(t) ==
    /\ At(t, UndoPending)
    /\ pending' = 0
    /\ Goto(t, InitNode)
    /\ UNCHANGED <<tail, locked, node, locals>>

OwnerGone(t) ==
    /\ At(t, WaitOwner)
    /\ locked = 0
    /\ Goto(t, TakePending)
    /\ UNCHANGED <<word, node, locals>>

ClearPendingSetLocked(t) ==
    /\ At(t, TakePending)
    /\ pending' = 0 /\ locked' = 1
    /\ Goto(t, Held)
    /\ UNCHANGED <<tail, node, locals>>

-----------------------------------------------------------------------------
(* The MCS queue half of the slow path                                     *)

InitialiseNode(t) ==
    /\ At(t, InitNode)
    /\ mcsLocked' = [mcsLocked EXCEPT ![t] = 0]
    /\ mcsNext' = [mcsNext EXCEPT ![t] = NoThread]
    /\ Goto(t, Retry)
    /\ UNCHANGED <<word, locals>>

SlowTrylock(t) ==
    /\ At(t, Retry)
    /\ \/ Unlocked /\ locked' = 1 /\ Goto(t, Held)
       \/ ~Unlocked /\ UNCHANGED locked /\ Goto(t, XchgTail)
    /\ UNCHANGED <<tail, pending, node, locals>>

ExchangeTail(t) ==
    /\ At(t, XchgTail)
    /\ tail' = t
    /\ prev' = [prev EXCEPT ![t] = tail]
    /\ next' = [next EXCEPT ![t] = NoThread]
    /\ Goto(t, IF tail = NoThread THEN WaitHead ELSE Link)
    /\ UNCHANGED <<pending, locked, node, cnt>>

LinkNode(t) ==
    /\ At(t, Link)
    /\ mcsNext' = [mcsNext EXCEPT ![prev[t]] = t]
    /\ Goto(t, WaitNode)
    /\ UNCHANGED <<word, mcsLocked, locals>>

\* Mutated form: the predecessor is not waited for.
HeadNotAwaited(t) ==
    /\ At(t, WaitNode)
    /\ prev' = [prev EXCEPT ![t] = NoThread]
    /\ Goto(t, ReadNext)
    /\ UNCHANGED <<word, node, cnt, next>>

HeadArrived(t) ==
    /\ At(t, WaitNode)
    /\ mcsLocked[t] = 1
    /\ prev' = [prev EXCEPT ![t] = NoThread]
    /\ Goto(t, ReadNext)
    /\ UNCHANGED <<word, node, cnt, next>>

LoadNext(t) ==
    /\ At(t, ReadNext)
    /\ next' = [next EXCEPT ![t] = mcsNext[t]]
    /\ Goto(t, WaitHead)
    /\ UNCHANGED <<word, node, cnt, prev>>

\* Mutated form: the head does not wait for the pending context.
LockFreeIgnoresPending(t) ==
    /\ At(t, WaitHead)
    /\ locked = 0
    /\ Goto(t, IF tail = t THEN Claim ELSE SetLocked)
    /\ UNCHANGED <<word, node, locals>>

LockFree(t) ==
    /\ At(t, WaitHead)
    /\ locked = 0 /\ pending = 0
    /\ Goto(t, IF tail = t THEN Claim ELSE SetLocked)
    /\ UNCHANGED <<word, node, locals>>

ClaimUncontended(t) ==
    /\ At(t, Claim)
    /\ \/ /\ word = <<t, 0, 0>>
          /\ tail' = NoThread /\ locked' = 1
          /\ Goto(t, Held)
       \/ /\ word # <<t, 0, 0>>
          /\ Goto(t, SetLocked)
          /\ UNCHANGED <<tail, locked>>
    /\ UNCHANGED <<pending, node, locals>>

TakeLock(t) ==
    /\ At(t, SetLocked)
    /\ locked' = 1
    /\ Goto(t, IF next[t] = NoThread THEN WaitNext ELSE PassHead)
    /\ UNCHANGED <<tail, pending, node, locals>>

NextArrived(t) ==
    /\ At(t, WaitNext)
    /\ mcsNext[t] # NoThread
    /\ next' = [next EXCEPT ![t] = mcsNext[t]]
    /\ Goto(t, PassHead)
    /\ UNCHANGED <<word, node, cnt, prev>>

PassHeadOn(t) ==
    /\ At(t, PassHead)
    /\ mcsLocked' = [mcsLocked EXCEPT ![next[t]] = 1]
    /\ next' = [next EXCEPT ![t] = NoThread]
    /\ Goto(t, Held)
    /\ UNCHANGED <<word, mcsNext, cnt, prev>>

Unlock(t) ==
    /\ At(t, Held)
    /\ locked' = 0
    /\ Goto(t, Idle)
    /\ UNCHANGED <<tail, pending, node, locals>>

-----------------------------------------------------------------------------
\* A thread inside queued_spin_lock or queued_spin_unlock.
Step(t) ==
    \/ FastPath(t) \/ SpinOnHandover(t) \/ FetchSetPending(t)
    \/ ClearPending(t) \/ OwnerGone(t) \/ ClearPendingSetLocked(t)
    \/ InitialiseNode(t) \/ SlowTrylock(t) \/ ExchangeTail(t) \/ LinkNode(t)
    \/ HeadArrived(t) \/ LoadNext(t) \/ LockFree(t) \/ ClaimUncontended(t)
    \/ TakeLock(t) \/ NextArrived(t) \/ PassHeadOn(t) \/ Unlock(t)

Next == \E t \in Threads : Request(t) \/ Trylock(t) \/ Step(t)

Spec == Init /\ [][Next]_vars

\* Every running context keeps executing, and a holder eventually unlocks;
\* asking for the lock is never required.
FairSpec == Spec /\ \A t \in Threads : WF_vars(Step(t))

-----------------------------------------------------------------------------
\* Owners of the lock: set_locked is the acquisition, what follows is queue
\* housekeeping done while holding it.
Owns(t) == pc[t] \in {WaitNext, PassHead, Held}
\* Between xchg_tail and the hand-over of the queue head.
Queued(t) == pc[t] \in {Link, WaitNode, ReadNext, WaitHead, Claim, SetLocked,
                        WaitNext, PassHead}
\* Queued and not yet told it is the head.
Waits(t) == At(t, Link) \/ (At(t, WaitNode) /\ mcsLocked[t] = 0)
Heads(t) == Queued(t) /\ ~Waits(t)
\* The pending bit is this thread's to clear.
Pends(t) == pc[t] \in {UndoPending, WaitOwner, TakePending}
Tries(t) == ~Owns(t) /\ ~At(t, Idle)

(* Type correctness of the lock word, the nodes and the slow path locals. *)
TypeOK ==
    /\ tail \in Threads \cup {NoThread}
    /\ pending \in {0, 1} /\ locked \in {0, 1}
    /\ mcsLocked \in [Threads -> {0, 1}]
    /\ mcsNext \in [Threads -> Threads \cup {NoThread}]
    /\ pc \in [Threads -> PCs]
    /\ cnt \in [Threads -> 0..PendingLoops]
    /\ prev \in [Threads -> Threads \cup {NoThread}]
    /\ next \in [Threads -> Threads \cup {NoThread}]

(* No two contexts own the lock, and whoever owns it shows in the locked    *)
(* byte: queued_spin_lock returns to one context at a time whichever of the *)
(* five acquisition paths of the fast path, the pending bit and the queue   *)
(* it took.                                                                 *)
MutualExclusion ==
    /\ \A t, u \in Threads : Owns(t) /\ Owns(u) => t = u
    /\ locked = 1 <=> \E t \in Threads : Owns(t)

(* The pending bit belongs to exactly one context: the `undo' branch and    *)
(* clear_pending_set_locked never wipe out another context's bit.           *)
PendingOwned ==
    /\ \A t, u \in Threads : Pends(t) /\ Pends(u) => t = u
    /\ pending = 1 <=> \E t \in Threads : Pends(t)

(* "Lock stealing is not allowed if this function is used": whoever is      *)
(* about to write the locked byte with a plain store finds it clear, so     *)
(* the store never overwrites another owner's byte.                         *)
NoStealing ==
    \A t \in Threads :
        pc[t] \in {TakePending, Claim, SetLocked} => locked = 0

(* The MCS queue has one head and is not lost: a context that spins on its  *)
(* node waits for a live predecessor, no two wait for the same one, and the *)
(* tail is a member of the queue.                                           *)
QueueShape ==
    /\ \A t, u \in Threads : Heads(t) /\ Heads(u) => t = u
    /\ \A t \in Threads : Heads(t) => tail # NoThread
    /\ tail # NoThread => Queued(tail)
    /\ \A u \in Threads : Waits(u) =>
         /\ prev[u] \in Threads /\ Queued(prev[u]) /\ prev[u] # tail
         /\ \A w \in Threads : Waits(w) /\ prev[w] = prev[u] => w = u

(* A node that is passed the head is spinning for it: next always points to *)
(* a linked successor that has not been woken, never to a stale node.       *)
LinksLive ==
    \A t \in Threads :
        /\ Queued(t) /\ mcsNext[t] # NoThread =>
             /\ At(mcsNext[t], WaitNode) /\ mcsLocked[mcsNext[t]] = 0
             /\ prev[mcsNext[t]] = t
        /\ pc[t] \in {WaitHead, Claim, SetLocked, PassHead}
             /\ next[t] # NoThread => next[t] = mcsNext[t]
        /\ At(t, PassHead) => next[t] # NoThread
        /\ pc[t] \in {Retry, XchgTail} => mcsNext[t] = NoThread
        /\ pc[t] \in {Retry, XchgTail, Link} => mcsLocked[t] = 0

(* A pending context and the queue head never compete for a free lock.      *)
PendingBeforeQueue ==
    \A t, u \in Threads :
        ~(pc[t] \in {WaitOwner, TakePending} /\ pc[u] \in {Claim, SetLocked})

(* The inductive invariant behind mutual exclusion. *)
IInv == /\ TypeOK /\ MutualExclusion /\ PendingOwned /\ NoStealing
        /\ QueueShape /\ LinksLive /\ PendingBeforeQueue

-----------------------------------------------------------------------------
\* The threads u waits behind, through any number of predecessors: what is in
\* every set that has the predecessors of u and of its waiting members.
Ahead(u) ==
    {t \in Threads : \A S \in SUBSET Threads :
        (\A w \in S \cup {u} : Waits(w) => prev[w] \in S) => t \in S}

(* A context that has queued behind another stays behind it until the other *)
(* owns the lock: xchg_tail fixes the order in which the queue is served.   *)
FifoQueue ==
    [][\A u \in Threads : \A t \in Ahead(u) : t \in Ahead(u)' \/ Owns(t)']_vars

(* Every context that asks for the lock gets it, if contexts keep running   *)
(* and holders unlock: the bounded pending spin, the undone pending bit and *)
(* the wait for a successor's link never leave a context spinning for good. *)
NoStarvation == \A t \in Threads : At(t, Fast) ~> At(t, Held)

Lock == INSTANCE SpinLockSpec WITH
            waiting <- {t \in Threads : Tries(t)},
            holders <- {t \in Threads : Owns(t)}

(* The queued spinlock implements the abstract lock. *)
ImplementsLock == Lock!Spec
=============================================================================
