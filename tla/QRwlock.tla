------------------------------- MODULE QRwlock -------------------------------
(***************************************************************************)
(* The queued read/write lock of core/locking/qrwlock.c and                *)
(* asm-generic/qrwlock.h.  A CPU runs a task and, on the CPUs of Handlers, *)
(* an interrupt handler that reads under the lock; tasks read with         *)
(* interrupts enabled and write with interrupts disabled (write_lock_irq), *)
(* the use that rwlocks are made for.  An interrupted task does not run.   *)
(*                                                                         *)
(* cnts is the reader count (bits 9 and up), the waiting bit (8) and the   *)
(* locked byte (0-7).  wait_lock is an arch_spinlock_t; what it promises   *)
(* is what SpinLockSpec says.  Every action is one access to shared        *)
(* memory.                                                                 *)
(***************************************************************************)
EXTENDS Integers, FiniteSets

CONSTANTS Cpus,
          Handlers  \* the CPUs whose interrupt handlers take the lock

ASSUME CpusAssumption == IsFiniteSet(Cpus) /\ Handlers \subseteq Cpus

Contexts == Cpus \X {"task", "irq"}

None == <<>>

VARIABLES cnts,       \* lock->cnts
          wait_lock,  \* the context that holds lock->wait_lock, or None
          pc          \* where each context is

vars == <<cnts, wait_lock, pc>>

PCs == {"idle", "reading", "writing",
        "rtry_add", "rtry_sub", "wtry_cmpxchg",
        "read_slow", "read_queue", "read_add", "read_wait", "read_pass",
        "write_slow", "write_load", "write_cmpxchg", "write_flag",
        "write_wait", "write_claim", "write_pass"}

\* Where write_lock_irq has disabled the interrupts.
IrqsOff == {"writing", "wtry_cmpxchg", "write_slow", "write_load", "write_cmpxchg",
            "write_flag", "write_wait", "write_claim", "write_pass"}

\* Where the context has its _QR_BIAS in cnts.
Biased == {"reading", "rtry_sub", "read_slow", "read_wait", "read_pass"}

\* Where the context has wait_lock.
Queued == {"read_add", "read_wait", "read_pass", "write_load", "write_cmpxchg",
           "write_flag", "write_wait", "write_claim", "write_pass"}

Init ==
    /\ cnts = [readers |-> 0, waiting |-> FALSE, locked |-> FALSE]
    /\ wait_lock = None
    /\ pc = [c \in Contexts |-> "idle"]

InInterrupt(c) == c[2] = "irq"

\* A handler starts when its CPU has interrupts enabled; the task goes on when
\* the handler is done.
CanRun(c) ==
    IF InInterrupt(c)
    THEN c[1] \in Handlers /\ (pc[c] # "idle" \/ pc[<<c[1], "task">>] \notin IrqsOff)
    ELSE pc[<<c[1], "irq">>] = "idle"

Step(c, from, to) ==
    /\ pc[c] = from
    /\ CanRun(c)
    /\ pc' = [pc EXCEPT ![c] = to]

Free == cnts.readers = 0 /\ ~cnts.waiting /\ ~cnts.locked

NoWriter == ~cnts.waiting /\ ~cnts.locked

AddBias == cnts' = [cnts EXCEPT !.readers = @ + 1]

SubBias == cnts' = [cnts EXCEPT !.readers = @ - 1]

-----------------------------------------------------------------------------
(* Readers                                                                 *)

\* Mutated form: a waiting writer does not hold a new reader back.
ReadLockPastWaiter(c) ==
    /\ Step(c, "idle", IF cnts.locked THEN "read_slow" ELSE "reading")
    /\ AddBias
    /\ UNCHANGED wait_lock

ReadLock(c) ==
    /\ Step(c, "idle", IF NoWriter THEN "reading" ELSE "read_slow")
    /\ AddBias
    /\ UNCHANGED wait_lock

\* queued_read_trylock; when the load sees a writer it is over.
ReadTrylock(c) ==
    /\ NoWriter
    /\ Step(c, "idle", "rtry_add")
    /\ UNCHANGED <<cnts, wait_lock>>

\* Mutated form: the sum is not looked at.
ReadTryAddBlindly(c) ==
    /\ Step(c, "rtry_add", "reading")
    /\ AddBias
    /\ UNCHANGED wait_lock

ReadTryAdd(c) ==
    /\ Step(c, "rtry_add", IF NoWriter THEN "reading" ELSE "rtry_sub")
    /\ AddBias
    /\ UNCHANGED wait_lock

ReadTrySub(c) ==
    /\ Step(c, "rtry_sub", "idle")
    /\ SubBias
    /\ UNCHANGED wait_lock

ReadWaitInInterrupt(c) ==
    /\ InInterrupt(c)
    /\ ~cnts.locked
    /\ Step(c, "read_slow", "reading")
    /\ UNCHANGED <<cnts, wait_lock>>

ReadBackOut(c) ==
    /\ ~InInterrupt(c)
    /\ Step(c, "read_slow", "read_queue")
    /\ SubBias
    /\ UNCHANGED wait_lock

SpinLock(c, from, to) ==
    /\ wait_lock = None
    /\ Step(c, from, to)
    /\ wait_lock' = c
    /\ UNCHANGED cnts

SpinUnlock(c, from, to) ==
    /\ Step(c, from, to)
    /\ wait_lock' = None
    /\ UNCHANGED cnts

ReadQueue(c) == SpinLock(c, "read_queue", "read_add")

ReadAdd(c) ==
    /\ Step(c, "read_add", "read_wait")
    /\ AddBias
    /\ UNCHANGED wait_lock

ReadWait(c) ==
    /\ ~cnts.locked
    /\ Step(c, "read_wait", "read_pass")
    /\ UNCHANGED <<cnts, wait_lock>>

ReadPass(c) == SpinUnlock(c, "read_pass", "reading")

ReadUnlock(c) ==
    /\ Step(c, "reading", "idle")
    /\ SubBias
    /\ UNCHANGED wait_lock

-----------------------------------------------------------------------------
(* Writers                                                                 *)

\* cmpxchg of _QW_LOCKED for 0
CmpxchgFree(c, from, success, failure) ==
    /\ Step(c, from, IF Free THEN success ELSE failure)
    /\ cnts' = [cnts EXCEPT !.locked = @ \/ Free]
    /\ UNCHANGED wait_lock

WriteLock(c) == ~InInterrupt(c) /\ CmpxchgFree(c, "idle", "writing", "write_slow")

\* queued_write_trylock; when the load sees anything it is over.
WriteTrylock(c) ==
    /\ ~InInterrupt(c)
    /\ Free
    /\ Step(c, "idle", "wtry_cmpxchg")
    /\ UNCHANGED <<cnts, wait_lock>>

WriteTryCmpxchg(c) == CmpxchgFree(c, "wtry_cmpxchg", "writing", "idle")

WriteQueue(c) == SpinLock(c, "write_slow", "write_load")

\* Mutated form: the writer at the head spins and sets no waiting bit.
WriteLoadSpinning(c) ==
    /\ Step(c, "write_load", IF Free THEN "write_cmpxchg" ELSE "write_load")
    /\ UNCHANGED <<cnts, wait_lock>>

WriteLoad(c) ==
    /\ Step(c, "write_load", IF Free THEN "write_cmpxchg" ELSE "write_flag")
    /\ UNCHANGED <<cnts, wait_lock>>

WriteCmpxchg(c) == CmpxchgFree(c, "write_cmpxchg", "write_pass", "write_flag")

\* atomic_add of the waiting bit, which carries into the reader count if the
\* bit is set already.
WriteFlag(c) ==
    /\ Step(c, "write_flag", "write_wait")
    /\ cnts' = [cnts EXCEPT !.waiting = ~@,
                            !.readers = IF cnts.waiting THEN @ + 1 ELSE @]
    /\ UNCHANGED wait_lock

\* The value is _QW_WAITING alone.
OnlyWaiting == cnts.readers = 0 /\ cnts.waiting /\ ~cnts.locked

WriteWait(c) ==
    /\ OnlyWaiting
    /\ Step(c, "write_wait", "write_claim")
    /\ UNCHANGED <<cnts, wait_lock>>

WriteClaim(c) ==
    /\ Step(c, "write_claim", IF OnlyWaiting THEN "write_pass" ELSE "write_wait")
    /\ cnts' = IF OnlyWaiting
               THEN [cnts EXCEPT !.waiting = FALSE, !.locked = TRUE]
               ELSE cnts
    /\ UNCHANGED wait_lock

WritePass(c) == SpinUnlock(c, "write_pass", "writing")

\* Mutated form: the whole word is cleared, and not the locked byte alone.
WriteUnlockAll(c) ==
    /\ Step(c, "writing", "idle")
    /\ cnts' = [cnts EXCEPT !.locked = FALSE, !.waiting = FALSE]
    /\ UNCHANGED wait_lock

WriteUnlock(c) ==
    /\ Step(c, "writing", "idle")
    /\ cnts' = [cnts EXCEPT !.locked = FALSE]
    /\ UNCHANGED wait_lock

-----------------------------------------------------------------------------
\* A request that the context may make or not.
Request(c) == ReadLock(c) \/ ReadTrylock(c) \/ WriteLock(c) \/ WriteTrylock(c)

\* The steps of a request that is under way, taking wait_lock apart.
Proceed(c) ==
    \/ ReadTryAdd(c) \/ ReadTrySub(c)
    \/ ReadWaitInInterrupt(c) \/ ReadBackOut(c)
    \/ ReadAdd(c) \/ ReadWait(c) \/ ReadPass(c) \/ ReadUnlock(c)
    \/ WriteTryCmpxchg(c) \/ WriteLoad(c) \/ WriteCmpxchg(c) \/ WriteFlag(c)
    \/ WriteWait(c) \/ WriteClaim(c) \/ WritePass(c) \/ WriteUnlock(c)

Queue(c) == ReadQueue(c) \/ WriteQueue(c)

Next == \E c \in Contexts : Request(c) \/ Proceed(c) \/ Queue(c)

Spec == Init /\ [][Next]_vars

\* CPUs do not stop, critical sections end, and wait_lock starves nobody
\* (NoStarvation of QSpinlock).
Fairness == \A c \in Contexts : WF_vars(Proceed(c)) /\ SF_vars(Queue(c))

FairSpec == Spec /\ Fairness

-----------------------------------------------------------------------------
(* Properties                                                              *)

TypeOK ==
    /\ cnts \in [readers : Nat, waiting : BOOLEAN, locked : BOOLEAN]
    /\ wait_lock \in Contexts \cup {None}
    /\ pc \in [Contexts -> PCs]

Readers == {c \in Contexts : pc[c] \in Biased}

\* The contexts that have the lock, with wait_lock perhaps still to be passed on.
ReadersIn == {c \in Contexts : pc[c] \in {"reading", "read_pass"}}

WritersIn == {c \in Contexts : pc[c] \in {"writing", "write_pass"}}

\* A writer is let in alone: no reader and no other writer is in.
Exclusion ==
    \A w \in WritersIn : ReadersIn = {} /\ WritersIn = {w}

\* cnts counts what the contexts have put in: a bias for every reader that is
\* in or about to back out, the waiting bit of the writer at the head of the
\* queue, the locked byte of the writer that is in.  A missed or a second
\* decrement, or a waiting bit added twice, would show here.
CntsExact ==
    /\ cnts.readers = Cardinality(Readers)
    /\ cnts.waiting <=> \E c \in Contexts : pc[c] \in {"write_wait", "write_claim"}
    /\ cnts.locked <=> WritersIn # {}

\* wait_lock is with the one context that is at the head of the queue.
HeadUnique == \A c \in Contexts : pc[c] \in Queued <=> wait_lock = c

\* A writer that has announced itself is not overtaken by tasks: while it
\* waits, only handlers and tasks that were in already read.
NotOvertaken ==
    [][\A w, c \in Contexts :
         /\ pc[w] \in {"write_wait", "write_claim"}
         /\ pc[c] # "reading" /\ pc'[c] = "reading"
         => InInterrupt(c)]_vars

\* No handler is inside the lock or on its way in.
HandlersQuiet == \A c \in Contexts : InInterrupt(c) => pc[c] = "idle"

\* A handler that finds a writer in gets the lock when that writer leaves,
\* whatever other writers wait: its bias is in cnts.  Unless handlers, which do
\* not queue, keep coming for ever, every writer is served, although readers
\* that back out disturb cnts while it waits, and every task that reads,
\* although writers keep coming.
Served ==
    /\ \A c \in Contexts : (pc[c] = "read_slow" /\ InInterrupt(c)) ~> pc[c] = "reading"
    /\ <>[]HandlersQuiet => \A c \in Contexts : /\ pc[c] = "write_slow" ~> pc[c] = "writing"
                                                /\ pc[c] = "read_slow" ~> pc[c] = "reading"
=============================================================================
