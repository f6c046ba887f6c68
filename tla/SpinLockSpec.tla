---------------------------- MODULE SpinLockSpec ----------------------------
(***************************************************************************)
(* What a spinlock promises its callers, with no trace of how the queued   *)
(* spinlock of core/locking/qspinlock.c keeps the promise: a context asks  *)
(* for the lock, receives it when nobody has it, and gives it back.  A     *)
(* trylock takes a free lock or gives up at once.                          *)
(***************************************************************************)
CONSTANT Threads

VARIABLES waiting,  \* contexts inside queued_spin_lock()
          holders   \* contexts that own the lock

vars == <<waiting, holders>>

Init == waiting = {} /\ holders = {}

Request(t) ==
    /\ t \notin waiting \cup holders
    /\ waiting' = waiting \cup {t}
    /\ UNCHANGED holders

Acquire(t) ==
    /\ t \in waiting
    /\ holders = {}
    /\ waiting' = waiting \ {t}
    /\ holders' = {t}

Trylock(t) ==
    /\ t \notin waiting \cup holders
    /\ holders = {}
    /\ holders' = {t}
    /\ UNCHANGED waiting

Release(t) ==
    /\ t \in holders
    /\ holders' = holders \ {t}
    /\ UNCHANGED waiting

Next == \E t \in Threads : Request(t) \/ Acquire(t) \/ Trylock(t) \/ Release(t)

Spec == Init /\ [][Next]_vars
=============================================================================
