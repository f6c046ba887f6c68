------------------------------ MODULE DecAndLock ------------------------------
(***************************************************************************)
(* Dropping the last reference under a lock: _atomic_dec_and_lock and its  *)
(* irqsave form of kernel/lib/dec_and_lock.c.  The users are external: an  *)
(* object on a list that `lock` guards, found there by Lookup under the    *)
(* lock, and taken off and freed by the one whose drop returned locked.    *)
(*                                                                         *)
(*   count    the object's atomic; listed, whether it is still on the list *)
(*   lock     the holder of the lock, or "none"                            *)
(*   refs     the threads that hold a reference; pc, where a thread is     *)
(***************************************************************************)
EXTENDS Integers, FiniteSets

CONSTANT Threads

VARIABLE dl

Goto(st, t, l)  == [st EXCEPT !.pc[t] = l]
SpinLock(st, t) == [st EXCEPT !.lock = t]
SpinUnlock(st)  == [st EXCEPT !.lock = "none"]
Free == dl.lock = "none"

(* A plausible slip: the two steps of the NOTE above the function, which   *)
(* drop to zero first and lock afterwards.                                 *)
DecUnlessOneAlways(st, t) == Goto([st EXCEPT !.count = @ - 1, !.refs = @ \ {t}], t,
                                  IF st.count = 1 THEN "last" ELSE "out")

(* atomic_add_unless(atomic, -1, 1): drop the reference unless it is the   *)
(* last, else the slow way.                                                *)
DecUnlessOne(st, t) ==
    IF st.count # 1 THEN [st EXCEPT !.count = @ - 1, !.refs = @ \ {t}]
    ELSE Goto(st, t, "slow")

(* Under the lock: the count may have grown meanwhile.  Locked on zero.    *)
DecAndTest(st, t) ==
    [st EXCEPT !.count = @ - 1, !.refs = @ \ {t},
               !.pc[t] = IF st.count = 1 THEN "last" ELSE "unlock"]

Drop(t) ==
    /\ dl.pc[t] = "out" /\ t \in dl.refs
    /\ dl' = DecUnlessOne(dl, t)

Slow(t) == dl.pc[t] = "slow" /\ Free /\ dl' = Goto(SpinLock(dl, t), t, "locked")

Locked(t) == dl.pc[t] = "locked" /\ dl' = DecAndTest(dl, t)

Unlock(t) == dl.pc[t] = "unlock" /\ dl' = Goto(SpinUnlock(dl), t, "out")

(* External: the object is taken off the list and freed, then unlocked.    *)
Unlink(t) ==
    /\ dl.pc[t] = "last"
    /\ dl' = Goto(SpinUnlock([dl EXCEPT !.listed = FALSE]), t, "out")

(* External: find the object on the list, under the lock, and take a       *)
(* reference.                                                              *)
Lookup(t) ==
    /\ dl.pc[t] = "out" /\ t \notin dl.refs /\ Free /\ dl.listed
    /\ dl' = [dl EXCEPT !.count = @ + 1, !.refs = @ \cup {t}]

(* External: a new object with its first reference.                        *)
Create(t) ==
    /\ dl.pc[t] = "out" /\ Free /\ ~dl.listed /\ dl.count = 0
    /\ dl' = [dl EXCEPT !.count = 1, !.refs = {t}, !.listed = TRUE]

Init == dl = [count |-> 0, refs |-> {}, listed |-> FALSE, lock |-> "none",
              pc |-> [t \in Threads |-> "out"]]

Next == \E t \in Threads :
           Drop(t) \/ Slow(t) \/ Locked(t) \/ Unlock(t) \/ Unlink(t) \/ Lookup(t) \/ Create(t)

Spec == Init /\ [][Next]_dl

-----------------------------------------------------------------------------
(* dec_and_lock.c: the count is the references out, an object with         *)
(* references is on the list, and a count of zero on the list is seen only *)
(* by the one who holds the lock to take it off.                           *)
ReferencesExact ==
    /\ dl.count = Cardinality(dl.refs)
    /\ dl.refs # {} => dl.listed
    /\ dl.listed /\ dl.count = 0 => \E t \in Threads : dl.pc[t] = "last" /\ dl.lock = t

=============================================================================
