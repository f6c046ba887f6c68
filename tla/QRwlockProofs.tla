---------------------------- MODULE QRwlockProofs ----------------------------
(***************************************************************************)
(* Proofs about QRwlock for any finite set of CPUs and any choice of the   *)
(* CPUs whose handlers read: the word counts exactly what the contexts put *)
(* into it, hence a writer is alone, and a waiting writer is not overtaken *)
(* by tasks.                                                               *)
(***************************************************************************)
EXTENDS QRwlock, FiniteSetTheorems, TLAPS

(* The inductive invariant: exact counts, one head of the queue, and the   *)
(* exclusion that follows when a writer takes a word without readers.      *)
IInv == TypeOK /\ Exclusion /\ CntsExact /\ HeadUnique

(* No context is the absence of one. *)
LEMMA NoneIsNone == None \notin Contexts
BY DEF Contexts, None

(* There are finitely many contexts, hence finitely many readers. *)
LEMMA ReadersFinite == IsFiniteSet(Readers)
<1>1. IsFiniteSet({"task"} \cup {"irq"})
  BY FS_Singleton, FS_AddElement, Zenon
<1>2. {"task", "irq"} = {"task"} \cup {"irq"}
  OBVIOUS
<1>3. IsFiniteSet(Contexts)
  BY <1>1, <1>2, CpusAssumption, FS_Product DEF Contexts
<1> QED BY <1>3, FS_Subset DEF Readers

(* The initial state satisfies the inductive invariant. *)
LEMMA InitIInv == Init => IInv
<1> SUFFICES ASSUME Init PROVE IInv
  OBVIOUS
<1>1. Readers = {} /\ WritersIn = {}
  BY DEF Init, Readers, WritersIn, Biased
<1>2. Cardinality(Readers) = 0
  BY <1>1, FS_EmptySet
<1>3. TypeOK
  BY DEF Init, TypeOK, PCs
<1>4. Exclusion /\ CntsExact
  BY <1>1, <1>2 DEF Init, Exclusion, CntsExact
<1>5. HeadUnique
  BY NoneIsNone DEF Init, HeadUnique, Queued
<1> QED BY <1>3, <1>4, <1>5 DEF IInv

(* 1 where a context has its bias in the word, 0 elsewhere. *)
Bias(l) == IF l \in Biased THEN 1 ELSE 0

(* What a step of one context does to the positions and to the number of    *)
(* readers.                                                                 *)
LEMMA Move ==
    ASSUME IInv, NEW c \in Contexts, NEW from \in PCs, NEW to \in PCs,
           Step(c, from, to)
    PROVE  /\ pc[c] = from
           /\ pc' \in [Contexts -> PCs]
           /\ pc'[c] = to
           /\ \A d \in Contexts : d # c => pc'[d] = pc[d]
           /\ Cardinality(Readers) \in Nat /\ Cardinality(Readers)' \in Nat
           /\ Cardinality(Readers)' = Cardinality(Readers) + Bias(to) - Bias(from)
<1>1. /\ pc[c] = from
      /\ pc' = [pc EXCEPT ![c] = to]
      /\ pc \in [Contexts -> PCs]
  BY DEF Step, IInv, TypeOK
<1>2. /\ pc' \in [Contexts -> PCs]
      /\ pc'[c] = to
      /\ \A d \in Contexts : d # c => pc'[d] = pc[d]
  BY <1>1
<1>3. /\ Cardinality(Readers) \in Nat
      /\ Cardinality(Readers \cup {c}) =
           IF c \in Readers THEN Cardinality(Readers) ELSE Cardinality(Readers) + 1
      /\ Cardinality(Readers \ {c}) =
           IF c \in Readers THEN Cardinality(Readers) - 1 ELSE Cardinality(Readers)
      /\ Cardinality(Readers \cup {c}) \in Nat /\ Cardinality(Readers \ {c}) \in Nat
  BY ReadersFinite, FS_CardinalityType, FS_AddElement, FS_RemoveElement
<1>4. c \in Readers <=> from \in Biased
  BY <1>1 DEF Readers
<1>5. CASE to \in Biased
  <2>1. Readers' = Readers \cup {c}
    BY <1>2, <1>5 DEF Readers
  <2> QED BY <1>1, <1>2, <1>3, <1>4, <1>5, <2>1 DEF Bias
<1>6. CASE to \notin Biased
  <2>1. Readers' = Readers \ {c}
    BY <1>2, <1>6 DEF Readers
  <2> QED BY <1>1, <1>2, <1>3, <1>4, <1>6, <2>1 DEF Bias
<1> QED BY <1>5, <1>6

(* A word without a reader count means that no context has its bias in. *)
LEMMA NoReaders ==
    ASSUME IInv, cnts.readers = 0
    PROVE  \A d \in Contexts : pc[d] \notin Biased
<1>1. Cardinality(Readers) = 0
  BY DEF IInv, CntsExact
<1>2. Readers = {}
  BY <1>1, ReadersFinite, FS_EmptySet
<1> QED BY <1>2 DEF Readers

(* A context that is at the head of the queue is there alone. *)
LEMMA OneHead ==
    ASSUME IInv, NEW c \in Contexts, pc[c] \in Queued
    PROVE  wait_lock = c /\ \A d \in Contexts : d # c => pc[d] \notin Queued
BY DEF IInv, HeadUnique

(* The sets of contexts that are in, and the waiting ones, written with     *)
(* quantifiers.                                                             *)
LEMMA InByPosition ==
    /\ WritersIn # {} <=> \E c \in Contexts : pc[c] \in {"writing", "write_pass"}
    /\ Exclusion <=> \A w, c \in Contexts :
         pc[w] \in {"writing", "write_pass"} =>
           /\ pc[c] \notin {"reading", "read_pass"}
           /\ pc[c] \in {"writing", "write_pass"} => c = w
BY DEF WritersIn, ReadersIn, Exclusion

(* The same in the next state. *)
LEMMA InByPositionNext ==
    /\ WritersIn' # {} <=> \E c \in Contexts : pc'[c] \in {"writing", "write_pass"}
    /\ Exclusion' <=> \A w, c \in Contexts :
         pc'[w] \in {"writing", "write_pass"} =>
           /\ pc'[c] \notin {"reading", "read_pass"}
           /\ pc'[c] \in {"writing", "write_pass"} => c = w
BY DEF WritersIn, ReadersIn, Exclusion

USE DEF Bias, Biased, Queued, PCs

(* What is to be shown of the next state, position by position. *)
LEMMA Assemble ==
    ASSUME TypeOK', HeadUnique',
           cnts'.readers = Cardinality(Readers)',
           cnts'.waiting <=> \E c \in Contexts : pc'[c] \in {"write_wait", "write_claim"},
           cnts'.locked <=> \E c \in Contexts : pc'[c] \in {"writing", "write_pass"},
           \A w, c \in Contexts :
             pc'[w] \in {"writing", "write_pass"} =>
               /\ pc'[c] \notin {"reading", "read_pass"}
               /\ pc'[c] \in {"writing", "write_pass"} => c = w
    PROVE  IInv'
BY InByPositionNext DEF IInv, CntsExact

(* The inductive invariant, position by position. *)
LEMMA Unfold ==
    ASSUME IInv
    PROVE  /\ TypeOK /\ HeadUnique
           /\ cnts.readers = Cardinality(Readers)
           /\ cnts.waiting <=> \E c \in Contexts : pc[c] \in {"write_wait", "write_claim"}
           /\ cnts.locked <=> \E c \in Contexts : pc[c] \in {"writing", "write_pass"}
           /\ \A w, c \in Contexts :
                pc[w] \in {"writing", "write_pass"} =>
                  /\ pc[c] \notin {"reading", "read_pass"}
                  /\ pc[c] \in {"writing", "write_pass"} => c = w
BY InByPosition DEF IInv, CntsExact

(* A step that takes, keeps or passes on wait_lock as its positions say. *)
PassesQueue(c, from, to) ==
    \/ (from \in Queued <=> to \in Queued) /\ wait_lock' = wait_lock
    \/ from \notin Queued /\ to \in Queued /\ wait_lock = None /\ wait_lock' = c
    \/ from \in Queued /\ to \notin Queued /\ wait_lock' = None

(* The positions of the writers that cnts shows. *)
Shown == {"write_wait", "write_claim", "writing", "write_pass"}

(* Such a step keeps one head of the queue. *)
LEMMA HeadStep ==
    ASSUME IInv, NEW c \in Contexts, NEW from \in PCs, NEW to \in PCs,
           Step(c, from, to), PassesQueue(c, from, to)
    PROVE  HeadUnique' /\ wait_lock' \in Contexts \cup {None}
<1>1. /\ pc[c] = from /\ pc'[c] = to
      /\ \A d \in Contexts : d # c => pc'[d] = pc[d]
      /\ wait_lock \in Contexts \cup {None} /\ HeadUnique
  <2> HIDE DEF Bias, Biased, Queued, PCs
  <2>1. TypeOK /\ HeadUnique
    BY Unfold
  <2>2. wait_lock \in Contexts \cup {None}
    BY <2>1 DEF TypeOK
  <2>3. /\ pc[c] = from /\ pc'[c] = to
        /\ \A d \in Contexts : d # c => pc'[d] = pc[d]
    BY Move
  <2> QED BY <2>1, <2>2, <2>3
<1> HIDE DEF Queued
<1> QED BY <1>1, NoneIsNone DEF HeadUnique, PassesQueue

(* A step of a context whose writer, if it is one, cnts does not show: the  *)
(* bias follows the position, and a reader is let in only past no writer.   *)
LEMMA PlainStep ==
    ASSUME IInv, NEW c \in Contexts, NEW from \in PCs \ Shown, NEW to \in PCs \ Shown,
           Step(c, from, to), PassesQueue(c, from, to),
           \/ cnts' = [cnts EXCEPT !.readers = @ + Bias(to) - Bias(from)]
           \/ UNCHANGED cnts /\ Bias(to) = Bias(from),
           to \in {"reading", "read_pass"} =>
             ~cnts.locked \/ from \in {"reading", "read_pass"}
    PROVE  IInv'
<1>1. /\ pc[c] = from /\ pc'[c] = to /\ pc' \in [Contexts -> PCs]
      /\ \A d \in Contexts : d # c => pc'[d] = pc[d]
      /\ Cardinality(Readers) \in Nat /\ Cardinality(Readers)' \in Nat
      /\ Cardinality(Readers)' = Cardinality(Readers) + Bias(to) - Bias(from)
  <2> HIDE DEF Bias, Biased, Queued, PCs
  <2> QED BY Move
<1>2. HeadUnique' /\ wait_lock' \in Contexts \cup {None}
  BY HeadStep
<1>3. /\ TypeOK' /\ cnts'.readers = Cardinality(Readers)'
      /\ cnts'.waiting = cnts.waiting /\ cnts'.locked = cnts.locked
  BY <1>1, <1>2, Unfold DEF TypeOK
<1> HIDE DEF PCs
<1> QED BY <1>1, <1>2, <1>3, Unfold, Assemble DEF Shown

(* The readers' actions and the writers' actions that do not show in the    *)
(* word are plain steps.                                                    *)
LEMMA PlainActions ==
    ASSUME IInv, NEW c \in Contexts,
           \/ ReadLock(c) \/ ReadTrylock(c) \/ ReadTryAdd(c) \/ ReadTrySub(c)
           \/ ReadWaitInInterrupt(c) \/ ReadBackOut(c) \/ ReadQueue(c) \/ ReadAdd(c)
           \/ ReadWait(c) \/ ReadPass(c) \/ ReadUnlock(c)
           \/ WriteTrylock(c) \/ WriteQueue(c) \/ WriteLoad(c)
    PROVE  IInv'
<1> USE DEF AddBias, SubBias, NoWriter, PassesQueue, Shown
<1>0. cnts.readers \in Nat
  BY Unfold DEF TypeOK
<1>1. CASE ReadLock(c)
  <2>1. CASE NoWriter
    <3>1. Step(c, "idle", "reading")
      BY <1>1, <2>1 DEF ReadLock
    <3> QED BY <1>0, <1>1, <2>1, <3>1, PlainStep DEF ReadLock
  <2>2. CASE ~NoWriter
    <3>1. Step(c, "idle", "read_slow")
      BY <1>1, <2>2 DEF ReadLock
    <3> QED BY <1>0, <1>1, <3>1, PlainStep DEF ReadLock
  <2> QED BY <2>1, <2>2
<1>2. CASE ReadTrylock(c)
  BY <1>0, <1>2, PlainStep DEF ReadTrylock
<1>3. CASE ReadTryAdd(c)
  <2>1. CASE NoWriter
    <3>1. Step(c, "rtry_add", "reading")
      BY <1>3, <2>1 DEF ReadTryAdd
    <3> QED BY <1>0, <1>3, <2>1, <3>1, PlainStep DEF ReadTryAdd
  <2>2. CASE ~NoWriter
    <3>1. Step(c, "rtry_add", "rtry_sub")
      BY <1>3, <2>2 DEF ReadTryAdd
    <3> QED BY <1>0, <1>3, <3>1, PlainStep DEF ReadTryAdd
  <2> QED BY <2>1, <2>2
<1>4. CASE ReadTrySub(c)
  BY <1>0, <1>4, PlainStep DEF ReadTrySub
<1>5. CASE ReadWaitInInterrupt(c)
  BY <1>0, <1>5, PlainStep DEF ReadWaitInInterrupt
<1>6. CASE ReadBackOut(c)
  BY <1>0, <1>6, PlainStep DEF ReadBackOut
<1>7. CASE ReadQueue(c)
  BY <1>0, <1>7, PlainStep DEF ReadQueue, SpinLock
<1>8. CASE ReadAdd(c)
  BY <1>0, <1>8, PlainStep DEF ReadAdd
<1>9. CASE ReadWait(c)
  BY <1>0, <1>9, PlainStep DEF ReadWait
<1>10. CASE ReadPass(c)
  BY <1>0, <1>10, PlainStep DEF ReadPass, SpinUnlock
<1>11. CASE ReadUnlock(c)
  BY <1>0, <1>11, PlainStep DEF ReadUnlock
<1>12. CASE WriteTrylock(c)
  BY <1>0, <1>12, PlainStep DEF WriteTrylock
<1>13. CASE WriteQueue(c)
  BY <1>0, <1>13, PlainStep DEF WriteQueue, SpinLock
<1>14. CASE WriteLoad(c)
  <2>1. CASE Free
    <3>1. Step(c, "write_load", "write_cmpxchg")
      BY <1>14, <2>1 DEF WriteLoad
    <3> QED BY <1>0, <1>14, <3>1, PlainStep DEF WriteLoad
  <2>2. CASE ~Free
    <3>1. Step(c, "write_load", "write_flag")
      BY <1>14, <2>2 DEF WriteLoad
    <3> QED BY <1>0, <1>14, <3>1, PlainStep DEF WriteLoad
  <2> QED BY <2>1, <2>2
<1> QED
  BY <1>1, <1>2, <1>3, <1>4, <1>5, <1>6, <1>7, <1>8, <1>9, <1>10, <1>11, <1>12,
     <1>13, <1>14

(* A writer takes the word only when no context has put anything into it,   *)
(* so no reader is in; a failure changes nothing.                           *)
LEMMA CmpxchgStep ==
    ASSUME IInv, NEW c \in Contexts, NEW from \in PCs \ (Shown \cup Biased),
           NEW success \in {"writing", "write_pass"},
           NEW failure \in PCs \ (Shown \cup Biased),
           from \in Queued <=> success \in Queued, from \in Queued <=> failure \in Queued,
           CmpxchgFree(c, from, success, failure)
    PROVE  IInv'
<1>0. cnts \in [readers : Nat, waiting : BOOLEAN, locked : BOOLEAN]
  BY Unfold DEF TypeOK
<1>1. CASE Free
  <2>1. /\ Step(c, from, success) /\ UNCHANGED wait_lock
        /\ cnts' = [cnts EXCEPT !.locked = TRUE]
    BY <1>1, Zenon DEF CmpxchgFree
  <2>2. /\ pc[c] = from /\ pc'[c] = success /\ pc' \in [Contexts -> PCs]
        /\ \A d \in Contexts : d # c => pc'[d] = pc[d]
        /\ Cardinality(Readers) \in Nat
        /\ Cardinality(Readers)' = Cardinality(Readers)
    <3>1. from \in PCs /\ success \in PCs /\ Bias(from) = 0 /\ Bias(success) = 0
      OBVIOUS
    <3> HIDE DEF Bias, Biased, Queued, PCs
    <3> QED BY <2>1, <3>1, Move
  <2>3. HeadUnique' /\ wait_lock' \in Contexts \cup {None}
    BY <2>1, HeadStep DEF PassesQueue
  <2>4. /\ TypeOK' /\ cnts'.readers = Cardinality(Readers)'
        /\ cnts'.waiting = FALSE /\ cnts'.locked = TRUE
    BY <1>0, <1>1, <2>1, <2>2, <2>3, Unfold, Zenon DEF TypeOK, Free
  <2>5. \A d \in Contexts : pc[d] \notin Biased /\ pc[d] \notin Shown
    BY <1>1, NoReaders, Unfold DEF Free, Shown
  <2> HIDE DEF PCs, Queued
  <2> QED BY <2>2, <2>3, <2>4, <2>5, Assemble DEF Shown
<1>2. CASE ~Free
  <2>1. Step(c, from, failure) /\ UNCHANGED <<cnts, wait_lock>>
    BY <1>0, <1>2 DEF CmpxchgFree
  <2>2. failure \notin {"reading", "read_pass"} /\ Bias(failure) = Bias(from)
    OBVIOUS
  <2> QED BY <2>1, <2>2, PlainStep DEF PassesQueue
<1> QED BY <1>1, <1>2

(* The three uses of the compare-and-exchange from an empty word. *)
LEMMA CmpxchgActions ==
    ASSUME IInv, NEW c \in Contexts, WriteLock(c) \/ WriteTryCmpxchg(c) \/ WriteCmpxchg(c)
    PROVE  IInv'
<1> USE DEF Shown
<1>1. CASE WriteLock(c)
  BY <1>1, CmpxchgStep DEF WriteLock
<1>2. CASE WriteTryCmpxchg(c)
  BY <1>2, CmpxchgStep DEF WriteTryCmpxchg
<1>3. CASE WriteCmpxchg(c)
  BY <1>3, CmpxchgStep DEF WriteCmpxchg
<1> QED BY <1>1, <1>2, <1>3

(* The waiting bit is clear when the head of the queue adds it. *)
LEMMA WriteFlagStep == ASSUME IInv, NEW c \in Contexts, WriteFlag(c) PROVE IInv'
<1>0. cnts \in [readers : Nat, waiting : BOOLEAN, locked : BOOLEAN]
  BY Unfold DEF TypeOK
<1>1. Step(c, "write_flag", "write_wait") /\ UNCHANGED wait_lock
  BY DEF WriteFlag
<1>2. /\ pc[c] = "write_flag" /\ pc'[c] = "write_wait" /\ pc' \in [Contexts -> PCs]
      /\ \A d \in Contexts : d # c => pc'[d] = pc[d]
      /\ Cardinality(Readers)' = Cardinality(Readers)
  <2>1. "write_flag" \in PCs /\ "write_wait" \in PCs /\ Bias("write_flag") = 0 /\ Bias("write_wait") = 0
    OBVIOUS
  <2> HIDE DEF Bias, Biased, Queued, PCs
  <2> QED BY <1>1, <2>1, Move
<1>3. HeadUnique' /\ wait_lock' \in Contexts \cup {None}
  BY <1>1, HeadStep DEF PassesQueue
<1>4. \A d \in Contexts : pc[d] \notin {"write_wait", "write_claim", "write_pass"}
  BY <1>2, OneHead
<1>5. ~cnts.waiting
  BY <1>4, Unfold
<1>6. /\ TypeOK' /\ cnts'.readers = cnts.readers
      /\ cnts'.waiting = TRUE /\ cnts'.locked = cnts.locked
  BY <1>0, <1>2, <1>3, <1>5, Zenon DEF TypeOK, WriteFlag
<1> HIDE DEF PCs, Queued
<1> QED BY <1>2, <1>3, <1>4, <1>6, Unfold, Assemble

(* The head looks at the word. *)
LEMMA WriteWaitStep == ASSUME IInv, NEW c \in Contexts, WriteWait(c) PROVE IInv'
<1>1. Step(c, "write_wait", "write_claim") /\ UNCHANGED <<cnts, wait_lock>>
  BY DEF WriteWait
<1>2. /\ pc[c] = "write_wait" /\ pc'[c] = "write_claim" /\ pc' \in [Contexts -> PCs]
      /\ \A d \in Contexts : d # c => pc'[d] = pc[d]
      /\ Cardinality(Readers)' = Cardinality(Readers)
  <2>1. "write_wait" \in PCs /\ "write_claim" \in PCs /\ Bias("write_wait") = 0 /\ Bias("write_claim") = 0
    OBVIOUS
  <2> HIDE DEF Bias, Biased, Queued, PCs
  <2> QED BY <1>1, <2>1, Move
<1>3. HeadUnique' /\ wait_lock' \in Contexts \cup {None}
  BY <1>1, HeadStep DEF PassesQueue
<1>4. TypeOK'
  BY <1>1, <1>2, <1>3, Unfold DEF TypeOK
<1> HIDE DEF PCs, Queued
<1> QED BY <1>1, <1>2, <1>3, <1>4, Unfold, Assemble

(* The head exchanges its waiting bit for the locked byte when nobody has   *)
(* a bias in the word.                                                      *)
LEMMA WriteClaimStep == ASSUME IInv, NEW c \in Contexts, WriteClaim(c) PROVE IInv'
<1>0. cnts \in [readers : Nat, waiting : BOOLEAN, locked : BOOLEAN]
  BY Unfold DEF TypeOK
<1>1. CASE OnlyWaiting
  <2>1. /\ Step(c, "write_claim", "write_pass") /\ UNCHANGED wait_lock
        /\ cnts' = [cnts EXCEPT !.waiting = FALSE, !.locked = TRUE]
    BY <1>1 DEF WriteClaim
  <2>2. /\ pc[c] = "write_claim" /\ pc'[c] = "write_pass" /\ pc' \in [Contexts -> PCs]
        /\ \A d \in Contexts : d # c => pc'[d] = pc[d]
        /\ Cardinality(Readers)' = Cardinality(Readers)
    <3>1. "write_claim" \in PCs /\ "write_pass" \in PCs /\ Bias("write_claim") = 0 /\ Bias("write_pass") = 0
      OBVIOUS
    <3> HIDE DEF Bias, Biased, Queued, PCs
    <3> QED BY <2>1, <3>1, Move
  <2>3. HeadUnique' /\ wait_lock' \in Contexts \cup {None}
    BY <2>1, HeadStep DEF PassesQueue
  <2>4. /\ TypeOK' /\ cnts'.readers = cnts.readers
        /\ cnts'.waiting = FALSE /\ cnts'.locked = TRUE
    BY <1>0, <2>1, <2>2, <2>3, Zenon DEF TypeOK
  <2>5. /\ \A d \in Contexts : pc[d] \notin {"reading", "read_pass"}
        /\ \A d \in Contexts : pc[d] \notin {"writing", "write_pass"}
        /\ \A d \in Contexts : d # c => pc[d] \notin {"write_wait", "write_claim"}
    BY <1>1, <2>2, NoReaders, OneHead, Unfold DEF OnlyWaiting
  <2> HIDE DEF PCs, Queued
  <2> QED BY <2>2, <2>3, <2>4, <2>5, Unfold, Assemble
<1>2. CASE ~OnlyWaiting
  <2>1. Step(c, "write_claim", "write_wait") /\ UNCHANGED <<cnts, wait_lock>>
    BY <1>2 DEF WriteClaim
  <2>2. /\ pc[c] = "write_claim" /\ pc'[c] = "write_wait" /\ pc' \in [Contexts -> PCs]
        /\ \A d \in Contexts : d # c => pc'[d] = pc[d]
        /\ Cardinality(Readers)' = Cardinality(Readers)
    <3>1. "write_claim" \in PCs /\ "write_wait" \in PCs /\ Bias("write_claim") = 0 /\ Bias("write_wait") = 0
      OBVIOUS
    <3> HIDE DEF Bias, Biased, Queued, PCs
    <3> QED BY <2>1, <3>1, Move
  <2>3. HeadUnique' /\ wait_lock' \in Contexts \cup {None}
    BY <2>1, HeadStep DEF PassesQueue
  <2>4. TypeOK'
    BY <2>1, <2>2, <2>3, Unfold DEF TypeOK
  <2> HIDE DEF PCs, Queued
  <2> QED BY <2>1, <2>2, <2>3, <2>4, Unfold, Assemble
<1> QED BY <1>1, <1>2

(* The writer passes the queue on. *)
LEMMA WritePassStep == ASSUME IInv, NEW c \in Contexts, WritePass(c) PROVE IInv'
<1>1. Step(c, "write_pass", "writing") /\ wait_lock' = None /\ UNCHANGED cnts
  BY DEF WritePass, SpinUnlock
<1>2. /\ pc[c] = "write_pass" /\ pc'[c] = "writing" /\ pc' \in [Contexts -> PCs]
      /\ \A d \in Contexts : d # c => pc'[d] = pc[d]
      /\ Cardinality(Readers)' = Cardinality(Readers)
  <2>1. "write_pass" \in PCs /\ "writing" \in PCs /\ Bias("write_pass") = 0 /\ Bias("writing") = 0
    OBVIOUS
  <2> HIDE DEF Bias, Biased, Queued, PCs
  <2> QED BY <1>1, <2>1, Move
<1>3. HeadUnique' /\ wait_lock' \in Contexts \cup {None}
  BY <1>1, HeadStep DEF PassesQueue
<1>4. TypeOK'
  BY <1>1, <1>2, <1>3, Unfold DEF TypeOK
<1> HIDE DEF PCs, Queued
<1> QED BY <1>1, <1>2, <1>3, <1>4, Unfold, Assemble

(* The writer that leaves was the only one in. *)
LEMMA WriteUnlockStep == ASSUME IInv, NEW c \in Contexts, WriteUnlock(c) PROVE IInv'
<1>0. cnts \in [readers : Nat, waiting : BOOLEAN, locked : BOOLEAN]
  BY Unfold DEF TypeOK
<1>1. /\ Step(c, "writing", "idle") /\ UNCHANGED wait_lock
      /\ cnts' = [cnts EXCEPT !.locked = FALSE]
  BY DEF WriteUnlock
<1>2. /\ pc[c] = "writing" /\ pc'[c] = "idle" /\ pc' \in [Contexts -> PCs]
      /\ \A d \in Contexts : d # c => pc'[d] = pc[d]
      /\ Cardinality(Readers)' = Cardinality(Readers)
  <2>1. "writing" \in PCs /\ "idle" \in PCs /\ Bias("writing") = 0 /\ Bias("idle") = 0
    OBVIOUS
  <2> HIDE DEF Bias, Biased, Queued, PCs
  <2> QED BY <1>1, <2>1, Move
<1>3. HeadUnique' /\ wait_lock' \in Contexts \cup {None}
  BY <1>1, HeadStep DEF PassesQueue
<1>4. /\ TypeOK' /\ cnts'.readers = cnts.readers
      /\ cnts'.waiting = cnts.waiting /\ cnts'.locked = FALSE
  BY <1>0, <1>1, <1>2, <1>3, Zenon DEF TypeOK
<1> HIDE DEF PCs, Queued
<1> QED BY <1>2, <1>3, <1>4, Unfold, Assemble

(* IInv is inductive. *)
LEMMA NextIInv == IInv /\ [Next]_vars => IInv'
<1> SUFFICES ASSUME IInv, [Next]_vars PROVE IInv'
  OBVIOUS
<1>1. CASE UNCHANGED vars
  BY <1>1 DEF vars, IInv, TypeOK, Exclusion, CntsExact, HeadUnique, Readers, ReadersIn,
              WritersIn
<1>2. CASE Next
  BY <1>2, PlainActions, CmpxchgActions, WriteFlagStep, WriteWaitStep, WriteClaimStep,
     WritePassStep, WriteUnlockStep DEF Next, Request, Proceed, Queue
<1> QED BY <1>1, <1>2

(* The inductive invariant holds in every reachable state. *)
THEOREM Invariance == Spec => []IInv
BY InitIInv, NextIInv, PTL DEF Spec

(* A writer is in alone, whatever readers, handlers and writers do. *)
THEOREM WriterAlone == Spec => []Exclusion
BY Invariance, PTL DEF IInv

(* The word counts exactly what the contexts have put into it. *)
THEOREM WordExact == Spec => []CntsExact
BY Invariance, PTL DEF IInv

(* A task is let in as a reader only past no writer that waits. *)
LEMMA ReadingTask ==
    ASSUME IInv, [Next]_vars, NEW w \in Contexts, NEW c \in Contexts,
           pc[w] \in {"write_wait", "write_claim"},
           pc[c] # "reading", pc'[c] = "reading"
    PROVE  InInterrupt(c)
<1>0. cnts.waiting /\ pc \in [Contexts -> PCs]
  BY Unfold DEF TypeOK
<1>1. PICK d \in Contexts : Request(d) \/ Proceed(d) \/ Queue(d)
  BY DEF Next, vars
<1>2. \E from, to \in PCs : Step(d, from, to)
  BY <1>1 DEF Request, Proceed, Queue, ReadLock, ReadTrylock, ReadTryAdd, ReadTrySub,
     ReadWaitInInterrupt, ReadBackOut, ReadQueue, ReadAdd, ReadWait, ReadPass, ReadUnlock,
     WriteLock, WriteTrylock, WriteTryCmpxchg, WriteQueue, WriteLoad, WriteCmpxchg,
     WriteFlag, WriteWait, WriteClaim, WritePass, WriteUnlock, SpinLock, SpinUnlock,
     CmpxchgFree
<1>3. d = c
  BY <1>0, <1>2 DEF Step
<1>4. CASE ReadPass(c)
  <2>1. pc[c] = "read_pass"
    BY <1>4 DEF ReadPass, SpinUnlock, Step
  <2> QED BY <2>1, OneHead
<1>5. CASE ReadWaitInInterrupt(c)
  BY <1>5 DEF ReadWaitInInterrupt
<1>6. CASE ~ReadPass(c) /\ ~ReadWaitInInterrupt(c)
  <2>1. \E to \in PCs \ {"reading"} : pc' = [pc EXCEPT ![c] = to]
    BY <1>0, <1>1, <1>3, <1>6 DEF Request, Proceed, Queue, ReadLock, ReadTrylock,
       ReadTryAdd, ReadTrySub, ReadBackOut, ReadQueue, ReadAdd, ReadWait, ReadUnlock,
       WriteLock, WriteTrylock, WriteTryCmpxchg, WriteQueue, WriteLoad, WriteCmpxchg,
       WriteFlag, WriteWait, WriteClaim, WritePass, WriteUnlock, SpinLock, SpinUnlock,
       CmpxchgFree, Step, NoWriter
  <2> QED BY <1>0, <2>1
<1> QED BY <1>4, <1>5, <1>6

(* Tasks do not overtake a writer that has announced itself. *)
THEOREM WriterNotOvertaken == Spec => NotOvertaken
<1>1. IInv /\ [Next]_vars =>
        [\A w, c \in Contexts :
           /\ pc[w] \in {"write_wait", "write_claim"}
           /\ pc[c] # "reading" /\ pc'[c] = "reading"
           => InInterrupt(c)]_vars
  BY ReadingTask
<1> QED BY <1>1, Invariance, PTL DEF Spec, NotOvertaken
=============================================================================
