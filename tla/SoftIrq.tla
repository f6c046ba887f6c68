------------------------------- MODULE SoftIrq -------------------------------
(***************************************************************************)
(* Soft interrupts on one CPU: kernel/core/softirq.c.  All its state is    *)
(* per CPU; what interleaves are the task, hardware interrupts on top of   *)
(* anything that runs with interrupts on, and ksoftirqd.                   *)
(*                                                                         *)
(*   pending  __softirq_pending                                            *)
(*   thread   ksoftirqd: "none" before spawn_ksoftirqd, "running" on the   *)
(*            run queue, "sleeping"                                        *)
(*   runner   who has the CPU, the task or ksoftirqd                       *)
(*   bh       depth of the task's local_bh_disable                         *)
(*   soft     the __do_softirq in progress: vectors left, restarts left    *)
(*   irq      in a hardware interrupt (HARDIRQ_OFFSET)                     *)
(*   ran      the vectors whose action has run since they were last raised *)
(***************************************************************************)
EXTENDS Naturals, FiniteSetsExt

CONSTANTS NrSoftirqs,     \* vectors 0 .. NrSoftirqs - 1, HI is 0
          MaxRestart,     \* MAX_SOFTIRQ_RESTART
          MaxBh           \* bound on the nesting of local_bh_disable

VARIABLE si

Vectors == 0..(NrSoftirqs - 1)
HI      == 0
NoSoft  == [on |-> FALSE, vecs |-> {}, left |-> 0]

InSoftirq(s)   == s.bh > 0 \/ s.soft.on
InInterrupt(s) == s.irq \/ InSoftirq(s)

WakeupSoftirqd(s) == IF s.thread = "sleeping" THEN [s EXCEPT !.thread = "running"] ELSE s

KsoftirqdRunning(s) == HI \notin s.pending /\ s.thread = "running"

RaiseVec(s, nr) == [s EXCEPT !.pending = @ \cup {nr}, !.ran = @ \ {nr}]

RaiseSoftirqIrqoff(s, nr) ==
    IF InInterrupt(s) THEN RaiseVec(s, nr) ELSE WakeupSoftirqd(RaiseVec(s, nr))

(* restart: the pending mask is reset before interrupts are enabled.       *)
Restart(s, left) ==
    [s EXCEPT !.soft = [on |-> TRUE, vecs |-> s.pending, left |-> left], !.pending = {}]

(* A plausible slip: the mask is reset when the vectors have run.          *)
DoSoftirqDoneReset(s, again) ==
    LET e == [s EXCEPT !.pending = {}]
    IN  [e EXCEPT !.soft = NoSoft]

(* The end of a pass of __do_softirq, with interrupts off again.           *)
DoSoftirqDone(s, again) ==
    IF s.pending # {} /\ again /\ s.soft.left > 1
    THEN Restart(s, s.soft.left - 1)
    ELSE [(IF s.pending # {} THEN WakeupSoftirqd(s) ELSE s) EXCEPT !.soft = NoSoft]

DoSoftirq(s) ==
    IF InInterrupt(s) \/ s.pending = {} \/ KsoftirqdRunning(s) THEN s
    ELSE Restart(s, MaxRestart)

InvokeSoftirq(s) == IF KsoftirqdRunning(s) THEN s ELSE WakeupSoftirqd(s)

(* A plausible slip: irq_exit tests the nesting before it is left.         *)
IrqExitNested(s) ==
    LET e == [s EXCEPT !.irq = FALSE]
    IN  IF ~InInterrupt(s) /\ e.pending # {} THEN InvokeSoftirq(e) ELSE e

IrqExit(s) ==
    LET e == [s EXCEPT !.irq = FALSE]
    IN  IF ~InInterrupt(e) /\ e.pending # {} THEN InvokeSoftirq(e) ELSE e

-----------------------------------------------------------------------------
TaskRuns == ~si.irq /\ ~si.soft.on /\ si.runner = "task"

TaskRaise(nr) == TaskRuns /\ si' = RaiseSoftirqIrqoff(si, nr)

LocalBhDisable == TaskRuns /\ si.bh < MaxBh /\ si' = [si EXCEPT !.bh = @ + 1]

LocalBhEnable ==
    /\ TaskRuns /\ si.bh > 0
    /\ LET e == [si EXCEPT !.bh = @ - 1]
       IN  si' = IF ~InInterrupt(e) /\ e.pending # {} THEN DoSoftirq(e) ELSE e

(* irq_enter on the idle task disables and enables bottom halves without   *)
(* running them: no change.  Interrupts nest no further.                   *)
IrqEnter == ~si.irq /\ si' = [si EXCEPT !.irq = TRUE]

IrqRaise(nr) == si.irq /\ si' = RaiseSoftirqIrqoff(si, nr)

IrqLeave == si.irq /\ si' = IrqExit(si)

(* One turn of the loop over the vectors, lowest first.                    *)
RunVector ==
    /\ ~si.irq /\ si.soft.on /\ si.soft.vecs # {}
    /\ LET v == Min(si.soft.vecs)
       IN  si' = [si EXCEPT !.soft.vecs = @ \ {v}, !.ran = @ \cup {v}]

(* A vector's action may raise a vector.                                   *)
ActionRaise(nr) ==
    ~si.irq /\ si.soft.on /\ si.soft.vecs # {} /\ si' = RaiseSoftirqIrqoff(si, nr)

(* again: the time is not up and nobody asks for the CPU.                  *)
SoftirqDone(again) ==
    ~si.irq /\ si.soft.on /\ si.soft.vecs = {} /\ si' = DoSoftirqDone(si, again)

SpawnKsoftirqd == si.thread = "none" /\ TaskRuns /\ si.bh = 0 /\ si' = [si EXCEPT !.thread = "running"]

(* The scheduler, external: with no bottom half disabled the CPU may go to *)
(* ksoftirqd while it is runnable, and back.                               *)
Schedule ==
    /\ ~si.irq /\ ~si.soft.on /\ si.bh = 0
    /\ \/ si.runner = "task" /\ si.thread = "running" /\ si' = [si EXCEPT !.runner = "ksoftirqd"]
       \/ si.runner = "ksoftirqd" /\ si' = [si EXCEPT !.runner = "task"]

(* ksoftirqd: with work run_ksoftirqd runs it inline, without it sleeps.   *)
(* The thread loop (smpboot, external) re-checks after it marks itself     *)
(* asleep, so the test and the sleep are one step.                         *)
RunKsoftirqd ==
    /\ ~si.irq /\ ~si.soft.on /\ si.runner = "ksoftirqd"
    /\ si' = IF si.pending # {} THEN Restart(si, MaxRestart)
             ELSE [si EXCEPT !.thread = "sleeping", !.runner = "task"]

Init ==
    si = [pending |-> {}, thread |-> "none", runner |-> "task", bh |-> 0,
          soft |-> NoSoft, irq |-> FALSE, ran |-> {}]

Progress == RunVector \/ \E again \in BOOLEAN : SoftirqDone(again)

Next ==
    \/ \E nr \in Vectors : TaskRaise(nr) \/ IrqRaise(nr) \/ ActionRaise(nr)
    \/ LocalBhDisable \/ LocalBhEnable \/ IrqEnter \/ IrqLeave
    \/ Progress \/ SpawnKsoftirqd \/ Schedule \/ RunKsoftirqd

Spec == Init /\ [][Next]_si

-----------------------------------------------------------------------------
(* softirq.c: a raised softirq is never forgotten: while it is pending and *)
(* the CPU is out of interrupts, softirqs and disabled regions, ksoftirqd  *)
(* is on its way; and one __do_softirq never starts inside another.        *)
SoftirqKept ==
    /\ si.thread # "none" /\ ~InInterrupt(si) /\ si.pending # {} => si.thread = "running"
    /\ si.soft.on => si.bh = 0
=============================================================================
