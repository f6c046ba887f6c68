------------------------------- MODULE IrqFlow -------------------------------
(***************************************************************************)
(* The interrupt flow handlers of kernel/core/irq/chip.c and the event     *)
(* dispatch of handle.c, for one interrupt descriptor that several CPUs    *)
(* take interrupts of.  Everything done under desc->lock is one step: the  *)
(* lock is dropped only around the action handlers (handle_irq_event), so  *)
(* a flow handler is an entry step, the run of the actions, and one exit   *)
(* step per pass of its loop.                                              *)
(*                                                                         *)
(* The interrupt controller and the device are not in the tree.  They are  *)
(* modelled from the callbacks the code makes (irq_mask, irq_unmask,       *)
(* irq_ack, irq_eoi, irq_enable ...) and marked external.                  *)
(*                                                                         *)
(*   conf      the configuration: flow handler, callbacks of the chip,     *)
(*             oneshot, unlazy disable, managed affinity                   *)
(*   flags     the IRQD_ state bits and IRQS_PENDING                       *)
(*   depth, action, handler, percpu_enabled  the fields of struct irq_desc *)
(*   raised    the CPUs the controller wants to interrupt                  *)
(*   masked    the CPUs at which the line is masked in the controller      *)
(*   service   the CPUs interrupted and not yet acknowledged or ended      *)
(*   unserved  the CPUs with a device event no handler run has looked at   *)
(*   pc, flow  where each CPU is, and in which flow handler                *)
(***************************************************************************)
EXTENDS Naturals

CONSTANTS Cpus,       \* CPUs that may take the interrupt
          Confs       \* the configurations explored

VARIABLE irq

Tracked  == {"level", "fasteoi", "fasteoi_ack", "fasteoi_mask", "edge", "edge_eoi"}
Software == {"simple", "untracked", "nested"}
PerCpu   == {"percpu", "percpu_devid"}
Latched  == {"edge", "edge_eoi", "fasteoi_ack"} \cup Software
Eois     == {"fasteoi", "fasteoi_ack", "fasteoi_mask", "edge_eoi"} \cup PerCpu

Has(st, flag) == flag \in st.flags
Set(st, fs)   == [st EXCEPT !.flags = @ \cup fs]
Clear(st, fs) == [st EXCEPT !.flags = @ \ fs]

-----------------------------------------------------------------------------
(* The controller, external: what the callbacks of the chip do.            *)

ChipMask(st)   == [st EXCEPT !.masked = Cpus]
ChipUnmask(st) == [st EXCEPT !.masked = {}]
ChipAck(st) ==
    [st EXCEPT !.service = IF st.conf.flow \in Eois THEN @ ELSE {},
               !.raised = IF st.conf.flow \in Latched THEN {} ELSE @]
ChipEoi(st, c) == [st EXCEPT !.service = @ \ {c}]

(* A latched interrupt that is acknowledged through irq_ack stays raised   *)
(* until then; one without an ack is taken out of the latch on delivery.   *)
TakeLatch(st, c) ==
    IF st.conf.flow \in Latched \ {"edge", "fasteoi_ack"} THEN {} ELSE st.raised

-----------------------------------------------------------------------------
(* mask_irq, unmask_irq, mask_ack_irq, irq_enable, __irq_disable.          *)

MaskIrq(st) ==
    IF Has(st, "masked") THEN st ELSE Set(ChipMask(st), {"masked"})

UnmaskIrq(st) ==
    IF ~Has(st, "masked") THEN st ELSE Clear(ChipUnmask(st), {"masked"})

MaskAckIrq(st) ==
    IF "mask_ack" \in st.conf.chip
    THEN Set(ChipAck(ChipMask(st)), {"masked"})
    ELSE ChipAck(MaskIrq(st))

IrqEnable(st) ==
    IF ~Has(st, "disabled") THEN UnmaskIrq(st)
    ELSE IF "enable" \in st.conf.chip
         THEN Clear(ChipUnmask(st), {"disabled", "masked"})
         ELSE UnmaskIrq(Clear(st, {"disabled"}))

DoIrqDisable(st, mask) ==
    IF Has(st, "disabled") THEN IF mask THEN MaskIrq(st) ELSE st
    ELSE IF "enable" \in st.conf.chip
         THEN Set(ChipMask(st), {"disabled", "masked"})
         ELSE IF mask THEN MaskIrq(Set(st, {"disabled"})) ELSE Set(st, {"disabled"})

(* check_irq_resend, external (not in the tree): a pending interrupt that  *)
(* is not level triggered is raised again in the controller.               *)
CheckIrqResend(st) ==
    IF ~Has(st, "pending") THEN st
    ELSE Clear([st EXCEPT !.raised = IF st.conf.flow \in Latched THEN Cpus ELSE @],
               {"pending"})

RawStartup(st) ==
    Set(IF "startup" \in st.conf.chip
        THEN Clear(ChipUnmask(st), {"disabled", "masked"}) ELSE IrqEnable(st),
        {"started"})

(* irq_startup with resend and force: a managed interrupt with no online   *)
(* CPU in its mask goes to managed shutdown and returns before the resend. *)
IrqStartup(st) ==
    LET d == [st EXCEPT !.depth = 0]
        m == Clear(d, {"managed_shutdown"})
    IN  IF Has(d, "started") THEN CheckIrqResend(IrqEnable(d))
        ELSE IF st.conf.managed = "no" THEN CheckIrqResend(RawStartup(d))
        ELSE IF st.conf.managed = "offline" THEN Set(m, {"managed_shutdown"})
        ELSE CheckIrqResend(RawStartup(Set(m, {"activated"})))

IrqActivate(st) == IF st.conf.managed = "no" THEN Set(st, {"activated"}) ELSE st

IrqShutdown(st) ==
    Clear(IF ~Has(st, "started") THEN st
          ELSE Clear(LET d == [st EXCEPT !.depth = 1]
                     IN  IF "startup" \in st.conf.chip
                         THEN Set(ChipMask(d), {"disabled", "masked"})
                         ELSE DoIrqDisable(d, TRUE),
                     {"started"}),
          {"activated"})

IrqPercpuEnable(st, c) ==
    [st EXCEPT !.masked = @ \ {c}, !.percpu_enabled = @ \cup {c}]

IrqPercpuDisable(st, c) ==
    [st EXCEPT !.masked = @ \cup {c}, !.percpu_enabled = @ \ {c}]

-----------------------------------------------------------------------------
(* The flow handlers up to the call of the actions.  Each returns the      *)
(* state and whether the actions run next; Event is the locked first half  *)
(* of handle_irq_event.                                                    *)

IrqMayRun(st) == ~Has(st, "inprogress")
CanHandle(st) == st.action # "none" /\ ~Has(st, "disabled")
Pending(st)   == Set(st, {"pending"})
Done(st)      == [st |-> st, run |-> FALSE]

(* A plausible slip: the in-progress bit is not set.                       *)
EventUnmarked(st) == [st |-> Clear(st, {"pending"}), run |-> TRUE]
Event(st) == [st |-> Set(Clear(st, {"pending"}), {"inprogress"}), run |-> TRUE]

HandleSimpleIrq(st, c) ==
    IF ~IrqMayRun(st) THEN Done(st)
    ELSE IF ~CanHandle(st) THEN Done(Pending(st))
    ELSE Event(st)

HandleUntrackedIrq(st, c) == HandleSimpleIrq(st, c)

HandleNestedIrq(st, c) ==
    IF ~CanHandle(st) THEN Done(Pending(st))
    ELSE [st |-> Set(st, {"inprogress"}), run |-> TRUE]

HandleLevelIrq(st, c) ==
    LET m == MaskAckIrq(st)
    IN  IF ~IrqMayRun(m) THEN Done(m)
        ELSE IF ~CanHandle(m) THEN Done(Pending(m))
        ELSE Event(m)

Oneshot(st) == IF st.conf.oneshot THEN MaskIrq(st) ELSE st

HandleFasteoiIrq(st, c) ==
    IF ~IrqMayRun(st) THEN Done(ChipEoi(st, c))
    ELSE IF ~CanHandle(st) THEN Done(ChipEoi(MaskIrq(Pending(st)), c))
    ELSE Event(Oneshot(st))

HandleFasteoiAckIrq(st, c) ==
    IF ~IrqMayRun(st) THEN Done(ChipEoi(st, c))
    ELSE IF ~CanHandle(st) THEN Done(ChipEoi(MaskIrq(Pending(st)), c))
    ELSE Event(ChipAck(Oneshot(st)))

HandleFasteoiMaskIrq(st, c) ==
    LET m == MaskAckIrq(st)
    IN  IF ~IrqMayRun(m) THEN Done(ChipEoi(m, c))
        ELSE IF ~CanHandle(m) THEN Done(ChipEoi(MaskIrq(Pending(m)), c))
        ELSE Event(Oneshot(m))

Reopen(st) ==
    IF Has(st, "pending") /\ ~Has(st, "disabled") /\ Has(st, "masked")
    THEN UnmaskIrq(st) ELSE st

(* A plausible slip: an edge that comes while the handler runs elsewhere   *)
(* is acknowledged but not marked pending.                                 *)
HandleEdgeIrqForget(st, c) ==
    IF IrqMayRun(st) /\ CanHandle(st)
    THEN Event(Reopen(ChipAck(st)))
    ELSE Done(MaskAckIrq(IF IrqMayRun(st) THEN Pending(st) ELSE st))

HandleEdgeIrq(st, c) ==
    IF IrqMayRun(st) /\ CanHandle(st)
    THEN Event(Reopen(ChipAck(st)))
    ELSE Done(MaskAckIrq(Pending(st)))

HandleEdgeEoiIrq(st, c) ==
    IF IrqMayRun(st) /\ CanHandle(st) THEN Event(st) ELSE Done(ChipEoi(Pending(st), c))

(* The per-CPU flows take no lock and set no flag.                         *)
HandlePercpuIrq(st, c) == [st |-> st, run |-> TRUE]

HandlePercpuDevidIrq(st, c) ==
    IF st.action # "none" THEN [st |-> st, run |-> TRUE]
    ELSE Done(ChipEoi(IF c \in st.percpu_enabled THEN IrqPercpuDisable(st, c) ELSE st, c))

(* handle_bad_irq: ack_bad_irq only reports; the controller is left to     *)
(* the line having been masked when the handler was taken away.            *)
HandleBadIrq(st, c) == Done([st EXCEPT !.service = @ \ {c}])

HandleIrq(st, c, flow) ==
    CASE flow = "bad"          -> HandleBadIrq(st, c)
      [] flow = "simple"       -> HandleSimpleIrq(st, c)
      [] flow = "untracked"    -> HandleUntrackedIrq(st, c)
      [] flow = "nested"       -> HandleNestedIrq(st, c)
      [] flow = "level"        -> HandleLevelIrq(st, c)
      [] flow = "fasteoi"      -> HandleFasteoiIrq(st, c)
      [] flow = "fasteoi_ack"  -> HandleFasteoiAckIrq(st, c)
      [] flow = "fasteoi_mask" -> HandleFasteoiMaskIrq(st, c)
      [] flow = "edge"         -> HandleEdgeIrq(st, c)
      [] flow = "edge_eoi"     -> HandleEdgeEoiIrq(st, c)
      [] flow = "percpu"       -> HandlePercpuIrq(st, c)
      [] flow = "percpu_devid" -> HandlePercpuDevidIrq(st, c)

-----------------------------------------------------------------------------
(* The flow handlers from the return of the actions.                       *)

CondUnmaskIrq(st) ==
    IF ~Has(st, "disabled") /\ Has(st, "masked") THEN UnmaskIrq(st) ELSE st

CondUnmaskEoiIrq(st, c) ==
    IF ~st.conf.oneshot THEN ChipEoi(st, c) ELSE CondUnmaskIrq(ChipEoi(st, c))

Again(st) == Has(st, "pending") /\ ~Has(st, "disabled")

AfterEvent(st, c, flow) ==
    LET d == Clear(st, {"inprogress"})
    IN  CASE flow \in Software -> Done(d)
          [] flow = "level" -> Done(CondUnmaskIrq(d))
          [] flow \in {"fasteoi", "fasteoi_ack", "fasteoi_mask"} ->
               Done(CondUnmaskEoiIrq(d, c))
          [] flow = "edge" ->
               IF ~Again(d) THEN Done(d)
               ELSE IF d.action = "none" THEN Done(MaskIrq(d))
               ELSE Event(Reopen(d))
          [] flow = "edge_eoi" ->
               IF Again(d) /\ d.action # "none" THEN Event(d) ELSE Done(ChipEoi(d, c))
          [] flow \in PerCpu -> Done(ChipEoi(st, c))

-----------------------------------------------------------------------------
(* Steps.                                                                  *)

Targets(c) == IF irq.conf.flow \in PerCpu THEN {c} ELSE Cpus

(* The device raises its line, or produces an edge.  The event is owed to  *)
(* the driver that is attached then.  External.                            *)
Raise(c) ==
    irq' = [irq EXCEPT !.raised = @ \cup Targets(c),
                       !.unserved = IF irq.action = "none" THEN {} ELSE @ \cup Targets(c)]

(* The controller interrupts a CPU.  A controller whose interrupts are     *)
(* ended per CPU may interrupt another CPU meanwhile; the others signal    *)
(* again only after the acknowledge or the end.  External.                 *)
Deliver(c) ==
    /\ irq.pc[c] = "idle" /\ c \in irq.raised /\ c \notin irq.masked
    /\ irq.conf.flow \in PerCpu \cup {"edge_eoi", "simple", "untracked"}
          \/ irq.service = {}
    /\ irq.conf.flow = "nested" => \A d \in Cpus : irq.pc[d] = "idle"
    /\ irq' = [irq EXCEPT !.pc[c] = "entry", !.raised = TakeLatch(irq, c),
                          !.service = IF irq.conf.flow \in Software THEN @ ELSE @ \cup {c}]

Enter(c, r) ==
    irq' = [r.st EXCEPT !.pc[c] = IF r.run THEN "event" ELSE "idle",
                        !.flow[c] = irq.handler]

(* generic_handle_irq_desc calls desc->handle_irq.                         *)
GenericHandleIrq(c) ==
    /\ irq.pc[c] = "entry"
    /\ Enter(c, HandleIrq(irq, c, irq.handler))

(* __handle_irq_event_percpu: the actions run with desc->lock released;    *)
(* the list is read then, and may be empty by now.                         *)
HandleIrqEventPercpu(c) ==
    /\ irq.pc[c] = "event"
    /\ irq' = [irq EXCEPT
         !.pc[c] = "exit",
         !.unserved = IF irq.action = "none" THEN @ ELSE @ \ Targets(c),
         !.raised = IF irq.action = "none" \/ irq.conf.flow \in Latched
                    THEN @ ELSE @ \ Targets(c)]

Exit(c, r) == irq' = [r.st EXCEPT !.pc[c] = IF r.run THEN "event" ELSE "idle"]

FlowReturn(c) ==
    /\ irq.pc[c] = "exit"
    /\ Exit(c, AfterEvent(irq, c, irq.flow[c]))

(* The driver's side, each under desc->lock.  Attaching and detaching an   *)
(* action (request_irq, free_irq) is not in the tree: external, modelled   *)
(* from what irq_activate, irq_startup and irq_shutdown are written for.   *)
Global == irq.conf.flow \notin PerCpu

RequestIrq ==
    /\ irq.action = "none" /\ irq.handler # "bad" /\ ~Has(irq, "inprogress")
    /\ IF Global THEN irq' = IrqStartup(IrqActivate([irq EXCEPT !.action = "driver"]))
       ELSE irq' = [irq EXCEPT !.action = "driver"]

FreeIrq ==
    /\ irq.action # "none"
    /\ irq' = LET d == [irq EXCEPT !.action = "none", !.unserved = {}]
              IN  IF Global THEN IrqShutdown(d) ELSE d

DisableIrq ==
    /\ Global /\ irq.action # "none" /\ irq.depth = 0
    /\ irq' = DoIrqDisable([irq EXCEPT !.depth = 1], irq.conf.unlazy)

EnableIrq ==
    /\ Global /\ irq.action # "none" /\ irq.depth = 1 /\ irq.handler # "bad"
    /\ irq' = IrqStartup(irq)

PercpuEnable(c) ==
    /\ ~Global /\ c \notin irq.percpu_enabled /\ irq.action # "none"
    /\ irq' = IrqPercpuEnable(irq, c)

PercpuDisable(c) ==
    /\ ~Global /\ c \in irq.percpu_enabled
    /\ irq' = IrqPercpuDisable(irq, c)

(* __irq_do_set_handler, not chained: taking the flow handler away masks   *)
(* and acknowledges the line and leaves it disabled.  The domain code does *)
(* so after the actions are gone.                                          *)
DoSetHandler(handle) ==
    /\ Global /\ irq.action = "none" /\ handle # irq.handler
    /\ irq' = [(IF handle = "bad"
                THEN [Set(MaskAckIrq(irq), {"disabled"}) EXCEPT !.depth = 1] ELSE irq)
               EXCEPT !.handler = handle]

Init ==
    \E conf \in Confs :
        irq = [conf |-> conf, flags |-> {"disabled", "masked"}, depth |-> 1,
               action |-> "none", handler |-> conf.flow, percpu_enabled |-> {},
               raised |-> {}, masked |-> Cpus, service |-> {}, unserved |-> {},
               pc |-> [c \in Cpus |-> "idle"], flow |-> [c \in Cpus |-> "bad"]]

CpuStep(c) == GenericHandleIrq(c) \/ HandleIrqEventPercpu(c) \/ FlowReturn(c)

Next ==
    \/ \E c \in Cpus : Raise(c) \/ Deliver(c) \/ CpuStep(c)
    \/ RequestIrq \/ FreeIrq \/ DisableIrq \/ EnableIrq
    \/ \E c \in Cpus : PercpuEnable(c) \/ PercpuDisable(c)
    \/ DoSetHandler("bad") \/ DoSetHandler(irq.conf.flow)

Spec == Init /\ [][Next]_irq

-----------------------------------------------------------------------------
Enabled == irq.action # "none" /\ Has(irq, "started") /\ ~Has(irq, "disabled")
Running(c) == irq.pc[c] \in {"event", "exit"}
AllIdle == \A c \in Cpus : irq.pc[c] = "idle"

(* fasteoi_mask without IRQS_ONESHOT never unmasks what mask_ack_irq       *)
(* masked: cond_unmask_eoi_irq returns after the eoi.                      *)
Reopens == irq.conf.flow # "fasteoi_mask" \/ irq.conf.oneshot

(* chip.c: the actions of a descriptor never run on two CPUs at once,      *)
(* IRQD_IRQ_INPROGRESS is set exactly while they run, and the software     *)
(* mask bit agrees with the controller.                                    *)
HandlerExclusive ==
    Global =>
      /\ \A c, d \in Cpus : Running(c) /\ Running(d) => c = d
      /\ Has(irq, "inprogress") <=> \E c \in Cpus : Running(c)
      /\ irq.masked = IF Has(irq, "masked") THEN Cpus ELSE {}

(* chip.c: whatever disables, enables and interrupts raced, once the CPUs  *)
(* are out of the flow handlers an enabled interrupt is open: unmasked,    *)
(* ended in the controller and with nothing left pending.                  *)
OpenAtRest ==
    /\ Global /\ AllIdle /\ Enabled /\ Reopens =>
          ~Has(irq, "masked") /\ ~Has(irq, "pending")
    /\ AllIdle => irq.service = {}

(* chip.c: an event of the device is never dropped: it is still raised in  *)
(* the controller, marked pending, or about to be looked at.  The software *)
(* decoded flows drop one that comes while the handler runs.               *)
EventKept ==
    irq.conf.flow \notin {"simple", "untracked"} =>
      \A c \in irq.unserved :
         \/ c \in irq.raised \/ Has(irq, "pending")
         \/ \E d \in Cpus : irq.pc[d] \in {"entry", "event"}

EventWaits == irq.conf.flow \in Tracked /\ Reopens /\ Enabled /\ irq.unserved # {}

=============================================================================
