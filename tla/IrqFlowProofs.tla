---------------------------- MODULE IrqFlowProofs ----------------------------
(***************************************************************************)
(* The flow handlers, for any CPUs and configurations: the inductive       *)
(* invariant of the descriptor, what each operation of chip.c does to it,  *)
(* entering and leaving every flow handler, the controller's and the       *)
(* driver's side, and the theorems.                                        *)
(*                                                                         *)
(* The operations of chip.c are functions of the descriptor, so that each  *)
(* lemma states what one of them does to the fields the invariant reads,   *)
(* and a step is the composition of those.                                 *)
(***************************************************************************)
EXTENDS IrqFlow, TLAPS

Flows == Tracked \cup Software \cup PerCpu
Flags == {"disabled", "masked", "pending", "inprogress", "started", "activated",
          "managed_shutdown"}

(* The configurations a chip and a driver can ask for.                     *)
AllConfs ==
    [flow : Flows, chip : SUBSET {"mask_ack", "enable", "startup"}, oneshot : BOOLEAN,
     unlazy : BOOLEAN, managed : {"no", "online", "offline"}]

Type ==
    [conf : AllConfs, flags : SUBSET Flags, depth : {0, 1}, action : {"none", "driver"},
     handler : Flows \cup {"bad"}, percpu_enabled : SUBSET Cpus, raised : SUBSET Cpus,
     masked : SUBSET Cpus, service : SUBSET Cpus, unserved : SUBSET Cpus,
     pc : [Cpus -> {"idle", "entry", "event", "exit"}], flow : [Cpus -> Flows \cup {"bad"}]]

Runs(st, c) == st.pc[c] = "event" \/ st.pc[c] = "exit"

(* The software mask bit agrees with the controller.                       *)
MaskOK(st) == st.masked = IF Has(st, "masked") THEN Cpus ELSE {}

(* The flow handler a CPU is in, and who is attached to what.              *)
Attached(st) ==
    /\ st.handler = "bad" \/ st.handler = st.conf.flow
    /\ st.handler = "bad" => st.action = "none" /\ st.conf.flow \notin PerCpu
    /\ st.action = "none" => st.unserved = {}
    /\ \A c \in Cpus : Runs(st, c) => st.flow[c] = st.conf.flow

(* One CPU runs the actions, and IRQD_IRQ_INPROGRESS says so.              *)
Exclusive(st) ==
    st.conf.flow \notin PerCpu =>
      /\ MaskOK(st)
      /\ \A c, d \in Cpus : Runs(st, c) /\ Runs(st, d) => c = d
      /\ Has(st, "inprogress") <=> \E c \in Cpus : Runs(st, c)
      /\ st.conf.flow = "nested" =>
            \A c, d \in Cpus : st.pc[c] # "idle" /\ st.pc[d] # "idle" => c = d

(* What the controller waits for is on the way to its ack or its eoi.      *)
InService(st) ==
    /\ \A c \in st.service : \/ st.pc[c] = "entry"
                             \/ st.conf.flow \in Eois /\ Runs(st, c)
    /\ st.conf.flow \in Software => st.service = {}

(* An enabled interrupt is masked only by a handler that will unmask it,   *)
(* and pending only while one runs that will look again.                   *)
Masks(st) ==
    \/ st.conf.flow \in {"level", "edge"}
    \/ st.conf.flow \in {"fasteoi", "fasteoi_ack", "fasteoi_mask"} /\ st.conf.oneshot
Opens(st) ==
    /\ st.conf.flow \notin PerCpu /\ (st.conf.flow # "fasteoi_mask" \/ st.conf.oneshot)
    /\ st.action # "none" /\ Has(st, "started") /\ ~Has(st, "disabled")
Open(st) ==
    Opens(st) =>
      /\ Has(st, "masked") => Has(st, "inprogress") /\ Masks(st)
      /\ Has(st, "pending") => Has(st, "inprogress") /\ st.conf.flow \in {"edge", "edge_eoi"}
      /\ Has(st, "masked") /\ st.conf.flow = "edge" => Has(st, "pending")

(* An event is still raised, or, where the acknowledge took it out of the  *)
(* latch, pending or with a CPU that has yet to run the actions.           *)
Owed(st) ==
    \/ Has(st, "pending")
    \/ \E d \in Cpus : \/ st.pc[d] = "event"
                       \/ st.pc[d] = "entry" /\ st.conf.flow \in {"edge_eoi", "nested"}
Kept(st) ==
    st.conf.flow \notin {"simple", "untracked"} =>
      st.unserved \subseteq st.raised \/ (st.conf.flow \in Latched /\ Owed(st))

Inv(st) ==
    st \in Type /\ Attached(st) /\ Exclusive(st) /\ InService(st) /\ Open(st) /\ Kept(st)

IInv == Inv(irq)

-----------------------------------------------------------------------------
(* The operations of chip.c on a descriptor whose mask bit is right.       *)

Frame(a, b) ==
    /\ b \in Type /\ b.conf = a.conf /\ b.action = a.action /\ b.handler = a.handler
    /\ b.unserved = a.unserved /\ b.pc = a.pc /\ b.flow = a.flow

Becomes(a, b, flags, raised, service) ==
    Frame(a, b) /\ MaskOK(b) /\ b.flags = flags /\ b.raised = raised /\ b.service = service

(* Flags other than the mask bit are set or cleared.                       *)
LEMMA FlagOps ==
    ASSUME NEW st \in Type, MaskOK(st), NEW fs \in SUBSET Flags, "masked" \notin fs
    PROVE  /\ Becomes(st, Set(st, fs), st.flags \cup fs, st.raised, st.service)
           /\ Becomes(st, Clear(st, fs), st.flags \ fs, st.raised, st.service)
BY Zenon DEF Becomes, Frame, MaskOK, Has, Set, Clear, Type

(* irq_eoi ends the interrupt of one CPU.                                  *)
LEMMA EoiOp ==
    ASSUME NEW st \in Type, MaskOK(st), NEW c \in Cpus
    PROVE  Becomes(st, ChipEoi(st, c), st.flags, st.raised, st.service \ {c})
BY Zenon DEF Becomes, Frame, MaskOK, Has, ChipEoi, Type

(* What the acknowledge leaves raised and in service.                      *)
Acked(st) == IF st.conf.flow \in Latched THEN {} ELSE st.raised
Ended(st) == IF st.conf.flow \in Eois THEN st.service ELSE {}

(* irq_ack.                                                                *)
LEMMA AckOp ==
    ASSUME NEW st \in Type, MaskOK(st)
    PROVE  Becomes(st, ChipAck(st), st.flags, Acked(st), Ended(st))
BY Zenon DEF Becomes, Frame, MaskOK, Has, ChipAck, Type, Acked, Ended

(* The line is masked or unmasked together with its bit.                   *)
LEMMA ChipOp ==
    ASSUME NEW st \in Type, NEW fl \in SUBSET Flags
    PROVE  /\ "masked" \in fl =>
                Becomes(st, [[st EXCEPT !.masked = Cpus] EXCEPT !.flags = fl], fl, st.raised, st.service)
           /\ "masked" \notin fl =>
                Becomes(st, [[st EXCEPT !.masked = {}] EXCEPT !.flags = fl], fl, st.raised, st.service)
<1>1. ASSUME NEW m \in SUBSET Cpus, m = IF "masked" \in fl THEN Cpus ELSE {}
      PROVE  Becomes(st, [[st EXCEPT !.masked = m] EXCEPT !.flags = fl], fl, st.raised, st.service)
  <2> DEFINE b == [[st EXCEPT !.masked = m] EXCEPT !.flags = fl]
  <2>1. Frame(st, b) /\ b.masked = m /\ b.flags = fl /\ b.raised = st.raised /\ b.service = st.service
    BY Zenon DEF Frame, Type
  <2> QED BY <1>1, <2>1, Zenon DEF Becomes, MaskOK, Has
<1>2. Cpus \in SUBSET Cpus /\ {} \in SUBSET Cpus
  BY Zenon
<1> QED BY <1>1, <1>2, Zenon

(* mask_irq and unmask_irq.                                                *)
LEMMA MaskOps ==
    ASSUME NEW st \in Type, MaskOK(st)
    PROVE  /\ Becomes(st, MaskIrq(st), st.flags \cup {"masked"}, st.raised, st.service)
           /\ Becomes(st, UnmaskIrq(st), st.flags \ {"masked"}, st.raised, st.service)
<1>1. "masked" \in Flags /\ st.flags \in SUBSET Flags
  BY Zenon DEF Type, Flags
<1>2. CASE "masked" \in st.flags
  <2>1. MaskIrq(st) = st /\ st.flags \cup {"masked"} = st.flags
    BY <1>2, Zenon DEF MaskIrq, Has
  <2>2. UnmaskIrq(st) = [[st EXCEPT !.masked = {}] EXCEPT !.flags = st.flags \ {"masked"}]
    BY <1>2, Zenon DEF UnmaskIrq, Has, Clear, ChipUnmask, Type
  <2>3. Becomes(st, MaskIrq(st), st.flags \cup {"masked"}, st.raised, st.service)
    BY <2>1, Zenon DEF Becomes, Frame
  <2>4. Becomes(st, UnmaskIrq(st), st.flags \ {"masked"}, st.raised, st.service)
    BY <1>1, <2>2, ChipOp, Zenon
  <2> QED BY <2>3, <2>4, Zenon
<1>3. CASE "masked" \notin st.flags
  <2>1. UnmaskIrq(st) = st /\ st.flags \ {"masked"} = st.flags
    BY <1>3, Zenon DEF UnmaskIrq, Has
  <2>2. MaskIrq(st) = [[st EXCEPT !.masked = Cpus] EXCEPT !.flags = st.flags \cup {"masked"}]
    BY <1>3, Zenon DEF MaskIrq, Has, Set, ChipMask, Type
  <2>3. Becomes(st, UnmaskIrq(st), st.flags \ {"masked"}, st.raised, st.service)
    BY <2>1, Zenon DEF Becomes, Frame
  <2>4. Becomes(st, MaskIrq(st), st.flags \cup {"masked"}, st.raised, st.service)
    BY <1>1, <2>2, ChipOp, Zenon
  <2> QED BY <2>3, <2>4, Zenon
<1> QED BY <1>2, <1>3, Zenon

(* desc->depth is read by no part of the invariant.                        *)
LEMMA DepthOp ==
    ASSUME NEW st \in Type, MaskOK(st), NEW d \in {0, 1}
    PROVE  Becomes(st, [st EXCEPT !.depth = d], st.flags, st.raised, st.service)
BY Zenon DEF Becomes, Frame, MaskOK, Has, Type

(* One operation after another.                                            *)
LEMMA Then ==
    ASSUME NEW a, NEW b, NEW d, NEW f, NEW r, NEW s, NEW g, NEW q, NEW u,
           Becomes(a, b, f, r, s), Becomes(b, d, g, q, u)
    PROVE  Becomes(a, d, g, q, u)
BY Zenon DEF Becomes, Frame

(* mask_ack_irq, with and without irq_mask_ack.                            *)
LEMMA MaskAckOp ==
    ASSUME NEW st \in Type, MaskOK(st)
    PROVE  Becomes(st, MaskAckIrq(st), st.flags \cup {"masked"}, Acked(st), Ended(st))
<1>1. CASE "mask_ack" \in st.conf.chip
  <2> DEFINE m == [[st EXCEPT !.masked = Cpus] EXCEPT !.flags = st.flags \cup {"masked"}]
  <2>1. st.flags \cup {"masked"} \in SUBSET Flags
    BY Zenon DEF Type, Flags
  <2>2. Becomes(st, m, st.flags \cup {"masked"}, st.raised, st.service)
    BY <2>1, ChipOp, Zenon
  <2>3. MaskAckIrq(st) = ChipAck(m)
    BY <1>1, Zenon DEF MaskAckIrq, ChipAck, ChipMask, Set, Type
  <2> HIDE DEF m
  <2>4. m \in Type /\ MaskOK(m) /\ Acked(m) = Acked(st) /\ Ended(m) = Ended(st)
        /\ m.flags = st.flags \cup {"masked"}
    BY <2>2, Zenon DEF Becomes, Frame, Acked, Ended
  <2>5. Becomes(m, ChipAck(m), m.flags, Acked(m), Ended(m))
    BY <2>4, AckOp, Zenon
  <2> QED BY <2>2, <2>3, <2>4, <2>5, Then
<1>2. CASE "mask_ack" \notin st.conf.chip
  <2> DEFINE m == MaskIrq(st)
  <2>1. Becomes(st, m, st.flags \cup {"masked"}, st.raised, st.service)
    BY MaskOps, Zenon
  <2>2. MaskAckIrq(st) = ChipAck(m)
    BY <1>2, Zenon DEF MaskAckIrq
  <2> HIDE DEF m
  <2>4. m \in Type /\ MaskOK(m) /\ Acked(m) = Acked(st) /\ Ended(m) = Ended(st)
        /\ m.flags = st.flags \cup {"masked"}
    BY <2>1, Zenon DEF Becomes, Frame, Acked, Ended
  <2>5. Becomes(m, ChipAck(m), m.flags, Acked(m), Ended(m))
    BY <2>4, AckOp, Zenon
  <2> QED BY <2>1, <2>2, <2>4, <2>5, Then
<1> QED BY <1>1, <1>2, Zenon

(* irq_enable, with and without the callback.                              *)
LEMMA EnableOp ==
    ASSUME NEW st \in Type, MaskOK(st)
    PROVE  Becomes(st, IrqEnable(st), st.flags \ {"disabled", "masked"}, st.raised, st.service)
<1>1. CASE "disabled" \notin st.flags
  <2>1. IrqEnable(st) = UnmaskIrq(st) /\ st.flags \ {"disabled", "masked"} = st.flags \ {"masked"}
    BY <1>1, Zenon DEF IrqEnable, Has
  <2> QED BY <2>1, MaskOps, Zenon
<1>2. CASE "disabled" \in st.flags /\ "enable" \in st.conf.chip
  <2>1. IrqEnable(st) =
          [[st EXCEPT !.masked = {}] EXCEPT !.flags = st.flags \ {"disabled", "masked"}]
    BY <1>2, Zenon DEF IrqEnable, Has, Clear, ChipUnmask, Type
  <2>2. st.flags \ {"disabled", "masked"} \in SUBSET Flags
    BY Zenon DEF Type
  <2> QED BY <2>1, <2>2, ChipOp, Zenon
<1>3. CASE "disabled" \in st.flags /\ "enable" \notin st.conf.chip
  <2> DEFINE m == Clear(st, {"disabled"})
  <2>1. {"disabled"} \in SUBSET Flags
    BY Zenon DEF Flags
  <2>2. Becomes(st, m, st.flags \ {"disabled"}, st.raised, st.service)
    BY <2>1, FlagOps, Zenon
  <2>3. IrqEnable(st) = UnmaskIrq(m)
    BY <1>3, Zenon DEF IrqEnable, Has
  <2> HIDE DEF m
  <2>4. /\ m \in Type /\ MaskOK(m) /\ m.raised = st.raised /\ m.service = st.service
        /\ m.flags \ {"masked"} = st.flags \ {"disabled", "masked"}
    BY <2>2, Zenon DEF Becomes, Frame
  <2>5. Becomes(m, UnmaskIrq(m), m.flags \ {"masked"}, m.raised, m.service)
    BY <2>4, MaskOps, Zenon
  <2> QED BY <2>2, <2>3, <2>4, <2>5, Then
<1> QED BY <1>1, <1>2, <1>3, Zenon

(* The flags a disable may leave: masked, or lazily not.                   *)
Disabled(st) == {st.flags \cup {"disabled"}, st.flags \cup {"disabled", "masked"}}

(* __irq_disable, with and without the callback, lazy or not.              *)
LEMMA DisableOp ==
    ASSUME NEW st \in Type, MaskOK(st), NEW mask \in BOOLEAN
    PROVE  \E fl \in Disabled(st) : Becomes(st, DoIrqDisable(st, mask), fl, st.raised, st.service)
<1> DEFINE D == Set(st, {"disabled"})
<1>1. {"disabled"} \in SUBSET Flags /\ st.flags \cup {"disabled", "masked"} \in SUBSET Flags
  BY Zenon DEF Flags, Type
<1>2. Becomes(st, D, st.flags \cup {"disabled"}, st.raised, st.service)
  BY <1>1, FlagOps, Zenon
<1>3. CASE "disabled" \in st.flags
  <2>1. /\ st.flags \cup {"disabled"} = st.flags
        /\ st.flags \cup {"disabled", "masked"} = st.flags \cup {"masked"}
        /\ DoIrqDisable(st, mask) = IF mask THEN MaskIrq(st) ELSE st
    BY <1>3, Zenon DEF DoIrqDisable, Has
  <2>2. Becomes(st, st, st.flags, st.raised, st.service)
    BY Zenon DEF Becomes, Frame
  <2> QED BY <2>1, <2>2, MaskOps, Zenon DEF Disabled
<1>4. CASE "disabled" \notin st.flags /\ "enable" \in st.conf.chip
  <2>1. DoIrqDisable(st, mask) =
          [[st EXCEPT !.masked = Cpus] EXCEPT !.flags = st.flags \cup {"disabled", "masked"}]
    BY <1>4, Zenon DEF DoIrqDisable, Has, Set, ChipMask, Type
  <2>2. Becomes(st, DoIrqDisable(st, mask), st.flags \cup {"disabled", "masked"}, st.raised, st.service)
    BY <1>1, <2>1, ChipOp, Zenon
  <2> QED BY <2>2, Zenon DEF Disabled
<1>5. CASE "disabled" \notin st.flags /\ "enable" \notin st.conf.chip
  <2>1. DoIrqDisable(st, mask) = IF mask THEN MaskIrq(D) ELSE D
    BY <1>5, Zenon DEF DoIrqDisable, Has
  <2> HIDE DEF D
  <2>2. /\ D \in Type /\ MaskOK(D) /\ D.raised = st.raised /\ D.service = st.service
        /\ D.flags \cup {"masked"} = st.flags \cup {"disabled", "masked"}
    BY <1>2, Zenon DEF Becomes, Frame
  <2>3. Becomes(D, MaskIrq(D), D.flags \cup {"masked"}, D.raised, D.service)
    BY <2>2, MaskOps, Zenon
  <2>4. Becomes(st, MaskIrq(D), st.flags \cup {"disabled", "masked"}, st.raised, st.service)
    BY <1>2, <2>2, <2>3, Then
  <2> QED BY <1>2, <2>1, <2>4, Zenon DEF Disabled
<1> QED BY <1>3, <1>4, <1>5, Zenon

(* What check_irq_resend leaves raised.                                    *)
Resent(st) == IF Has(st, "pending") /\ st.conf.flow \in Latched THEN Cpus ELSE st.raised

(* check_irq_resend raises a pending interrupt again.                      *)
LEMMA ResendOp ==
    ASSUME NEW st \in Type, MaskOK(st)
    PROVE  Becomes(st, CheckIrqResend(st), st.flags \ {"pending"}, Resent(st), st.service)
<1>1. CASE "pending" \notin st.flags
  <2>1. CheckIrqResend(st) = st /\ st.flags \ {"pending"} = st.flags /\ Resent(st) = st.raised
    BY <1>1, Zenon DEF CheckIrqResend, Has, Resent
  <2> QED BY <2>1, Zenon DEF Becomes, Frame
<1>2. CASE "pending" \in st.flags
  <2> DEFINE R == [st EXCEPT !.raised = Resent(st)]
  <2>1. CheckIrqResend(st) = Clear(R, {"pending"})
    BY <1>2, Zenon DEF CheckIrqResend, Has, Resent
  <2>2. Becomes(st, R, st.flags, Resent(st), st.service)
    BY Zenon DEF Becomes, Frame, MaskOK, Has, Type, Resent
  <2> HIDE DEF R
  <2>3. /\ R \in Type /\ MaskOK(R) /\ R.flags = st.flags /\ R.raised = Resent(st)
        /\ R.service = st.service
    BY <2>2, Zenon DEF Becomes, Frame
  <2>4. {"pending"} \in SUBSET Flags /\ "masked" \notin {"pending"}
    BY Zenon DEF Flags
  <2>5. Becomes(R, Clear(R, {"pending"}), R.flags \ {"pending"}, R.raised, R.service)
    BY <2>3, <2>4, FlagOps, Zenon
  <2> QED BY <2>1, <2>2, <2>3, <2>5, Then
<1> QED BY <1>1, <1>2, Zenon

(* __irq_startup.                                                          *)
LEMMA RawStartupOp ==
    ASSUME NEW st \in Type, MaskOK(st)
    PROVE  Becomes(st, RawStartup(st), (st.flags \ {"disabled", "masked"}) \cup {"started"},
                   st.raised, st.service)
<1> DEFINE m == IF "startup" \in st.conf.chip
                THEN Clear(ChipUnmask(st), {"disabled", "masked"}) ELSE IrqEnable(st)
<1>1. Becomes(st, m, st.flags \ {"disabled", "masked"}, st.raised, st.service)
  <2>1. CASE "startup" \in st.conf.chip
    <3>1. m = [[st EXCEPT !.masked = {}] EXCEPT !.flags = st.flags \ {"disabled", "masked"}]
      BY <2>1, Zenon DEF Clear, ChipUnmask, Type
    <3>2. st.flags \ {"disabled", "masked"} \in SUBSET Flags
      BY Zenon DEF Type
    <3> QED BY <3>1, <3>2, ChipOp, Zenon
  <2>2. CASE "startup" \notin st.conf.chip
    BY <2>2, EnableOp, Zenon
  <2> QED BY <2>1, <2>2, Zenon
<1>2. RawStartup(st) = Set(m, {"started"})
  BY Zenon DEF RawStartup
<1> HIDE DEF m
<1>3. /\ m \in Type /\ MaskOK(m) /\ m.raised = st.raised /\ m.service = st.service
      /\ m.flags = st.flags \ {"disabled", "masked"}
  BY <1>1, Zenon DEF Becomes, Frame
<1>4. {"started"} \in SUBSET Flags /\ "masked" \notin {"started"}
  BY Zenon DEF Flags
<1>5. Becomes(m, Set(m, {"started"}), m.flags \cup {"started"}, m.raised, m.service)
  BY <1>3, <1>4, FlagOps, Zenon
<1> QED BY <1>1, <1>2, <1>3, <1>5, Then

(* The two ends of irq_startup: opened and resent, or left shut down.      *)
Opened(st, fl) ==
    /\ "started" \in fl /\ "disabled" \notin fl /\ "masked" \notin fl /\ "pending" \notin fl
    /\ "inprogress" \in fl <=> "inprogress" \in st.flags
LeftShut(st, fl) ==
    /\ "started" \notin fl
    /\ "pending" \in fl <=> "pending" \in st.flags
    /\ "inprogress" \in fl <=> "inprogress" \in st.flags

(* An interrupt that is opened is resent.                                  *)
LEMMA OpenResend ==
    ASSUME NEW st \in Type, NEW a \in Type, NEW b, NEW f,
           Becomes(st, a, a.flags, st.raised, st.service),
           "inprogress" \in a.flags <=> "inprogress" \in st.flags,
           "pending" \in a.flags <=> "pending" \in st.flags,
           Becomes(a, b, f, a.raised, a.service),
           \/ f = (a.flags \ {"disabled", "masked"}) \cup {"started"}
           \/ f = a.flags \ {"disabled", "masked"} /\ "started" \in a.flags
    PROVE  \E fl : Becomes(st, CheckIrqResend(b), fl, Resent(st), st.service) /\ Opened(st, fl)
<1>1. /\ b \in Type /\ MaskOK(b) /\ b.raised = st.raised /\ b.service = st.service /\ b.flags = f
      /\ b.conf = st.conf
  BY Zenon DEF Becomes, Frame
<1>2. Resent(b) = Resent(st)
  BY <1>1, Zenon DEF Resent, Has
<1>3. Becomes(b, CheckIrqResend(b), f \ {"pending"}, Resent(st), st.service)
  BY <1>1, <1>2, ResendOp, Zenon
<1>4. Becomes(st, b, f, st.raised, st.service)
  BY Then, Zenon DEF Becomes
<1>5. Becomes(st, CheckIrqResend(b), f \ {"pending"}, Resent(st), st.service)
  BY <1>3, <1>4, Then, Zenon
<1>6. Opened(st, f \ {"pending"})
  BY Zenon DEF Opened
<1> QED BY <1>5, <1>6, Zenon

(* irq_startup.                                                            *)
LEMMA StartupOp ==
    ASSUME NEW st \in Type, MaskOK(st)
    PROVE  \/ \E fl : /\ Becomes(st, IrqStartup(st), fl, Resent(st), st.service)
                      /\ Opened(st, fl)
           \/ \E fl : /\ Becomes(st, IrqStartup(st), fl, st.raised, st.service)
                      /\ LeftShut(st, fl)
<1> DEFINE d == [st EXCEPT !.depth = 0]
           m == Clear(d, {"managed_shutdown"})
           a == Set(m, {"activated"})
<1>1. Becomes(st, d, st.flags, st.raised, st.service)
  BY DepthOp, Zenon
<1>2. IrqStartup(st) =
        IF Has(d, "started") THEN CheckIrqResend(IrqEnable(d))
        ELSE IF st.conf.managed = "no" THEN CheckIrqResend(RawStartup(d))
        ELSE IF st.conf.managed = "offline" THEN Set(m, {"managed_shutdown"})
        ELSE CheckIrqResend(RawStartup(a))
  BY Zenon DEF IrqStartup
<1> HIDE DEF d
<1>3. /\ d \in Type /\ MaskOK(d) /\ d.flags = st.flags /\ d.raised = st.raised
      /\ d.service = st.service
  BY <1>1, Zenon DEF Becomes, Frame
<1>4. /\ {"managed_shutdown"} \in SUBSET Flags /\ "masked" \notin {"managed_shutdown"}
      /\ {"activated"} \in SUBSET Flags /\ "masked" \notin {"activated"}
  BY Zenon DEF Flags
<1>5. Becomes(d, m, d.flags \ {"managed_shutdown"}, d.raised, d.service)
  BY <1>3, <1>4, FlagOps, Zenon
<1> HIDE DEF m
<1>6. /\ m \in Type /\ MaskOK(m) /\ m.flags = st.flags \ {"managed_shutdown"}
      /\ m.raised = st.raised /\ m.service = st.service
      /\ Becomes(st, m, m.flags, st.raised, st.service)
  BY <1>1, <1>3, <1>5, Then, Zenon DEF Becomes, Frame
<1>7. /\ Becomes(m, a, m.flags \cup {"activated"}, m.raised, m.service)
      /\ Becomes(m, Set(m, {"managed_shutdown"}), m.flags \cup {"managed_shutdown"}, m.raised, m.service)
  BY <1>4, <1>6, FlagOps, Zenon
<1> HIDE DEF a
<1>8. /\ a \in Type /\ MaskOK(a) /\ a.flags = m.flags \cup {"activated"}
      /\ a.raised = st.raised /\ a.service = st.service
      /\ Becomes(st, a, a.flags, st.raised, st.service)
  BY <1>6, <1>7, Then, Zenon DEF Becomes, Frame
<1>9. CASE "started" \in st.flags
  <2>1. Becomes(d, IrqEnable(d), d.flags \ {"disabled", "masked"}, d.raised, d.service)
    BY <1>3, EnableOp, Zenon
  <2>2. IrqStartup(st) = CheckIrqResend(IrqEnable(d))
    BY <1>2, <1>3, <1>9, Zenon DEF Has
  <2>3. \E fl : Becomes(st, CheckIrqResend(IrqEnable(d)), fl, Resent(st), st.service) /\ Opened(st, fl)
    BY <1>1, <1>3, <1>9, <2>1, OpenResend, Zenon
  <2> QED BY <2>2, <2>3, Zenon
<1>10. CASE "started" \notin st.flags /\ st.conf.managed = "no"
  <2>1. Becomes(d, RawStartup(d), (d.flags \ {"disabled", "masked"}) \cup {"started"}, d.raised, d.service)
    BY <1>3, RawStartupOp, Zenon
  <2>2. IrqStartup(st) = CheckIrqResend(RawStartup(d))
    BY <1>2, <1>3, <1>10, Zenon DEF Has
  <2>3. \E fl : Becomes(st, CheckIrqResend(RawStartup(d)), fl, Resent(st), st.service) /\ Opened(st, fl)
    BY <1>1, <1>3, <1>10, <2>1, OpenResend, Zenon
  <2> QED BY <2>2, <2>3, Zenon
<1>11. CASE "started" \notin st.flags /\ st.conf.managed = "offline"
  <2>1. IrqStartup(st) = Set(m, {"managed_shutdown"})
    BY <1>2, <1>3, <1>11, Zenon DEF Has
  <2>2. Becomes(st, IrqStartup(st), m.flags \cup {"managed_shutdown"}, st.raised, st.service)
    BY <1>6, <1>7, <2>1, Then
  <2>3. LeftShut(st, m.flags \cup {"managed_shutdown"})
    BY <1>6, <1>11, Zenon DEF LeftShut
  <2> QED BY <2>2, <2>3, Zenon
<1>12. CASE "started" \notin st.flags /\ st.conf.managed # "no" /\ st.conf.managed # "offline"
  <2>1. Becomes(a, RawStartup(a), (a.flags \ {"disabled", "masked"}) \cup {"started"}, a.raised, a.service)
    BY <1>8, RawStartupOp, Zenon
  <2>2. IrqStartup(st) = CheckIrqResend(RawStartup(a))
    BY <1>2, <1>3, <1>12, Zenon DEF Has
  <2>3. \E fl : Becomes(st, CheckIrqResend(RawStartup(a)), fl, Resent(st), st.service) /\ Opened(st, fl)
    BY <1>6, <1>8, <2>1, OpenResend, Zenon
  <2> QED BY <2>2, <2>3, Zenon
<1> QED BY <1>9, <1>10, <1>11, <1>12, Zenon

(* irq_shutdown.                                                           *)
LEMMA ShutdownOp ==
    ASSUME NEW st \in Type, MaskOK(st)
    PROVE  \E fl : Becomes(st, IrqShutdown(st), fl, st.raised, st.service) /\ LeftShut(st, fl)
<1> DEFINE d == [st EXCEPT !.depth = 1]
           off == IF "startup" \in st.conf.chip
                  THEN Set(ChipMask(d), {"disabled", "masked"}) ELSE DoIrqDisable(d, TRUE)
           m == IF ~Has(st, "started") THEN st ELSE Clear(off, {"started"})
<1>1. /\ {"activated"} \in SUBSET Flags /\ "masked" \notin {"activated"}
      /\ {"started"} \in SUBSET Flags /\ "masked" \notin {"started"}
      /\ IrqShutdown(st) = Clear(m, {"activated"})
  BY Zenon DEF Flags, IrqShutdown
<1>2. Becomes(st, m, m.flags, st.raised, st.service) /\ LeftShut(st, m.flags)
  <2>1. CASE "started" \notin st.flags
    BY <2>1, Zenon DEF Has, Becomes, Frame, LeftShut
  <2>2. CASE "started" \in st.flags
    <3>1. Becomes(st, d, st.flags, st.raised, st.service)
      BY DepthOp, Zenon
    <3>2. "startup" \in st.conf.chip =>
            off = [[d EXCEPT !.masked = Cpus] EXCEPT !.flags = d.flags \cup {"disabled", "masked"}]
      BY Zenon DEF Set, ChipMask, Type
    <3>3. m = Clear(off, {"started"}) /\ ("startup" \notin st.conf.chip => off = DoIrqDisable(d, TRUE))
      BY <2>2, Zenon DEF Has
    <3> HIDE DEF d, off, m
    <3>4. /\ d \in Type /\ MaskOK(d) /\ d.flags = st.flags /\ d.raised = st.raised
          /\ d.service = st.service /\ d.flags \cup {"disabled", "masked"} \in SUBSET Flags
      BY <3>1, Zenon DEF Becomes, Frame, Type, Flags
    <3>5. \E fl \in Disabled(d) : Becomes(d, off, fl, d.raised, d.service)
      BY <3>2, <3>3, <3>4, ChipOp, DisableOp, Zenon DEF Disabled
    <3>6. PICK fl \in Disabled(d) : Becomes(d, off, fl, d.raised, d.service)
      BY <3>5, Zenon
    <3>7. /\ off \in Type /\ MaskOK(off) /\ off.flags = fl /\ off.raised = st.raised
          /\ off.service = st.service /\ Becomes(st, off, fl, st.raised, st.service)
      BY <3>1, <3>4, <3>6, Then, Zenon DEF Becomes, Frame
    <3>8. Becomes(off, m, off.flags \ {"started"}, off.raised, off.service)
      BY <1>1, <3>3, <3>7, FlagOps, Zenon
    <3>9. Becomes(st, m, fl \ {"started"}, st.raised, st.service) /\ m.flags = fl \ {"started"}
      BY <3>7, <3>8, Then, Zenon DEF Becomes
    <3>10. LeftShut(st, fl \ {"started"})
      BY <3>4, <3>6, Zenon DEF LeftShut, Disabled
    <3> QED BY <3>9, <3>10, Zenon
  <2> QED BY <2>1, <2>2, Zenon
<1> HIDE DEF m
<1>3. m \in Type /\ MaskOK(m) /\ m.raised = st.raised /\ m.service = st.service
  BY <1>2, Zenon DEF Becomes, Frame
<1>4. Becomes(m, Clear(m, {"activated"}), m.flags \ {"activated"}, m.raised, m.service)
  BY <1>1, <1>3, FlagOps, Zenon
<1>5. Becomes(st, IrqShutdown(st), m.flags \ {"activated"}, st.raised, st.service)
  BY <1>1, <1>2, <1>3, <1>4, Then
<1>6. LeftShut(st, m.flags \ {"activated"})
  BY <1>2, Zenon DEF LeftShut
<1> QED BY <1>5, <1>6, Zenon

(* irq_activate.                                                           *)
LEMMA ActivateOp ==
    ASSUME NEW st \in Type, MaskOK(st)
    PROVE  \E fl \in {st.flags, st.flags \cup {"activated"}} :
              Becomes(st, IrqActivate(st), fl, st.raised, st.service)
<1>1. {"activated"} \in SUBSET Flags /\ "masked" \notin {"activated"}
  BY Zenon DEF Flags
<1>2. Becomes(st, st, st.flags, st.raised, st.service)
  BY Zenon DEF Becomes, Frame
<1> QED BY <1>1, <1>2, FlagOps, Zenon DEF IrqActivate

-----------------------------------------------------------------------------
(* Entering and leaving a flow handler.                                    *)

(* What a flow handler may do before the actions run, or instead.          *)
EnterOK(st, c, r) ==
    /\ r.run \in BOOLEAN /\ Frame(st, r.st)
    /\ r.run => st.handler # "bad"
    /\ st.conf.flow \notin PerCpu =>
          /\ MaskOK(r.st)
          /\ r.run => ~Has(st, "inprogress")
          /\ Has(r.st, "inprogress") <=> Has(st, "inprogress") \/ r.run
    /\ r.st.service \subseteq st.service
    /\ c \in r.st.service => r.run /\ st.conf.flow \in Eois
    /\ Open(r.st)
    /\ st.conf.flow \notin {"simple", "untracked"} /\ st.unserved # {} =>
          \/ st.conf.flow \in Latched /\ (r.run \/ Has(r.st, "pending"))
          \/ /\ r.st.raised = st.raised /\ st.conf.flow \notin {"edge_eoi", "nested"}
             /\ Has(st, "pending") => Has(r.st, "pending") \/ st.conf.flow \notin Latched

(* The locked first half of handle_irq_event.                              *)
LEMMA EventOp ==
    ASSUME NEW st \in Type, MaskOK(st)
    PROVE  /\ Becomes(st, Event(st).st, (st.flags \ {"pending"}) \cup {"inprogress"}, st.raised, st.service)
           /\ Event(st).run = TRUE
<1>1. /\ {"pending"} \in SUBSET Flags /\ "masked" \notin {"pending"}
      /\ {"inprogress"} \in SUBSET Flags /\ "masked" \notin {"inprogress"}
  BY Zenon DEF Flags
<1> DEFINE d == Clear(st, {"pending"})
<1>2. Becomes(st, d, st.flags \ {"pending"}, st.raised, st.service)
  BY <1>1, FlagOps, Zenon
<1>3. Event(st).st = Set(d, {"inprogress"}) /\ Event(st).run = TRUE
  BY Zenon DEF Event
<1> HIDE DEF d
<1>4. /\ d \in Type /\ MaskOK(d) /\ d.flags = st.flags \ {"pending"}
      /\ d.raised = st.raised /\ d.service = st.service
  BY <1>2, Zenon DEF Becomes, Frame
<1>5. Becomes(d, Set(d, {"inprogress"}), d.flags \cup {"inprogress"}, d.raised, d.service)
  BY <1>1, <1>4, FlagOps, Zenon
<1> QED BY <1>2, <1>3, <1>4, <1>5, Then

(* An interrupt that cannot be handled now is marked pending.              *)
LEMMA PendingOp ==
    ASSUME NEW st \in Type, MaskOK(st)
    PROVE  Becomes(st, Pending(st), st.flags \cup {"pending"}, st.raised, st.service)
<1>1. {"pending"} \in SUBSET Flags /\ "masked" \notin {"pending"}
  BY Zenon DEF Flags
<1> QED BY <1>1, FlagOps, Zenon DEF Pending

(* The start of the actions takes the pending bit and keeps Open; not      *)
(* being able to run them, a driver that is gone or an interrupt disabled, *)
(* puts it out of question.                                                *)
LEMMA EventOpen ==
    ASSUME NEW st \in Type, MaskOK(st), Open(st),
           st.conf.flow = "edge" /\ Opens(st) => "masked" \notin st.flags
    PROVE  Open(Event(st).st)
<1> DEFINE b == Event(st).st
<1>1. /\ b.conf = st.conf /\ b.action = st.action
      /\ b.flags = (st.flags \ {"pending"}) \cup {"inprogress"}
  BY EventOp, Zenon DEF Becomes, Frame
<1> HIDE DEF b
<1>2. Opens(b) <=> Opens(st)
  BY <1>1, Zenon DEF Opens, Has
<1>3. Masks(b) <=> Masks(st)
  BY <1>1, Zenon DEF Masks
<1>4. Open(b)
  BY <1>1, <1>2, <1>3, Zenon DEF Open, Has
<1> QED BY <1>4, Zenon DEF b

(* Open asks nothing of an interrupt without actions or disabled.          *)
LEMMA ShutOpen ==
    ASSUME NEW st, NEW b, ~CanHandle(st), Frame(st, b), "disabled" \in st.flags => "disabled" \in b.flags
    PROVE  Open(b)
BY Zenon DEF CanHandle, Frame, Open, Opens, Has

(* What the invariant says to a handler of an interrupt that is not per    *)
(* CPU.                                                                    *)
LEMMA AtEntry ==
    ASSUME NEW st, Inv(st), NEW c \in Cpus, st.conf.flow \notin PerCpu
    PROVE  /\ st \in Type /\ MaskOK(st) /\ Open(st) /\ Becomes(st, st, st.flags, st.raised, st.service)
           /\ st.action = "none" => st.unserved = {}
           /\ st.pc[c] = "entry" /\ st.conf.flow = "nested" => ~Has(st, "inprogress")
           /\ st.pc[c] # "entry" /\ st.conf.flow \notin Eois => c \notin st.service
<1>1. st \in Type /\ MaskOK(st) /\ Open(st)
  BY Zenon DEF Inv, Exclusive
<1>2. Becomes(st, st, st.flags, st.raised, st.service)
  BY <1>1, Zenon DEF Becomes, Frame
<1>3. st.pc[c] = "entry" /\ st.conf.flow = "nested" => ~Has(st, "inprogress")
  <2> SUFFICES ASSUME st.pc[c] = "entry", st.conf.flow = "nested", NEW d \in Cpus, Runs(st, d)
               PROVE FALSE
    BY Zenon DEF Inv, Exclusive
  <2> QED BY Zenon DEF Inv, Exclusive, Runs
<1> QED BY <1>1, <1>2, <1>3, Zenon DEF Inv, Attached, InService

(* handle_simple_irq, handle_untracked_irq and handle_nested_irq.          *)
LEMMA SimpleEnter ==
    ASSUME NEW st, Inv(st), NEW c \in Cpus, st.pc[c] = "entry", st.handler = st.conf.flow
    PROVE  /\ st.conf.flow \in {"simple", "untracked"} => EnterOK(st, c, HandleSimpleIrq(st, c))
           /\ st.conf.flow = "nested" => EnterOK(st, c, HandleNestedIrq(st, c))
<1> SUFFICES ASSUME st.conf.flow \in Software
             PROVE  /\ st.conf.flow \in {"simple", "untracked"} => EnterOK(st, c, HandleSimpleIrq(st, c))
                    /\ st.conf.flow = "nested" => EnterOK(st, c, HandleNestedIrq(st, c))
  BY Zenon DEF Software
<1>1. st.conf.flow \notin PerCpu /\ st.conf.flow \in Latched /\ st.handler # "bad"
      /\ st.conf.flow \notin Eois /\ st.service = {}
  BY Zenon DEF Inv, InService, Software, PerCpu, Latched, Eois
<1>2. /\ st \in Type /\ MaskOK(st) /\ Open(st) /\ Becomes(st, st, st.flags, st.raised, st.service)
      /\ st.action = "none" => st.unserved = {}
      /\ st.conf.flow = "nested" => ~Has(st, "inprogress")
  BY <1>1, AtEntry, Zenon
<1>3. EnterOK(st, c, Done(st)) \/ st.conf.flow = "nested"
  BY <1>1, <1>2, Zenon DEF EnterOK, Done, Becomes, Frame, Software
<1>4. ~CanHandle(st) => EnterOK(st, c, Done(Pending(st)))
  BY <1>1, <1>2, PendingOp, ShutOpen DEF EnterOK, Done, Becomes, Frame, Has
<1>5. CanHandle(st) /\ IrqMayRun(st) => EnterOK(st, c, Event(st))
  <2>1. Open(Event(st).st)
    BY <1>2, EventOpen, Zenon DEF Software
  <2> QED BY <1>1, <1>2, <2>1, EventOp, Zenon DEF EnterOK, Becomes, IrqMayRun, Has
<1>6. CanHandle(st) /\ st.conf.flow = "nested" =>
        EnterOK(st, c, [st |-> Set(st, {"inprogress"}), run |-> TRUE])
  <2> DEFINE b == Set(st, {"inprogress"})
  <2>1. {"inprogress"} \in SUBSET Flags /\ "masked" \notin {"inprogress"}
    BY Zenon DEF Flags
  <2>2. Becomes(st, b, st.flags \cup {"inprogress"}, st.raised, st.service)
    BY <1>2, <2>1, FlagOps, Zenon
  <2> HIDE DEF b
  <2>3. CanHandle(st) /\ st.conf.flow = "nested" => Open(b)
    BY <1>2, <2>2, Zenon DEF Becomes, Frame, Open, Opens, Has, CanHandle, Masks
  <2> QED BY <1>1, <1>2, <2>2, <2>3, Zenon DEF EnterOK, Becomes, Has, b
<1> QED BY <1>3, <1>4, <1>5, <1>6, Zenon DEF HandleSimpleIrq, HandleNestedIrq, IrqMayRun

(* handle_level_irq.                                                       *)
LEMMA LevelEnter ==
    ASSUME NEW st, Inv(st), NEW c \in Cpus, st.pc[c] = "entry", st.handler = st.conf.flow,
           st.conf.flow = "level"
    PROVE  EnterOK(st, c, HandleLevelIrq(st, c))
<1> DEFINE m == MaskAckIrq(st)
<1>1. st.conf.flow \notin PerCpu /\ st.conf.flow \notin Latched /\ st.handler # "bad"
      /\ st.conf.flow \notin Eois
  BY Zenon DEF PerCpu, Latched, Eois, Software
<1>2. /\ st \in Type /\ MaskOK(st) /\ Open(st)
      /\ Becomes(st, m, st.flags \cup {"masked"}, st.raised, {})
  BY <1>1, AtEntry, MaskAckOp, Zenon DEF Acked, Ended
<1> HIDE DEF m
<1>3. /\ m \in Type /\ MaskOK(m) /\ m.conf = st.conf /\ m.action = st.action
      /\ m.flags = st.flags \cup {"masked"} /\ m.raised = st.raised /\ m.service = {}
      /\ Frame(st, m)
  BY <1>2, Zenon DEF Becomes, Frame
<1>4. ~IrqMayRun(m) => EnterOK(st, c, Done(m))
  <2>1. ~IrqMayRun(m) => Open(m)
    BY <1>1, <1>2, <1>3, Zenon DEF Open, Opens, Has, IrqMayRun, Masks
  <2> QED BY <1>1, <1>2, <1>3, <2>1, Zenon DEF EnterOK, Done, Has
<1>5. ~CanHandle(m) => EnterOK(st, c, Done(Pending(m)))
  <2>1. Becomes(m, Pending(m), m.flags \cup {"pending"}, m.raised, m.service)
    BY <1>3, PendingOp, Zenon
  <2>2. ~CanHandle(m) => Open(Pending(m))
    BY <1>3, <2>1, ShutOpen, Zenon DEF Becomes
  <2>3. Becomes(st, Pending(m), m.flags \cup {"pending"}, m.raised, m.service)
    BY <1>2, <2>1, Then
  <2> QED BY <1>1, <1>3, <2>2, <2>3, Zenon DEF EnterOK, Done, Becomes, Has
<1>6. CanHandle(m) /\ IrqMayRun(m) => EnterOK(st, c, Event(m))
  <2>1. Becomes(m, Event(m).st, (m.flags \ {"pending"}) \cup {"inprogress"}, m.raised, m.service)
        /\ Event(m).run = TRUE
    BY <1>3, EventOp, Zenon
  <2>2. Becomes(st, Event(m).st, (m.flags \ {"pending"}) \cup {"inprogress"}, m.raised, m.service)
    BY <1>2, <2>1, Then
  <2>3. Open(Event(m).st)
    BY <1>1, <1>2, <1>3, <2>2, Zenon DEF Becomes, Frame, Open, Opens, Has, Masks
  <2> QED BY <1>1, <1>3, <2>1, <2>2, <2>3, Zenon DEF EnterOK, Becomes, Has, IrqMayRun
<1> QED BY <1>4, <1>5, <1>6, Zenon DEF HandleLevelIrq, m

(* handle_fasteoi_irq, handle_fasteoi_ack_irq and handle_fasteoi_mask_irq  *)
(* from x on, which is the descriptor, or the descriptor masked and        *)
(* acknowledged.                                                           *)
LEMMA FasteoiFrom ==
    ASSUME NEW st, Inv(st), NEW c \in Cpus, st.pc[c] = "entry", st.handler = st.conf.flow,
           st.conf.flow \in {"fasteoi", "fasteoi_ack", "fasteoi_mask"}, NEW x,
           Becomes(st, x, x.flags, st.raised, st.service),
           x.flags = st.flags \/ (st.conf.flow = "fasteoi_mask" /\ x.flags = st.flags \cup {"masked"})
    PROVE  /\ ~IrqMayRun(x) => EnterOK(st, c, Done(ChipEoi(x, c)))
           /\ ~CanHandle(x) => EnterOK(st, c, Done(ChipEoi(MaskIrq(Pending(x)), c)))
           /\ CanHandle(x) /\ IrqMayRun(x) =>
                 /\ st.conf.flow # "fasteoi_ack" => EnterOK(st, c, Event(Oneshot(x)))
                 /\ st.conf.flow = "fasteoi_ack" => EnterOK(st, c, Event(ChipAck(Oneshot(x))))
<1>1. /\ st.conf.flow \notin PerCpu /\ st.handler # "bad" /\ st.conf.flow \in Eois
      /\ st.conf.flow \notin {"edge_eoi", "nested", "level", "edge"}
      /\ st.conf.flow \in Latched <=> st.conf.flow = "fasteoi_ack"
  BY Zenon DEF PerCpu, Latched, Eois, Software
<1>2. st \in Type /\ MaskOK(st) /\ Open(st)
  BY <1>1, AtEntry, Zenon
<1>3. /\ x \in Type /\ MaskOK(x) /\ x.conf = st.conf /\ x.action = st.action
      /\ x.raised = st.raised /\ x.service = st.service
      /\ Has(x, "inprogress") <=> Has(st, "inprogress")
      /\ Has(x, "pending") <=> Has(st, "pending")
      /\ Has(x, "disabled") <=> Has(st, "disabled")
  BY Zenon DEF Becomes, Frame, Has
<1>4. ~IrqMayRun(x) => EnterOK(st, c, Done(ChipEoi(x, c)))
  <2> DEFINE b == ChipEoi(x, c)
  <2>1. Becomes(x, b, x.flags, x.raised, x.service \ {c})
    BY <1>3, EoiOp, Zenon
  <2> HIDE DEF b
  <2>2. Becomes(st, b, x.flags, st.raised, st.service \ {c})
    BY <1>3, <2>1, Then
  <2>3. ~IrqMayRun(x) => Open(b)
    BY <1>1, <1>2, <1>3, <2>2 DEF Becomes, Frame, Open, Opens, Has, IrqMayRun, Masks
  <2> QED BY <1>1, <1>3, <2>2, <2>3, Zenon DEF EnterOK, Done, Becomes, Has, b
<1>5. ~CanHandle(x) => EnterOK(st, c, Done(ChipEoi(MaskIrq(Pending(x)), c)))
  <2> DEFINE p == Pending(x)
             m == MaskIrq(p)
             b == ChipEoi(m, c)
  <2>1. Becomes(x, p, x.flags \cup {"pending"}, x.raised, x.service)
    BY <1>3, PendingOp, Zenon
  <2> HIDE DEF p
  <2>2. p \in Type /\ MaskOK(p) /\ p.flags = x.flags \cup {"pending"}
        /\ p.raised = st.raised /\ p.service = st.service
    BY <1>3, <2>1, Zenon DEF Becomes, Frame
  <2>3. Becomes(p, m, p.flags \cup {"masked"}, p.raised, p.service)
    BY <2>2, MaskOps, Zenon
  <2> HIDE DEF m
  <2>4. m \in Type /\ MaskOK(m) /\ m.flags = p.flags \cup {"masked"}
        /\ m.raised = st.raised /\ m.service = st.service
    BY <2>2, <2>3, Zenon DEF Becomes, Frame
  <2>5. Becomes(m, b, m.flags, m.raised, m.service \ {c})
    BY <2>4, EoiOp, Zenon
  <2> HIDE DEF b
  <2>6. Becomes(x, b, m.flags, m.raised, m.service \ {c})
    BY <2>1, <2>3, <2>5, Then
  <2>7. Becomes(st, b, m.flags, m.raised, m.service \ {c})
    BY <2>6, Then
  <2>8. ~CanHandle(x) => Open(b)
    BY <2>2, <2>4, <2>6, ShutOpen, Zenon DEF Becomes
  <2> QED BY <1>1, <1>3, <2>2, <2>4, <2>7, <2>8, Zenon DEF EnterOK, Done, Becomes, Has, b, m, p
<1>6. ASSUME CanHandle(x), IrqMayRun(x)
      PROVE  /\ st.conf.flow # "fasteoi_ack" => EnterOK(st, c, Event(Oneshot(x)))
             /\ st.conf.flow = "fasteoi_ack" => EnterOK(st, c, Event(ChipAck(Oneshot(x))))
  <2> DEFINE o == Oneshot(x)
             k == ChipAck(o)
  <2>1. Becomes(x, o, IF st.conf.oneshot THEN x.flags \cup {"masked"} ELSE x.flags, x.raised, x.service)
    BY <1>3, MaskOps, Zenon DEF Oneshot, Becomes, Frame
  <2> HIDE DEF o
  <2>2. /\ o \in Type /\ MaskOK(o) /\ o.conf = st.conf /\ o.raised = st.raised
        /\ o.service = st.service
        /\ o.flags = IF st.conf.oneshot THEN x.flags \cup {"masked"} ELSE x.flags
        /\ Becomes(st, o, o.flags, st.raised, st.service)
    BY <1>3, <2>1, Then, Zenon DEF Becomes, Frame
  <2>3. Becomes(o, k, o.flags, Acked(o), Ended(o))
    BY <2>2, AckOp, Zenon
  <2> HIDE DEF k
  <2>4. /\ k \in Type /\ MaskOK(k) /\ k.flags = o.flags /\ k.conf = st.conf
        /\ k.service = st.service
        /\ Becomes(st, k, o.flags, k.raised, st.service)
    BY <1>1, <2>2, <2>3, Then, Zenon DEF Becomes, Frame, Ended
  <2>5. ASSUME NEW y \in Type, MaskOK(y), y.service = st.service, NEW ra,
               Becomes(st, y, o.flags, ra, st.service),
               ra = st.raised \/ st.conf.flow = "fasteoi_ack"
        PROVE  EnterOK(st, c, Event(y))
    <3>1. /\ Becomes(y, Event(y).st, (y.flags \ {"pending"}) \cup {"inprogress"}, y.raised, y.service)
          /\ Event(y).run = TRUE
      BY <2>5, EventOp, Zenon
    <3>2. Becomes(st, Event(y).st, (o.flags \ {"pending"}) \cup {"inprogress"}, ra, st.service)
      BY <2>5, <3>1, Then DEF Becomes
    <3>3. /\ Event(y).st.conf = st.conf /\ Event(y).st.action = st.action
          /\ Event(y).st.flags = (o.flags \ {"pending"}) \cup {"inprogress"}
      BY <3>2, Zenon DEF Becomes, Frame
    <3>4. Opens(Event(y).st) => Opens(st)
      BY <1>3, <2>2, <3>3 DEF Opens, Has
    <3>5. Opens(st) /\ Has(Event(y).st, "masked") => Masks(Event(y).st)
      BY <1>1, <1>2, <1>3, <1>6, <2>2, <3>3, Zenon DEF Open, Opens, Has, Masks, IrqMayRun
    <3>6. Open(Event(y).st)
      BY <1>1, <3>3, <3>4, <3>5, Zenon DEF Open, Has
    <3> QED BY <1>1, <1>3, <1>6, <2>2, <2>5, <3>1, <3>2, <3>6, Zenon DEF EnterOK, Becomes, Has, IrqMayRun
  <2> QED BY <2>2, <2>4, <2>5, Zenon DEF k, o
<1> QED BY <1>4, <1>5, <1>6, Zenon

(* The three fasteoi handlers.                                             *)
LEMMA FasteoiEnter ==
    ASSUME NEW st, Inv(st), NEW c \in Cpus, st.pc[c] = "entry", st.handler = st.conf.flow
    PROVE  /\ st.conf.flow = "fasteoi" => EnterOK(st, c, HandleFasteoiIrq(st, c))
           /\ st.conf.flow = "fasteoi_ack" => EnterOK(st, c, HandleFasteoiAckIrq(st, c))
           /\ st.conf.flow = "fasteoi_mask" => EnterOK(st, c, HandleFasteoiMaskIrq(st, c))
<1>1. ASSUME st.conf.flow \in {"fasteoi", "fasteoi_ack", "fasteoi_mask"}
      PROVE  Becomes(st, st, st.flags, st.raised, st.service)
  <2>1. st.conf.flow \notin PerCpu
    BY <1>1, Zenon DEF PerCpu
  <2> QED BY <2>1, AtEntry, Zenon
<1>2. ASSUME st.conf.flow = "fasteoi_mask"
      PROVE  /\ Becomes(st, MaskAckIrq(st), st.flags \cup {"masked"}, st.raised, st.service)
             /\ MaskAckIrq(st).flags = st.flags \cup {"masked"}
  <2>1. /\ st.conf.flow \notin PerCpu /\ st.conf.flow \notin Latched /\ st.conf.flow \in Eois
    BY <1>2, Zenon DEF PerCpu, Latched, Eois, Software
  <2>2. st \in Type /\ MaskOK(st) /\ Acked(st) = st.raised /\ Ended(st) = st.service
    BY <2>1, AtEntry, Zenon DEF Acked, Ended
  <2> QED BY <2>2, MaskAckOp, Zenon DEF Becomes
<1>3. st.conf.flow = "fasteoi" => EnterOK(st, c, HandleFasteoiIrq(st, c))
  BY <1>1, FasteoiFrom, Zenon DEF HandleFasteoiIrq
<1>4. st.conf.flow = "fasteoi_ack" => EnterOK(st, c, HandleFasteoiAckIrq(st, c))
  BY <1>1, FasteoiFrom, Zenon DEF HandleFasteoiAckIrq
<1>5. st.conf.flow = "fasteoi_mask" => EnterOK(st, c, HandleFasteoiMaskIrq(st, c))
  <2> DEFINE m == MaskAckIrq(st)
  <2>1. HandleFasteoiMaskIrq(st, c) =
          IF ~IrqMayRun(m) THEN Done(ChipEoi(m, c))
          ELSE IF ~CanHandle(m) THEN Done(ChipEoi(MaskIrq(Pending(m)), c))
          ELSE Event(Oneshot(m))
    BY Zenon DEF HandleFasteoiMaskIrq
  <2>2. st.conf.flow = "fasteoi_mask" =>
           Becomes(st, m, m.flags, st.raised, st.service) /\ m.flags = st.flags \cup {"masked"}
    BY <1>2, Zenon
  <2> HIDE DEF m
  <2> QED BY <2>1, <2>2, FasteoiFrom, Zenon
<1> QED BY <1>3, <1>4, <1>5, Zenon

(* handle_edge_irq.                                                        *)
LEMMA EdgeEnter ==
    ASSUME NEW st, Inv(st), NEW c \in Cpus, st.pc[c] = "entry", st.handler = st.conf.flow,
           st.conf.flow = "edge"
    PROVE  EnterOK(st, c, HandleEdgeIrq(st, c))
<1>1. /\ st.conf.flow \notin PerCpu /\ st.handler # "bad" /\ st.conf.flow \notin Eois
      /\ st.conf.flow \in Latched
  BY Zenon DEF PerCpu, Latched, Eois, Software
<1>2. st \in Type /\ MaskOK(st) /\ Open(st)
  BY <1>1, AtEntry, Zenon
<1>3. ASSUME IrqMayRun(st), CanHandle(st)
      PROVE  EnterOK(st, c, Event(Reopen(ChipAck(st))))
  <2> DEFINE k == ChipAck(st)
             q == Reopen(k)
  <2>1. Becomes(st, k, st.flags, {}, {})
    BY <1>1, <1>2, AckOp, Zenon DEF Acked, Ended
  <2> HIDE DEF k
  <2>2. k \in Type /\ MaskOK(k) /\ k.flags = st.flags /\ k.raised = {} /\ k.service = {}
    BY <2>1, Zenon DEF Becomes, Frame
  <2>3. /\ Becomes(k, q, q.flags, {}, {})
        /\ q.flags = IF Has(st, "pending") /\ Has(st, "masked") THEN st.flags \ {"masked"} ELSE st.flags
    BY <1>3, <2>2, MaskOps, Zenon DEF Reopen, Has, CanHandle, Becomes, Frame
  <2> HIDE DEF q
  <2>4. Becomes(st, q, q.flags, {}, {}) /\ q \in Type /\ MaskOK(q) /\ q.service = {}
        /\ q.conf = st.conf /\ q.action = st.action
    BY <2>1, <2>3, Then, Zenon DEF Becomes, Frame
  <2>5. Opens(q) => "masked" \notin q.flags
    BY <1>2, <1>3, <2>3, <2>4, Zenon DEF Open, Opens, Has
  <2>6. Open(q)
    BY <1>2, <2>3, <2>4, <2>5, Zenon DEF Open, Opens, Has
  <2>7. Open(Event(q).st)
    BY <2>4, <2>5, <2>6, EventOpen, Zenon
  <2>8. /\ Becomes(q, Event(q).st, (q.flags \ {"pending"}) \cup {"inprogress"}, q.raised, q.service)
        /\ Event(q).run = TRUE
    BY <2>4, EventOp, Zenon
  <2>9. Becomes(st, Event(q).st, (q.flags \ {"pending"}) \cup {"inprogress"}, q.raised, {})
    BY <2>4, <2>8, Then
  <2> QED BY <1>1, <1>3, <2>7, <2>8, <2>9, Zenon DEF EnterOK, Becomes, Has, IrqMayRun, k, q
<1>4. ASSUME ~(IrqMayRun(st) /\ CanHandle(st))
      PROVE  EnterOK(st, c, Done(MaskAckIrq(Pending(st))))
  <2> DEFINE p == Pending(st)
             b == MaskAckIrq(p)
  <2>1. Becomes(st, p, st.flags \cup {"pending"}, st.raised, st.service)
    BY <1>2, PendingOp, Zenon
  <2> HIDE DEF p
  <2>2. p \in Type /\ MaskOK(p) /\ p.flags = st.flags \cup {"pending"} /\ p.conf = st.conf
        /\ p.service = st.service
    BY <2>1, Zenon DEF Becomes, Frame
  <2>3. Becomes(p, b, p.flags \cup {"masked"}, {}, {})
    BY <1>1, <2>2, MaskAckOp, Zenon DEF Acked, Ended
  <2> HIDE DEF b
  <2>4. Becomes(st, b, st.flags \cup {"pending"} \cup {"masked"}, {}, {})
    BY <2>1, <2>2, <2>3, Then
  <2>5. b.conf = st.conf /\ b.action = st.action /\ b.flags = st.flags \cup {"pending"} \cup {"masked"}
    BY <2>4, Zenon DEF Becomes, Frame
  <2>6. Opens(b) => Has(b, "inprogress")
    BY <1>4, <2>5, Zenon DEF Opens, Has, IrqMayRun, CanHandle
  <2>7. Open(b)
    BY <2>5, <2>6, Zenon DEF Open, Has, Masks
  <2> QED BY <1>1, <2>4, <2>7, Zenon DEF EnterOK, Done, Becomes, Has, b, p
<1> QED BY <1>3, <1>4, Zenon DEF HandleEdgeIrq

(* handle_edge_eoi_irq.                                                    *)
LEMMA EdgeEoiEnter ==
    ASSUME NEW st, Inv(st), NEW c \in Cpus, st.pc[c] = "entry", st.handler = st.conf.flow,
           st.conf.flow = "edge_eoi"
    PROVE  EnterOK(st, c, HandleEdgeEoiIrq(st, c))
<1>1. /\ st.conf.flow \notin PerCpu /\ st.handler # "bad" /\ st.conf.flow \in Eois
      /\ st.conf.flow \in Latched /\ st.conf.flow # "edge"
  BY Zenon DEF PerCpu, Latched, Eois, Software
<1>2. st \in Type /\ MaskOK(st) /\ Open(st)
  BY <1>1, AtEntry, Zenon
<1>3. ASSUME IrqMayRun(st), CanHandle(st) PROVE EnterOK(st, c, Event(st))
  <2>1. Open(Event(st).st)
    BY <1>1, <1>2, EventOpen, Zenon
  <2> QED BY <1>1, <1>2, <1>3, <2>1, EventOp, Zenon DEF EnterOK, Becomes, Has, IrqMayRun
<1>4. ASSUME ~(IrqMayRun(st) /\ CanHandle(st))
      PROVE  EnterOK(st, c, Done(ChipEoi(Pending(st), c)))
  <2> DEFINE p == Pending(st)
             b == ChipEoi(p, c)
  <2>1. Becomes(st, p, st.flags \cup {"pending"}, st.raised, st.service)
    BY <1>2, PendingOp, Zenon
  <2> HIDE DEF p
  <2>2. p \in Type /\ MaskOK(p) /\ p.flags = st.flags \cup {"pending"} /\ p.service = st.service
    BY <2>1, Zenon DEF Becomes, Frame
  <2>3. Becomes(p, b, p.flags, p.raised, p.service \ {c})
    BY <2>2, EoiOp, Zenon
  <2> HIDE DEF b
  <2>4. Becomes(st, b, st.flags \cup {"pending"}, p.raised, st.service \ {c})
    BY <2>1, <2>2, <2>3, Then
  <2>5. b.conf = st.conf /\ b.action = st.action /\ b.flags = st.flags \cup {"pending"}
    BY <2>4, Zenon DEF Becomes, Frame
  <2>6. Opens(b) => Has(b, "inprogress") /\ Opens(st)
    BY <1>4, <2>5, Zenon DEF Opens, Has, IrqMayRun, CanHandle
  <2>7. Open(b)
    BY <1>1, <1>2, <2>5, <2>6, Zenon DEF Open, Has, Masks
  <2> QED BY <1>1, <2>4, <2>7, Zenon DEF EnterOK, Done, Becomes, Has, b, p
<1> QED BY <1>3, <1>4, Zenon DEF HandleEdgeEoiIrq

(* The per-CPU flows, and handle_bad_irq.                                  *)
LEMMA PercpuEnter ==
    ASSUME NEW st, Inv(st), NEW c \in Cpus, st.handler = st.conf.flow
    PROVE  /\ st.conf.flow = "percpu" => EnterOK(st, c, HandlePercpuIrq(st, c))
           /\ st.conf.flow = "percpu_devid" => EnterOK(st, c, HandlePercpuDevidIrq(st, c))
<1> SUFFICES ASSUME st.conf.flow \in PerCpu
             PROVE  EnterOK(st, c, HandlePercpuIrq(st, c)) /\ EnterOK(st, c, HandlePercpuDevidIrq(st, c))
  BY Zenon DEF PerCpu
<1>1. /\ st.handler # "bad" /\ st.conf.flow \in Eois /\ st.conf.flow \notin Latched
      /\ st.conf.flow \notin {"edge_eoi", "nested"} /\ st \in Type
  BY Zenon DEF PerCpu, Latched, Eois, Software, Inv
<1>2. EnterOK(st, c, [st |-> st, run |-> TRUE])
  BY <1>1, Zenon DEF EnterOK, Frame, Open, Opens
<1>3. EnterOK(st, c, Done(ChipEoi(IF c \in st.percpu_enabled THEN IrqPercpuDisable(st, c) ELSE st, c)))
  <2> DEFINE d == IF c \in st.percpu_enabled THEN IrqPercpuDisable(st, c) ELSE st
             b == ChipEoi(d, c)
  <2>1. Frame(st, d) /\ d.raised = st.raised /\ d.service = st.service /\ d.flags = st.flags
    BY <1>1, Zenon DEF Frame, IrqPercpuDisable, Type
  <2> HIDE DEF d
  <2>2. Frame(d, b) /\ b.raised = d.raised /\ b.service = d.service \ {c} /\ b.flags = d.flags
    BY <2>1, Zenon DEF Frame, ChipEoi, Type
  <2> HIDE DEF b
  <2>3. Frame(st, b) /\ b.raised = st.raised /\ b.service = st.service \ {c} /\ b.conf = st.conf
    BY <2>1, <2>2, Zenon DEF Frame
  <2> QED BY <1>1, <2>3, Zenon DEF EnterOK, Done, Open, Opens, b, d
<1> QED BY <1>2, <1>3, Zenon DEF HandlePercpuIrq, HandlePercpuDevidIrq

(* handle_bad_irq.                                                         *)
LEMMA BadEnter ==
    ASSUME NEW st, Inv(st), NEW c \in Cpus, st.handler = "bad"
    PROVE  EnterOK(st, c, HandleBadIrq(st, c))
<1>1. st.action = "none" /\ st.unserved = {} /\ st.conf.flow \notin PerCpu
  BY Zenon DEF Inv, Attached
<1>2. st \in Type /\ MaskOK(st)
  BY <1>1, AtEntry, Zenon
<1> DEFINE b == [st EXCEPT !.service = @ \ {c}]
<1>3. Becomes(st, b, st.flags, st.raised, st.service \ {c})
  BY <1>2, EoiOp, Zenon DEF ChipEoi
<1> HIDE DEF b
<1> QED BY <1>1, <1>3, Zenon DEF EnterOK, HandleBadIrq, Done, Becomes, Frame, Has, Open, Opens, b

(* Every flow handler, up to the call of the actions.                      *)
LEMMA HandleIrqOK ==
    ASSUME NEW st, Inv(st), NEW c \in Cpus, st.pc[c] = "entry"
    PROVE  EnterOK(st, c, HandleIrq(st, c, st.handler))
<1>1. CASE st.handler = "bad"
  BY <1>1, BadEnter, Zenon DEF HandleIrq
<1>2. CASE st.handler # "bad"
  <2>1. st.handler = st.conf.flow
    BY <1>2, Zenon DEF Inv, Attached
  <2>2. st.conf.flow \in {"level", "fasteoi", "fasteoi_ack", "fasteoi_mask", "edge", "edge_eoi",
                          "simple", "untracked", "nested", "percpu", "percpu_devid"}
    BY Zenon DEF Inv, Type, AllConfs, Flows, Tracked, Software, PerCpu
  <2>3. CASE st.conf.flow \in {"simple", "untracked", "nested"}
    BY <2>1, <2>3, SimpleEnter, Zenon DEF HandleIrq, HandleUntrackedIrq
  <2>4. CASE st.conf.flow = "level"
    BY <2>1, <2>4, LevelEnter, Zenon DEF HandleIrq
  <2>5. CASE st.conf.flow \in {"fasteoi", "fasteoi_ack", "fasteoi_mask"}
    BY <2>1, <2>5, FasteoiEnter, Zenon DEF HandleIrq
  <2>6. CASE st.conf.flow = "edge"
    BY <2>1, <2>6, EdgeEnter, Zenon DEF HandleIrq
  <2>7. CASE st.conf.flow = "edge_eoi"
    BY <2>1, <2>7, EdgeEoiEnter, Zenon DEF HandleIrq
  <2>8. CASE st.conf.flow \in {"percpu", "percpu_devid"}
    BY <2>1, <2>8, PercpuEnter, Zenon DEF HandleIrq
  <2> QED BY <2>2, <2>3, <2>4, <2>5, <2>6, <2>7, <2>8, Zenon
<1> QED BY <1>1, <1>2, Zenon

(* The descriptor after a CPU moved on in its flow handler.                *)
Moved(b, c, to, f) == [b EXCEPT !.pc[c] = to, !.flow[c] = f]

(* What moving a CPU changes of the descriptor.                            *)
LEMMA MovedFields ==
    ASSUME NEW st \in Type, NEW b, Frame(st, b), NEW c \in Cpus,
           NEW to \in {"idle", "entry", "event", "exit"}, NEW f \in Flows \cup {"bad"},
           NEW n, n = Moved(b, c, to, f)
    PROVE  /\ n \in Type /\ n.conf = st.conf /\ n.action = st.action /\ n.handler = st.handler
           /\ n.unserved = st.unserved /\ n.flags = b.flags /\ n.raised = b.raised
           /\ n.masked = b.masked /\ n.service = b.service
           /\ \A d \in Cpus : /\ n.pc[d] = IF d = c THEN to ELSE st.pc[d]
                              /\ n.flow[d] = IF d = c THEN f ELSE st.flow[d]
<1>1. b \in Type /\ b.pc = st.pc /\ b.flow = st.flow /\ b.conf = st.conf /\ b.action = st.action
      /\ b.handler = st.handler /\ b.unserved = st.unserved
  BY Zenon DEF Frame
<1>2. /\ n \in Type /\ n.conf = b.conf /\ n.action = b.action /\ n.handler = b.handler
      /\ n.unserved = b.unserved /\ n.flags = b.flags /\ n.raised = b.raised
      /\ n.masked = b.masked /\ n.service = b.service
      /\ n.pc = [b.pc EXCEPT ![c] = to] /\ n.flow = [b.flow EXCEPT ![c] = f]
  BY <1>1, Zenon DEF Moved, Type
<1>3. b.pc \in [Cpus -> {"idle", "entry", "event", "exit"}] /\ b.flow \in [Cpus -> Flows \cup {"bad"}]
  BY <1>1, Zenon DEF Type
<1> QED BY <1>1, <1>2, <1>3

(* A handler that enters as EnterOK says preserves the invariant.          *)
LEMMA EnterInv ==
    ASSUME NEW st, Inv(st), NEW c \in Cpus, st.pc[c] = "entry", NEW r, EnterOK(st, c, r),
           NEW n, n = Moved(r.st, c, IF r.run THEN "event" ELSE "idle", st.handler)
    PROVE  Inv(n)
<1> DEFINE to == IF r.run THEN "event" ELSE "idle"
<1>1. st \in Type /\ Frame(st, r.st) /\ st.handler \in Flows \cup {"bad"}
      /\ r.run \in BOOLEAN /\ to \in {"idle", "entry", "event", "exit"}
  BY Zenon DEF Inv, EnterOK, Type
<1>2. /\ n \in Type /\ n.conf = st.conf /\ n.action = st.action /\ n.handler = st.handler
      /\ n.unserved = st.unserved /\ n.flags = r.st.flags /\ n.raised = r.st.raised
      /\ n.masked = r.st.masked /\ n.service = r.st.service
      /\ \A d \in Cpus : /\ n.pc[d] = IF d = c THEN to ELSE st.pc[d]
                         /\ n.flow[d] = IF d = c THEN st.handler ELSE st.flow[d]
  BY <1>1, MovedFields
<1>3. \A d \in Cpus : IF d = c THEN Runs(n, d) <=> r.run ELSE Runs(n, d) <=> Runs(st, d)
  BY <1>1, <1>2 DEF Runs
<1>4. ~Runs(st, c)
  BY Zenon DEF Runs
<1> HIDE DEF to
<1>5. Attached(n)
  BY <1>2, <1>3 DEF Inv, Attached, EnterOK
<1>6. Exclusive(n)
  <2> SUFFICES ASSUME st.conf.flow \notin PerCpu PROVE Exclusive(n)
    BY <1>2, Zenon DEF Exclusive
  <2>1. /\ \A d, e \in Cpus : Runs(st, d) /\ Runs(st, e) => d = e
        /\ Has(st, "inprogress") <=> \E d \in Cpus : Runs(st, d)
        /\ st.conf.flow = "nested" =>
              \A d, e \in Cpus : st.pc[d] # "idle" /\ st.pc[e] # "idle" => d = e
        /\ MaskOK(r.st) /\ (r.run => ~Has(st, "inprogress"))
        /\ Has(r.st, "inprogress") <=> Has(st, "inprogress") \/ r.run
    BY Zenon DEF Inv, Exclusive, EnterOK
  <2>2. MaskOK(n) /\ (Has(n, "inprogress") <=> Has(r.st, "inprogress"))
    BY <1>2, <2>1, Zenon DEF MaskOK, Has
  <2>3. \A d, e \in Cpus : Runs(n, d) /\ Runs(n, e) => d = e
    BY <1>1, <1>3, <2>1, Zenon
  <2>4. Has(n, "inprogress") <=> \E d \in Cpus : Runs(n, d)
    BY <1>1, <1>3, <1>4, <2>1, <2>2, Zenon
  <2>5. st.conf.flow = "nested" =>
          \A d, e \in Cpus : n.pc[d] # "idle" /\ n.pc[e] # "idle" => d = e
    BY <1>2, <2>1
  <2> QED BY <1>2, <2>2, <2>3, <2>4, <2>5, Zenon DEF Exclusive
<1>7. InService(n)
  <2>1. \A d \in st.service : st.pc[d] = "entry" \/ (st.conf.flow \in Eois /\ Runs(st, d))
    BY Zenon DEF Inv, InService
  <2>2. st.conf.flow \in Software => st.service = {}
    BY Zenon DEF Inv, InService
  <2>3. /\ r.st.service \subseteq st.service /\ st.service \subseteq Cpus
        /\ c \in r.st.service => r.run /\ st.conf.flow \in Eois
    BY <1>1, Zenon DEF EnterOK, Type
  <2>4. ASSUME NEW d \in n.service PROVE n.pc[d] = "entry" \/ (n.conf.flow \in Eois /\ Runs(n, d))
    <3>1. CASE d = c
      BY <1>2, <1>3, <2>3, <2>4, <3>1, Zenon
    <3>2. CASE d # c
      BY <1>2, <1>3, <2>1, <2>3, <2>4, <3>2
    <3> QED BY <3>1, <3>2, Zenon
  <2> QED BY <1>2, <2>2, <2>3, <2>4, Zenon DEF InService
<1>8. Open(n)
  <2>1. Open(r.st) /\ r.st.conf = st.conf /\ r.st.action = st.action
    BY Zenon DEF EnterOK, Frame
  <2> QED BY <1>2, <2>1 DEF Open, Opens, Masks, Has
<1>9. Kept(n)
  <2> SUFFICES ASSUME st.conf.flow \notin {"simple", "untracked"}, st.unserved # {}
               PROVE  st.unserved \subseteq r.st.raised \/ (st.conf.flow \in Latched /\ Owed(n))
    BY <1>2, Zenon DEF Kept
  <2>1. st.unserved \subseteq st.raised \/ (st.conf.flow \in Latched /\ Owed(st))
    BY Zenon DEF Inv, Kept
  <2>2. CASE st.conf.flow \in Latched /\ (r.run \/ Has(r.st, "pending"))
    <3>1. r.run => n.pc[c] = "event"
      BY <1>2, Zenon DEF to
    <3> QED BY <1>2, <2>2, <3>1, Zenon DEF Owed, Has
  <2>3. CASE /\ r.st.raised = st.raised /\ st.conf.flow \notin {"edge_eoi", "nested"}
             /\ Has(st, "pending") => Has(r.st, "pending") \/ st.conf.flow \notin Latched
    <3>1. CASE st.unserved \subseteq st.raised
      BY <2>3, <3>1, Zenon
    <3>2. CASE st.conf.flow \in Latched /\ Owed(st)
      BY <1>2, <2>3, <3>2 DEF Owed, Has
    <3> QED BY <2>1, <3>1, <3>2, Zenon
  <2> QED BY <2>2, <2>3, Zenon DEF EnterOK
<1> QED BY <1>2, <1>5, <1>6, <1>7, <1>8, <1>9, Zenon DEF Inv

-----------------------------------------------------------------------------
(* What a flow handler may do once the actions have run.                   *)
ExitOK(st, c, r) ==
    /\ r.run \in BOOLEAN /\ Frame(st, r.st)
    /\ IF st.conf.flow \in PerCpu THEN ~r.run
       ELSE MaskOK(r.st) /\ (Has(r.st, "inprogress") <=> r.run)
    /\ r.st.service \subseteq st.service
    /\ c \in r.st.service => r.run /\ st.conf.flow \in Eois
    /\ Open(r.st)
    /\ st.conf.flow \notin {"simple", "untracked"} =>
          \/ st.conf.flow \in Latched /\ r.run
          \/ r.st.raised = st.raised /\ (Has(st, "pending") => Has(r.st, "pending"))

(* cond_unmask_irq: the mask bit of an enabled interrupt is cleared.       *)
LEMMA CondUnmaskOp ==
    ASSUME NEW st \in Type, MaskOK(st)
    PROVE  \E fl \in {st.flags, st.flags \ {"masked"}} :
              /\ Becomes(st, CondUnmaskIrq(st), fl, st.raised, st.service)
              /\ "disabled" \notin fl => "masked" \notin fl
<1>1. Becomes(st, st, st.flags, st.raised, st.service)
  BY Zenon DEF Becomes, Frame
<1>2. CASE "disabled" \notin st.flags /\ "masked" \in st.flags
  BY <1>2, MaskOps, Zenon DEF CondUnmaskIrq, Has
<1>3. CASE ~("disabled" \notin st.flags /\ "masked" \in st.flags)
  BY <1>1, <1>3, Zenon DEF CondUnmaskIrq, Has
<1> QED BY <1>2, <1>3, Zenon

(* A handler that ends without another pass.                               *)
LEMMA DoneExit ==
    ASSUME NEW st, NEW c, st.conf.flow \notin PerCpu, NEW b, NEW f, NEW se, se \subseteq st.service,
           Becomes(st, b, f, st.raised, se), Open(b),
           c \notin se, "inprogress" \notin f, "pending" \in st.flags => "pending" \in f
    PROVE  ExitOK(st, c, Done(b))
BY Zenon DEF ExitOK, Done, Becomes, Has

(* The handlers without an end of interrupt, and handle_level_irq, end.    *)
LEMMA SoftwareExit ==
    ASSUME NEW st, Inv(st), NEW c \in Cpus, Runs(st, c), st.conf.flow \in Software \cup {"level"}
    PROVE  ExitOK(st, c, AfterEvent(st, c, st.conf.flow))
<1> DEFINE d == Clear(st, {"inprogress"})
<1>1. /\ st.conf.flow \notin PerCpu /\ st.conf.flow \notin Eois
      /\ st.conf.flow \notin {"edge", "edge_eoi", "fasteoi", "fasteoi_ack", "fasteoi_mask"}
      /\ {"inprogress"} \in SUBSET Flags /\ "masked" \notin {"inprogress"}
      /\ st.pc[c] # "entry"
  BY Zenon DEF PerCpu, Eois, Software, Flags, Runs
<1>2. st \in Type /\ MaskOK(st) /\ Open(st) /\ c \notin st.service
  BY <1>1, AtEntry, Zenon
<1>3. Becomes(st, d, st.flags \ {"inprogress"}, st.raised, st.service)
  BY <1>1, <1>2, FlagOps, Zenon
<1>4. /\ st.conf.flow \in Software => AfterEvent(st, c, st.conf.flow) = Done(d)
      /\ st.conf.flow = "level" => AfterEvent(st, c, st.conf.flow) = Done(CondUnmaskIrq(d))
  <2>1. CASE st.conf.flow = "level"
    <3>1. st.conf.flow \notin Software
      BY <2>1, Zenon DEF Software
    <3> QED BY <1>1, <2>1, <3>1, Zenon DEF AfterEvent
  <2>2. CASE st.conf.flow \in Software
    <3>1. st.conf.flow # "level"
      BY <2>2, Zenon DEF Software
    <3> QED BY <1>1, <2>2, <3>1, Zenon DEF AfterEvent
  <2> QED BY <2>1, <2>2, Zenon
<1> HIDE DEF d
<1>5. d \in Type /\ MaskOK(d) /\ d.flags = st.flags \ {"inprogress"} /\ d.raised = st.raised
      /\ d.service = st.service
  BY <1>3, Zenon DEF Becomes, Frame
<1>6. \E fl \in {d.flags, d.flags \ {"masked"}} :
         /\ Becomes(d, CondUnmaskIrq(d), fl, d.raised, d.service)
         /\ "disabled" \notin fl => "masked" \notin fl
  BY <1>5, CondUnmaskOp, Zenon
<1>7. PICK fl \in {d.flags, d.flags \ {"masked"}} :
         /\ Becomes(d, CondUnmaskIrq(d), fl, d.raised, d.service)
         /\ "disabled" \notin fl => "masked" \notin fl
  BY <1>6, Zenon
<1>8. Becomes(st, CondUnmaskIrq(d), fl, st.raised, st.service)
  BY <1>3, <1>5, <1>7, Then
<1>9. ASSUME NEW b, NEW f \in {d.flags, d.flags \ {"masked"}}, Becomes(st, b, f, st.raised, st.service),
             Opens(b) => "masked" \notin f
      PROVE  ExitOK(st, c, Done(b))
  <2>1. b.conf = st.conf /\ b.action = st.action /\ b.flags = f
    BY <1>9, Zenon DEF Becomes, Frame
  <2>2. Opens(b) => Opens(st)
    BY <1>5, <1>9, <2>1, Zenon DEF Opens, Has
  <2>3. Open(b)
    BY <1>1, <1>2, <1>5, <1>9, <2>1, <2>2, Zenon DEF Open, Has
  <2> QED BY <1>1, <1>2, <1>5, <1>9, <2>3, Zenon DEF ExitOK, Done, Becomes, Has
<1>10. CASE st.conf.flow \in Software
  <2>1. Opens(d) => "masked" \notin d.flags
    BY <1>1, <1>2, <1>3, <1>5, <1>10, Zenon DEF Becomes, Frame, Opens, Open, Masks, Has, Software
  <2> QED BY <1>3, <1>4, <1>5, <1>9, <1>10, <2>1, Zenon
<1>11. CASE st.conf.flow = "level"
  <2>1. Opens(CondUnmaskIrq(d)) => "masked" \notin fl
    BY <1>7, Zenon DEF Becomes, Opens, Has
  <2>2. st.conf.flow \notin Software
    BY <1>11, Zenon DEF Software
  <2> QED BY <1>4, <1>8, <1>9, <2>1, <2>2, Zenon
<1> QED BY <1>10, <1>11, Zenon

(* The fasteoi handlers end the interrupt and unmask a oneshot one.        *)
LEMMA FasteoiExit ==
    ASSUME NEW st, Inv(st), NEW c \in Cpus, Runs(st, c),
           st.conf.flow \in {"fasteoi", "fasteoi_ack", "fasteoi_mask"}
    PROVE  ExitOK(st, c, AfterEvent(st, c, st.conf.flow))
<1> DEFINE d == Clear(st, {"inprogress"})
           e == ChipEoi(d, c)
           b == IF st.conf.oneshot THEN CondUnmaskIrq(e) ELSE e
<1>1. /\ st.conf.flow \notin PerCpu /\ st.conf.flow \notin Software
      /\ st.conf.flow \notin {"edge", "edge_eoi", "level"}
      /\ {"inprogress"} \in SUBSET Flags /\ "masked" \notin {"inprogress"}
  BY Zenon DEF PerCpu, Software, Flags
<1>2. st \in Type /\ MaskOK(st) /\ Open(st)
  BY <1>1, AtEntry, Zenon
<1>3. Becomes(st, d, st.flags \ {"inprogress"}, st.raised, st.service)
  BY <1>1, <1>2, FlagOps, Zenon
<1>4. AfterEvent(st, c, st.conf.flow) = Done(CondUnmaskEoiIrq(d, c))
  BY <1>1, Zenon DEF AfterEvent
<1> HIDE DEF d
<1>5. d \in Type /\ MaskOK(d) /\ d.flags = st.flags \ {"inprogress"} /\ d.raised = st.raised
      /\ d.service = st.service /\ d.conf = st.conf
  BY <1>3, Zenon DEF Becomes, Frame
<1>6. Becomes(d, e, d.flags, d.raised, d.service \ {c}) /\ CondUnmaskEoiIrq(d, c) = b
  BY <1>5, EoiOp, Zenon DEF CondUnmaskEoiIrq
<1> HIDE DEF e
<1>7. e \in Type /\ MaskOK(e) /\ e.flags = st.flags \ {"inprogress"} /\ e.raised = st.raised
      /\ e.service = st.service \ {c} /\ Becomes(st, e, e.flags, e.raised, e.service)
  BY <1>3, <1>5, <1>6, Then, Zenon DEF Becomes, Frame
<1>8. \E fl \in {e.flags, e.flags \ {"masked"}} :
         /\ Becomes(e, b, fl, e.raised, e.service)
         /\ st.conf.oneshot /\ "disabled" \notin fl => "masked" \notin fl
  <2>1. CASE st.conf.oneshot
    BY <1>7, <2>1, CondUnmaskOp, Zenon
  <2>2. CASE ~st.conf.oneshot
    BY <1>7, <2>2, Zenon DEF Becomes, Frame
  <2> QED BY <2>1, <2>2, Zenon
<1> HIDE DEF b
<1>9. PICK fl \in {e.flags, e.flags \ {"masked"}} :
         /\ Becomes(e, b, fl, e.raised, e.service)
         /\ st.conf.oneshot /\ "disabled" \notin fl => "masked" \notin fl
  BY <1>8, Zenon
<1>10. Becomes(st, b, fl, st.raised, st.service \ {c})
  BY <1>7, <1>9, Then
<1>11. b.conf = st.conf /\ b.action = st.action /\ b.flags = fl
  BY <1>10, Zenon DEF Becomes, Frame
<1>12. Opens(b) => Opens(st) /\ "masked" \notin fl
  BY <1>1, <1>2, <1>7, <1>9, <1>11, Zenon DEF Opens, Open, Masks, Has
<1>13. Open(b)
  BY <1>1, <1>2, <1>7, <1>9, <1>11, <1>12, Zenon DEF Open, Has
<1> QED BY <1>1, <1>4, <1>6, <1>7, <1>9, <1>10, <1>13 DEF ExitOK, Done, Becomes, Has

(* handle_edge_irq ends, or goes round for what came meanwhile.            *)
LEMMA EdgeExit ==
    ASSUME NEW st, Inv(st), NEW c \in Cpus, Runs(st, c), st.conf.flow = "edge"
    PROVE  ExitOK(st, c, AfterEvent(st, c, st.conf.flow))
<1> DEFINE d == Clear(st, {"inprogress"})
<1>1. /\ st.conf.flow \notin PerCpu /\ st.conf.flow \notin Software /\ st.conf.flow \in Latched
      /\ st.conf.flow \notin Eois /\ st.pc[c] # "entry"
      /\ {"inprogress"} \in SUBSET Flags /\ "masked" \notin {"inprogress"}
  BY Zenon DEF PerCpu, Software, Latched, Eois, Flags, Runs
<1>2. st \in Type /\ MaskOK(st) /\ Open(st) /\ c \notin st.service
  BY <1>1, AtEntry, Zenon
<1>3. Becomes(st, d, st.flags \ {"inprogress"}, st.raised, st.service)
  BY <1>1, <1>2, FlagOps, Zenon
<1>4. AfterEvent(st, c, st.conf.flow) =
        IF ~Again(d) THEN Done(d) ELSE IF d.action = "none" THEN Done(MaskIrq(d)) ELSE Event(Reopen(d))
  BY <1>1, Zenon DEF AfterEvent
<1> HIDE DEF d
<1>5. d \in Type /\ MaskOK(d) /\ d.flags = st.flags \ {"inprogress"} /\ d.raised = st.raised
      /\ d.service = st.service /\ d.conf = st.conf /\ d.action = st.action
  BY <1>3, Zenon DEF Becomes, Frame
<1>6. CASE ~Again(d)
  <2>1. Open(d)
    BY <1>2, <1>5, <1>6, Zenon DEF Open, Opens, Has, Again
  <2>2. ExitOK(st, c, Done(d))
    BY <1>1, <1>2, <1>3, <2>1, DoneExit
  <2> QED BY <1>4, <1>6, <2>2, Zenon
<1>7. CASE Again(d) /\ d.action = "none"
  <2>1. Becomes(d, MaskIrq(d), d.flags \cup {"masked"}, d.raised, d.service)
    BY <1>5, MaskOps, Zenon
  <2>2. Becomes(st, MaskIrq(d), d.flags \cup {"masked"}, st.raised, st.service)
    BY <1>3, <1>5, <2>1, Then
  <2>3. Open(MaskIrq(d))
    BY <1>5, <1>7, <2>2, Zenon DEF Becomes, Frame, Open, Opens
  <2>4. ExitOK(st, c, Done(MaskIrq(d)))
    BY <1>1, <1>2, <1>5, <2>2, <2>3, DoneExit
  <2> QED BY <1>4, <1>7, <2>4, Zenon
<1>8. CASE Again(d) /\ d.action # "none"
  <2> DEFINE q == Reopen(d)
  <2>1. Becomes(d, q, IF "masked" \in d.flags THEN d.flags \ {"masked"} ELSE d.flags, d.raised, d.service)
    BY <1>5, <1>8, MaskOps, Zenon DEF Reopen, Again, Has, Becomes, Frame
  <2> HIDE DEF q
  <2>2. /\ q \in Type /\ MaskOK(q) /\ q.flags = d.flags \ {"masked"} /\ q.service = st.service
        /\ q.conf = st.conf /\ Becomes(st, q, q.flags, q.raised, st.service)
    BY <1>3, <1>5, <2>1, Then, Zenon DEF Becomes, Frame
  <2>3. /\ Becomes(q, Event(q).st, (q.flags \ {"pending"}) \cup {"inprogress"}, q.raised, q.service)
        /\ Event(q).run = TRUE
    BY <2>2, EventOp, Zenon
  <2>4. Becomes(st, Event(q).st, (q.flags \ {"pending"}) \cup {"inprogress"}, q.raised, st.service)
    BY <2>2, <2>3, Then
  <2>5. Open(Event(q).st)
    BY <2>2, <2>4, Zenon DEF Becomes, Open, Has
  <2>6. AfterEvent(st, c, st.conf.flow) = Event(q)
    BY <1>4, <1>8, Zenon DEF q
  <2> QED BY <1>1, <1>2, <2>3, <2>4, <2>5, <2>6, Zenon DEF ExitOK, Becomes, Has
<1> QED BY <1>6, <1>7, <1>8, Zenon

(* handle_edge_eoi_irq ends, or goes round for what came meanwhile.        *)
LEMMA EdgeEoiExit ==
    ASSUME NEW st, Inv(st), NEW c \in Cpus, Runs(st, c), st.conf.flow = "edge_eoi"
    PROVE  ExitOK(st, c, AfterEvent(st, c, st.conf.flow))
<1> DEFINE d == Clear(st, {"inprogress"})
<1>1. /\ st.conf.flow \notin PerCpu /\ st.conf.flow \notin Software /\ st.conf.flow \in Latched
      /\ st.conf.flow \in Eois /\ {"inprogress"} \in SUBSET Flags /\ "masked" \notin {"inprogress"}
  BY Zenon DEF PerCpu, Software, Latched, Eois, Flags
<1>2. st \in Type /\ MaskOK(st) /\ Open(st)
  BY <1>1, AtEntry, Zenon
<1>3. Becomes(st, d, st.flags \ {"inprogress"}, st.raised, st.service)
  BY <1>1, <1>2, FlagOps, Zenon
<1>4. AfterEvent(st, c, st.conf.flow) =
        IF Again(d) /\ d.action # "none" THEN Event(d) ELSE Done(ChipEoi(d, c))
  BY <1>1, Zenon DEF AfterEvent
<1> HIDE DEF d
<1>5. d \in Type /\ MaskOK(d) /\ d.flags = st.flags \ {"inprogress"} /\ d.raised = st.raised
      /\ d.service = st.service /\ d.conf = st.conf /\ d.action = st.action
  BY <1>3, Zenon DEF Becomes, Frame
<1>6. Opens(d) => "masked" \notin d.flags
  BY <1>1, <1>2, <1>5, Zenon DEF Open, Opens, Has, Masks
<1>7. CASE Again(d) /\ d.action # "none"
  <2>1. /\ Becomes(d, Event(d).st, (d.flags \ {"pending"}) \cup {"inprogress"}, d.raised, d.service)
        /\ Event(d).run = TRUE
    BY <1>5, EventOp, Zenon
  <2>2. Becomes(st, Event(d).st, (d.flags \ {"pending"}) \cup {"inprogress"}, d.raised, st.service)
    BY <1>3, <1>5, <2>1, Then
  <2>3. Open(Event(d).st)
    BY <1>5, <1>6, <2>1, Zenon DEF Becomes, Frame, Open, Opens, Has
  <2> QED BY <1>1, <1>4, <1>7, <2>1, <2>2, <2>3, Zenon DEF ExitOK, Becomes, Has
<1>8. CASE ~(Again(d) /\ d.action # "none")
  <2> DEFINE b == ChipEoi(d, c)
  <2>1. Becomes(d, b, d.flags, d.raised, d.service \ {c})
    BY <1>5, EoiOp, Zenon
  <2>2. AfterEvent(st, c, st.conf.flow) = Done(b)
    BY <1>4, <1>8, Zenon
  <2> HIDE DEF b
  <2>3. Becomes(st, b, d.flags, st.raised, st.service \ {c})
    BY <1>3, <1>5, <2>1, Then
  <2>4. Open(b)
    BY <1>5, <1>6, <1>8, <2>1, Zenon DEF Becomes, Frame, Open, Opens, Has, Again
  <2>5. ExitOK(st, c, Done(b))
    BY <1>1, <1>5, <2>3, <2>4, DoneExit
  <2> QED BY <2>2, <2>5, Zenon
<1> QED BY <1>7, <1>8, Zenon

(* The per-CPU handlers end the interrupt.                                 *)
LEMMA PercpuExit ==
    ASSUME NEW st, Inv(st), NEW c \in Cpus, st.conf.flow \in PerCpu
    PROVE  ExitOK(st, c, AfterEvent(st, c, st.conf.flow))
<1>1. /\ st \in Type /\ st.conf.flow \notin Software /\ st.conf.flow \notin {"level", "edge", "edge_eoi"}
      /\ st.conf.flow \notin {"fasteoi", "fasteoi_ack", "fasteoi_mask"}
  BY Zenon DEF Inv, PerCpu, Software
<1>2. AfterEvent(st, c, st.conf.flow) = Done(ChipEoi(st, c))
  BY <1>1, Zenon DEF AfterEvent
<1> DEFINE b == ChipEoi(st, c)
<1>3. /\ Frame(st, b) /\ b.raised = st.raised /\ b.service = st.service \ {c} /\ b.flags = st.flags
      /\ b.conf = st.conf
  BY <1>1, Zenon DEF Frame, ChipEoi, Type
<1> HIDE DEF b
<1>4. ExitOK(st, c, Done(b))
  BY <1>3, Zenon DEF ExitOK, Done, Open, Opens, Has
<1> QED BY <1>2, <1>4, Zenon DEF b

(* Every flow handler, once the actions have run.                          *)
LEMMA AfterEventOK ==
    ASSUME NEW st, Inv(st), NEW c \in Cpus, Runs(st, c)
    PROVE  ExitOK(st, c, AfterEvent(st, c, st.conf.flow))
<1>1. \/ st.conf.flow \in Software \cup {"level"} \/ st.conf.flow \in PerCpu
      \/ st.conf.flow \in {"fasteoi", "fasteoi_ack", "fasteoi_mask"}
      \/ st.conf.flow = "edge" \/ st.conf.flow = "edge_eoi"
  BY Zenon DEF Inv, Type, AllConfs, Flows, Tracked
<1> QED BY <1>1, SoftwareExit, PercpuExit, FasteoiExit, EdgeExit, EdgeEoiExit, Zenon

(* A handler that leaves as ExitOK says preserves the invariant.           *)
LEMMA ExitInv ==
    ASSUME NEW st, Inv(st), NEW c \in Cpus, st.pc[c] = "exit", NEW r, ExitOK(st, c, r),
           NEW n, n = Moved(r.st, c, IF r.run THEN "event" ELSE "idle", st.flow[c])
    PROVE  Inv(n)
<1> DEFINE to == IF r.run THEN "event" ELSE "idle"
<1>1. st \in Type /\ Frame(st, r.st) /\ st.flow[c] \in Flows \cup {"bad"}
      /\ r.run \in BOOLEAN /\ to \in {"idle", "entry", "event", "exit"}
  BY Zenon DEF Inv, ExitOK, Type
<1>2. /\ n \in Type /\ n.conf = st.conf /\ n.action = st.action /\ n.handler = st.handler
      /\ n.unserved = st.unserved /\ n.flags = r.st.flags /\ n.raised = r.st.raised
      /\ n.masked = r.st.masked /\ n.service = r.st.service
      /\ \A d \in Cpus : /\ n.pc[d] = IF d = c THEN to ELSE st.pc[d]
                         /\ n.flow[d] = IF d = c THEN st.flow[c] ELSE st.flow[d]
  BY <1>1, MovedFields
<1>3. \A d \in Cpus : IF d = c THEN Runs(n, d) <=> r.run ELSE Runs(n, d) <=> Runs(st, d)
  BY <1>1, <1>2 DEF Runs
<1>4. Runs(st, c)
  BY Zenon DEF Runs
<1> HIDE DEF to
<1>5. Attached(n)
  BY <1>2, <1>3, <1>4 DEF Inv, Attached
<1>6. Exclusive(n)
  <2> SUFFICES ASSUME st.conf.flow \notin PerCpu PROVE Exclusive(n)
    BY <1>2, Zenon DEF Exclusive
  <2>1. /\ \A d, e \in Cpus : Runs(st, d) /\ Runs(st, e) => d = e
        /\ st.conf.flow = "nested" =>
              \A d, e \in Cpus : st.pc[d] # "idle" /\ st.pc[e] # "idle" => d = e
        /\ MaskOK(r.st) /\ (Has(r.st, "inprogress") <=> r.run)
    BY Zenon DEF Inv, Exclusive, ExitOK
  <2>2. MaskOK(n) /\ (Has(n, "inprogress") <=> r.run)
    BY <1>2, <2>1, Zenon DEF MaskOK, Has
  <2>3. \A d \in Cpus : Runs(n, d) <=> d = c /\ r.run
    BY <1>3, <1>4, <2>1
  <2>5. st.conf.flow = "nested" =>
          \A d, e \in Cpus : n.pc[d] # "idle" /\ n.pc[e] # "idle" => d = e
    BY <1>2, <2>1
  <2> QED BY <1>2, <2>2, <2>3, <2>5 DEF Exclusive
<1>7. InService(n)
  <2>1. \A d \in st.service : st.pc[d] = "entry" \/ (st.conf.flow \in Eois /\ Runs(st, d))
    BY Zenon DEF Inv, InService
  <2>2. st.conf.flow \in Software => st.service = {}
    BY Zenon DEF Inv, InService
  <2>3. /\ r.st.service \subseteq st.service /\ st.service \subseteq Cpus
        /\ c \in r.st.service => r.run /\ st.conf.flow \in Eois
    BY <1>1, Zenon DEF ExitOK, Type
  <2>4. ASSUME NEW d \in n.service PROVE n.pc[d] = "entry" \/ (n.conf.flow \in Eois /\ Runs(n, d))
    <3>1. CASE d = c
      BY <1>2, <1>3, <2>3, <2>4, <3>1, Zenon
    <3>2. CASE d # c
      BY <1>2, <1>3, <2>1, <2>3, <2>4, <3>2, Zenon
    <3> QED BY <3>1, <3>2, Zenon
  <2> QED BY <1>2, <2>2, <2>3, <2>4 DEF InService
<1>8. Open(n)
  <2>1. Open(r.st) /\ r.st.conf = st.conf /\ r.st.action = st.action
    BY Zenon DEF ExitOK, Frame
  <2> QED BY <1>2, <2>1 DEF Open, Opens, Masks, Has
<1>9. Kept(n)
  <2> SUFFICES ASSUME st.conf.flow \notin {"simple", "untracked"}
               PROVE  st.unserved \subseteq r.st.raised \/ (st.conf.flow \in Latched /\ Owed(n))
    BY <1>2, Zenon DEF Kept
  <2>1. st.unserved \subseteq st.raised \/ (st.conf.flow \in Latched /\ Owed(st))
    BY Zenon DEF Inv, Kept
  <2>2. CASE st.conf.flow \in Latched /\ r.run
    <3>1. n.pc[c] = "event"
      BY <1>2, <2>2, Zenon DEF to
    <3> QED BY <2>2, <3>1, Zenon DEF Owed
  <2>3. CASE r.st.raised = st.raised /\ (Has(st, "pending") => Has(r.st, "pending"))
    <3>1. Owed(st) => Owed(n)
      BY <1>2, <2>3 DEF Owed, Has
    <3> QED BY <2>1, <2>3, <3>1, Zenon
  <2> QED BY <2>2, <2>3, Zenon DEF ExitOK
<1> QED BY <1>2, <1>5, <1>6, <1>7, <1>8, <1>9, Zenon DEF Inv

-----------------------------------------------------------------------------
(* The steps.                                                              *)

(* generic_handle_irq_desc preserves the invariant.                        *)
LEMMA GenericHandleIrqStep ==
    ASSUME IInv, NEW c \in Cpus, GenericHandleIrq(c)
    PROVE  IInv'
<1> DEFINE r == HandleIrq(irq, c, irq.handler)
<1>1. Inv(irq) /\ irq.pc[c] = "entry" /\ EnterOK(irq, c, r)
  BY HandleIrqOK, Zenon DEF IInv, GenericHandleIrq
<1>2. irq' = Moved(r.st, c, IF r.run THEN "event" ELSE "idle", irq.handler)
  BY Zenon DEF GenericHandleIrq, Enter, Moved
<1> HIDE DEF r
<1>3. Inv(irq')
  BY <1>1, <1>2, EnterInv, Zenon
<1> QED BY <1>3, Zenon DEF IInv

(* The return of the actions to the flow handler preserves it.             *)
LEMMA FlowReturnStep ==
    ASSUME IInv, NEW c \in Cpus, FlowReturn(c)
    PROVE  IInv'
<1> DEFINE r == AfterEvent(irq, c, irq.conf.flow)
<1>1. Inv(irq) /\ irq.pc[c] = "exit" /\ irq.flow[c] = irq.conf.flow
  BY Zenon DEF IInv, FlowReturn, Inv, Attached, Runs
<1>2. ExitOK(irq, c, r)
  BY <1>1, AfterEventOK, Zenon DEF Runs
<1>3. irq' = [r.st EXCEPT !.pc[c] = IF r.run THEN "event" ELSE "idle"]
  BY <1>1, Zenon DEF FlowReturn, Exit
<1> HIDE DEF r
<1>4. r.st \in Type /\ r.st.flow = irq.flow
  BY <1>2, Zenon DEF ExitOK, Frame
<1>5. r.st.flow = [r.st.flow EXCEPT ![c] = irq.flow[c]]
  BY <1>4, Zenon DEF Type
<1>6. irq' = Moved(r.st, c, IF r.run THEN "event" ELSE "idle", irq.flow[c])
  BY <1>3, <1>4, <1>5, Zenon DEF Moved, Type
<1>7. Inv(irq')
  BY <1>1, <1>2, <1>6, ExitInv, Zenon
<1> QED BY <1>7, Zenon DEF IInv

(* A step of the driver leaves every CPU where it is.                      *)
LEMMA DriverInv ==
    ASSUME NEW st, Inv(st), NEW n \in Type, st.conf.flow \notin PerCpu, MaskOK(n),
           n.conf = st.conf, n.pc = st.pc, n.flow = st.flow, n.service \subseteq st.service,
           "inprogress" \in n.flags <=> "inprogress" \in st.flags,
           n.handler = "bad" \/ n.handler = n.conf.flow, n.handler = "bad" => n.action = "none",
           n.action = "none" => n.unserved = {}, Open(n),
           \/ n.unserved = {}
           \/ /\ n.unserved = st.unserved
              /\ \/ n.raised = st.raised /\ ("pending" \in n.flags <=> "pending" \in st.flags)
                 \/ n.raised = Resent(st)
    PROVE  Inv(n)
<1>1. \A c \in Cpus : Runs(n, c) <=> Runs(st, c)
  BY Zenon DEF Runs
<1>2. Attached(n)
  BY <1>1, Zenon DEF Inv, Attached
<1>3. Exclusive(n)
  BY <1>1 DEF Inv, Exclusive, Has
<1>4. InService(n)
  BY Zenon DEF Inv, InService, Runs
<1>5. Kept(n)
  <2>1. CASE n.unserved = {}
    BY <2>1, Zenon DEF Kept
  <2>2. CASE n.unserved = st.unserved /\ n.raised = st.raised /\ ("pending" \in n.flags <=> "pending" \in st.flags)
    BY <2>2, Zenon DEF Inv, Kept, Owed, Has
  <2>3. CASE n.unserved = st.unserved /\ n.raised = Resent(st)
    <3>1. st.unserved \subseteq Cpus /\ st.raised \subseteq Cpus
      BY Zenon DEF Inv, Type
    <3> QED BY <2>3, <3>1, Zenon DEF Inv, Kept, Owed, Has, Resent
  <2> QED BY <2>1, <2>2, <2>3, Zenon
<1> QED BY <1>2, <1>3, <1>4, <1>5, Zenon DEF Inv

(* Either end of irq_startup leaves what Open asks for.                    *)
LEMMA OpenedOpen ==
    ASSUME NEW st, NEW n, Opened(st, n.flags) \/ LeftShut(st, n.flags)
    PROVE  Open(n)
BY Zenon DEF Opened, LeftShut, Open, Opens, Has

(* What the invariant says to the driver's side of a global interrupt.     *)
LEMMA AtDriver ==
    ASSUME IInv, Global
    PROVE  /\ Inv(irq) /\ irq \in Type /\ MaskOK(irq) /\ irq.conf.flow \notin PerCpu
           /\ irq.handler = "bad" \/ irq.handler = irq.conf.flow
           /\ irq.handler = "bad" => irq.action = "none"
           /\ irq.action = "none" => irq.unserved = {}
BY Zenon DEF IInv, Inv, Exclusive, Attached, Global

(* enable_irq preserves the invariant.                                     *)
LEMMA EnableIrqStep ==
    ASSUME IInv, EnableIrq
    PROVE  IInv'
<1>1. Global /\ irq.action # "none" /\ irq.handler # "bad" /\ irq' = IrqStartup(irq)
  BY Zenon DEF EnableIrq
<1>2. /\ Inv(irq) /\ irq \in Type /\ MaskOK(irq) /\ irq.conf.flow \notin PerCpu
      /\ irq.handler = irq.conf.flow
  BY <1>1, AtDriver, Zenon
<1>3. \/ \E fl : Becomes(irq, irq', fl, Resent(irq), irq.service) /\ Opened(irq, fl)
      \/ \E fl : Becomes(irq, irq', fl, irq.raised, irq.service) /\ LeftShut(irq, fl)
  BY <1>1, <1>2, StartupOp, Zenon
<1>4. \/ Becomes(irq, irq', irq'.flags, Resent(irq), irq.service) /\ Opened(irq, irq'.flags)
      \/ Becomes(irq, irq', irq'.flags, irq.raised, irq.service) /\ LeftShut(irq, irq'.flags)
  BY <1>3, Zenon DEF Becomes
<1>5. Open(irq')
  BY <1>4, OpenedOpen, Zenon
<1>6. /\ irq' \in Type /\ MaskOK(irq') /\ irq'.conf = irq.conf /\ irq'.pc = irq.pc
      /\ irq'.flow = irq.flow /\ irq'.service = irq.service /\ irq'.handler = irq.handler
      /\ irq'.action = irq.action /\ irq'.unserved = irq.unserved
      /\ "inprogress" \in irq'.flags <=> "inprogress" \in irq.flags
      /\ \/ irq'.raised = irq.raised /\ ("pending" \in irq'.flags <=> "pending" \in irq.flags)
         \/ irq'.raised = Resent(irq)
  BY <1>4, Zenon DEF Becomes, Frame, Opened, LeftShut
<1>7. Inv(irq')
  BY <1>1, <1>2, <1>5, <1>6, DriverInv, Zenon
<1> QED BY <1>7, Zenon DEF IInv

(* disable_irq preserves the invariant, lazy or not.                       *)
LEMMA DisableIrqStep ==
    ASSUME IInv, DisableIrq
    PROVE  IInv'
<1> DEFINE d == [irq EXCEPT !.depth = 1]
<1>1. Global /\ irq.action # "none" /\ irq' = DoIrqDisable(d, irq.conf.unlazy)
  BY Zenon DEF DisableIrq
<1>2. /\ Inv(irq) /\ irq \in Type /\ MaskOK(irq) /\ irq.conf.flow \notin PerCpu
      /\ irq.handler = irq.conf.flow /\ irq.handler # "bad" /\ irq.conf.unlazy \in BOOLEAN
  BY <1>1, AtDriver, Zenon DEF Type, AllConfs
<1>3. Becomes(irq, d, irq.flags, irq.raised, irq.service)
  BY <1>2, DepthOp, Zenon
<1> HIDE DEF d
<1>4. /\ d \in Type /\ MaskOK(d) /\ d.flags = irq.flags /\ d.raised = irq.raised
      /\ d.service = irq.service
  BY <1>3, Zenon DEF Becomes, Frame
<1>5. PICK fl \in Disabled(d) : Becomes(d, irq', fl, d.raised, d.service)
  BY <1>1, <1>2, <1>4, DisableOp, Zenon
<1>6. Becomes(irq, irq', fl, irq.raised, irq.service) /\ "disabled" \in fl
      /\ ("inprogress" \in fl <=> "inprogress" \in irq.flags)
      /\ ("pending" \in fl <=> "pending" \in irq.flags)
  BY <1>3, <1>4, <1>5, Then, Zenon DEF Disabled
<1>7. Open(irq')
  BY <1>6, Zenon DEF Becomes, Open, Opens, Has
<1>8. /\ irq' \in Type /\ MaskOK(irq') /\ irq'.conf = irq.conf /\ irq'.pc = irq.pc
      /\ irq'.flow = irq.flow /\ irq'.service = irq.service /\ irq'.handler = irq.handler
      /\ irq'.action = irq.action /\ irq'.unserved = irq.unserved /\ irq'.raised = irq.raised
      /\ irq'.flags = fl
  BY <1>6, Zenon DEF Becomes, Frame
<1>9. /\ "inprogress" \in irq'.flags <=> "inprogress" \in irq.flags
      /\ "pending" \in irq'.flags <=> "pending" \in irq.flags
      /\ irq'.handler # "bad" /\ irq'.handler = irq'.conf.flow
  BY <1>1, <1>2, <1>6, <1>8, AtDriver, Zenon
<1>10. Inv(irq')
  BY <1>1, <1>2, <1>7, <1>8, <1>9, DriverInv, Zenon
<1> QED BY <1>10, Zenon DEF IInv

(* Attaching the first action preserves the invariant.                     *)
LEMMA RequestGlobal ==
    ASSUME IInv, RequestIrq, Global
    PROVE  IInv'
<1> DEFINE a == [irq EXCEPT !.action = "driver"]
           v == IrqActivate(a)
<1>1. irq.action = "none" /\ irq.handler # "bad" /\ irq' = IrqStartup(v)
  BY Zenon DEF RequestIrq
<1>2. /\ Inv(irq) /\ irq \in Type /\ MaskOK(irq) /\ irq.conf.flow \notin PerCpu
      /\ irq.handler = irq.conf.flow /\ irq.unserved = {}
  BY <1>1, AtDriver, Zenon
<1>3. /\ a \in Type /\ MaskOK(a) /\ a.conf = irq.conf /\ a.pc = irq.pc /\ a.flow = irq.flow
      /\ a.service = irq.service /\ a.handler = irq.handler /\ a.action = "driver"
      /\ a.unserved = {} /\ a.flags = irq.flags
  BY <1>2, Zenon DEF Type, MaskOK, Has
<1> HIDE DEF a
<1>4. PICK fa \in {a.flags, a.flags \cup {"activated"}} : Becomes(a, v, fa, a.raised, a.service)
  BY <1>3, ActivateOp, Zenon
<1> HIDE DEF v
<1>5. v \in Type /\ MaskOK(v) /\ v.service = a.service /\ v.flags = fa
  BY <1>4, Zenon DEF Becomes, Frame
<1>6. \/ \E fl : Becomes(v, irq', fl, Resent(v), v.service) /\ Opened(v, fl)
      \/ \E fl : Becomes(v, irq', fl, v.raised, v.service) /\ LeftShut(v, fl)
  BY <1>1, <1>5, StartupOp, Zenon
<1>7. /\ Frame(v, irq') /\ MaskOK(irq') /\ irq'.service = v.service
      /\ Opened(v, irq'.flags) \/ LeftShut(v, irq'.flags)
  BY <1>6, Zenon DEF Becomes
<1>8. Open(irq')
  BY <1>7, OpenedOpen, Zenon
<1>9. /\ irq' \in Type /\ irq'.conf = irq.conf /\ irq'.pc = irq.pc
      /\ irq'.flow = irq.flow /\ irq'.service = irq.service /\ irq'.handler = irq.handler
      /\ irq'.action = "driver" /\ irq'.unserved = {}
  BY <1>3, <1>4, <1>5, <1>7, Zenon DEF Becomes, Frame
<1>10. "inprogress" \in irq'.flags <=> "inprogress" \in irq.flags
  BY <1>3, <1>4, <1>5, <1>7 DEF Opened, LeftShut
<1>11. Inv(irq')
  BY <1>1, <1>2, <1>7, <1>8, <1>9, <1>10, DriverInv, Zenon
<1> QED BY <1>11, Zenon DEF IInv

(* Detaching the last action preserves the invariant.                      *)
LEMMA FreeGlobal ==
    ASSUME IInv, FreeIrq, Global
    PROVE  IInv'
<1> DEFINE d == [irq EXCEPT !.action = "none", !.unserved = {}]
<1>1. irq' = IrqShutdown(d)
  BY Zenon DEF FreeIrq
<1>2. /\ Inv(irq) /\ irq \in Type /\ MaskOK(irq) /\ irq.conf.flow \notin PerCpu
      /\ irq.handler = "bad" \/ irq.handler = irq.conf.flow
  BY AtDriver, Zenon
<1>3. /\ d \in Type /\ MaskOK(d) /\ d.conf = irq.conf /\ d.pc = irq.pc /\ d.flow = irq.flow
      /\ d.service = irq.service /\ d.handler = irq.handler /\ d.action = "none"
      /\ d.unserved = {} /\ d.flags = irq.flags
  BY <1>2, Zenon DEF Type, MaskOK, Has
<1> HIDE DEF d
<1>4. PICK fl : Becomes(d, irq', fl, d.raised, d.service) /\ LeftShut(d, fl)
  BY <1>1, <1>3, ShutdownOp, Zenon
<1>5. /\ irq' \in Type /\ MaskOK(irq') /\ irq'.conf = irq.conf /\ irq'.pc = irq.pc
      /\ irq'.flow = irq.flow /\ irq'.service = irq.service /\ irq'.handler = irq.handler
      /\ irq'.action = "none" /\ irq'.unserved = {} /\ LeftShut(d, irq'.flags)
  BY <1>3, <1>4, Zenon DEF Becomes, Frame
<1>6. Open(irq') /\ ("inprogress" \in irq'.flags <=> "inprogress" \in irq.flags)
  BY <1>3, <1>5, OpenedOpen, Zenon DEF LeftShut
<1>7. Inv(irq')
  BY <1>2, <1>5, <1>6, DriverInv, Zenon
<1> QED BY <1>7, Zenon DEF IInv

(* __irq_do_set_handler preserves the invariant.                           *)
LEMMA DoSetHandlerStep ==
    ASSUME IInv, NEW handle, handle = "bad" \/ handle = irq.conf.flow, DoSetHandler(handle)
    PROVE  IInv'
<1> DEFINE m == MaskAckIrq(irq)
           s == Set(m, {"disabled"})
           d == [s EXCEPT !.depth = 1]
           b == IF handle = "bad" THEN d ELSE irq
<1>1. Global /\ irq.action = "none" /\ irq' = [b EXCEPT !.handler = handle]
  BY Zenon DEF DoSetHandler
<1>2. /\ Inv(irq) /\ irq \in Type /\ MaskOK(irq) /\ irq.conf.flow \notin PerCpu
      /\ irq.unserved = {} /\ handle \in Flows \cup {"bad"}
  BY <1>1, AtDriver DEF Type, AllConfs
<1>3. Becomes(irq, m, irq.flags \cup {"masked"}, Acked(irq), Ended(irq))
  BY <1>2, MaskAckOp, Zenon
<1> HIDE DEF m
<1>4. /\ m \in Type /\ MaskOK(m) /\ m.flags = irq.flags \cup {"masked"} /\ m.service = Ended(irq)
      /\ {"disabled"} \in SUBSET Flags /\ "masked" \notin {"disabled"}
  BY <1>3, Zenon DEF Becomes, Frame, Flags
<1>5. Becomes(m, s, m.flags \cup {"disabled"}, m.raised, m.service)
  BY <1>4, FlagOps, Zenon
<1> HIDE DEF s
<1>6. s \in Type /\ MaskOK(s) /\ s.flags = m.flags \cup {"disabled"} /\ s.service = m.service
  BY <1>5, Zenon DEF Becomes, Frame
<1>7. Becomes(s, d, s.flags, s.raised, s.service)
  BY <1>6, DepthOp, Zenon
<1> HIDE DEF d
<1>8. /\ Frame(irq, b) /\ MaskOK(b) /\ b.service \subseteq irq.service
      /\ "inprogress" \in b.flags <=> "inprogress" \in irq.flags
  <2>1. Becomes(irq, d, s.flags, s.raised, s.service)
    BY <1>3, <1>5, <1>7, Then
  <2>2. "inprogress" \in d.flags <=> "inprogress" \in irq.flags
    BY <1>4, <1>6, <1>7, Zenon DEF Becomes
  <2>3. d.service \subseteq irq.service
    BY <1>4, <1>6, <2>1, Zenon DEF Becomes, Ended
  <2>4. Frame(irq, irq)
    BY <1>2, Zenon DEF Frame
  <2> QED BY <1>2, <2>1, <2>2, <2>3, <2>4, Zenon DEF Becomes
<1> HIDE DEF b
<1>9. /\ b \in Type /\ b.conf = irq.conf /\ b.pc = irq.pc /\ b.flow = irq.flow
      /\ b.action = "none" /\ b.unserved = {}
  BY <1>1, <1>2, <1>8, Zenon DEF Frame
<1>10. /\ irq' \in Type /\ irq'.conf = irq.conf /\ irq'.pc = irq.pc /\ irq'.flow = irq.flow
       /\ irq'.action = "none" /\ irq'.unserved = {} /\ irq'.service = b.service
       /\ irq'.flags = b.flags /\ irq'.masked = b.masked /\ irq'.handler = handle
  BY <1>1, <1>2, <1>9, Zenon DEF Type
<1>11. MaskOK(irq') /\ Open(irq')
  BY <1>8, <1>10, Zenon DEF MaskOK, Has, Open, Opens
<1>12. Inv(irq')
  BY <1>2, <1>8, <1>10, <1>11, DriverInv, Zenon
<1> QED BY <1>12, Zenon DEF IInv

(* The steps on a per-CPU interrupt that move no CPU.                      *)
LEMMA PercpuInv ==
    ASSUME NEW st, Inv(st), st.conf.flow \in PerCpu, NEW n \in Type, n.conf = st.conf,
           n.pc = st.pc, n.flow = st.flow, n.handler = st.handler, n.service = st.service,
           n.action = "none" => n.unserved = {}, n.unserved \subseteq n.raised
    PROVE  Inv(n)
<1>1. Attached(n) /\ InService(n)
  BY Zenon DEF Inv, Attached, InService, Runs
<1>2. Exclusive(n) /\ Open(n) /\ Kept(n)
  BY Zenon DEF Exclusive, Open, Opens, Kept
<1> QED BY <1>1, <1>2, Zenon DEF Inv

(* The driver's side of a per-CPU interrupt preserves the invariant.       *)
LEMMA PercpuSteps ==
    ASSUME IInv, ~Global,
           \/ RequestIrq \/ FreeIrq \/ \E c \in Cpus : PercpuEnable(c) \/ PercpuDisable(c)
    PROVE  IInv'
<1>1. /\ Inv(irq) /\ irq \in Type /\ irq.conf.flow \in PerCpu /\ irq.unserved \subseteq irq.raised
      /\ irq.action = "none" => irq.unserved = {}
  BY Zenon DEF IInv, Inv, Kept, Attached, Global, PerCpu, Latched, Software
<1>2. CASE RequestIrq
  <2>1. /\ irq' \in Type /\ irq'.conf = irq.conf /\ irq'.pc = irq.pc /\ irq'.flow = irq.flow
        /\ irq'.handler = irq.handler /\ irq'.service = irq.service /\ irq'.action = "driver"
        /\ irq'.unserved = irq.unserved /\ irq'.raised = irq.raised
    BY <1>1, <1>2 DEF RequestIrq, Type
  <2>2. Inv(irq')
    BY <1>1, <2>1, PercpuInv, Zenon
  <2> QED BY <2>2, Zenon DEF IInv
<1>3. CASE FreeIrq
  <2>1. /\ irq' \in Type /\ irq'.conf = irq.conf /\ irq'.pc = irq.pc /\ irq'.flow = irq.flow
        /\ irq'.handler = irq.handler /\ irq'.service = irq.service /\ irq'.unserved = {}
    BY <1>1, <1>3, Zenon DEF FreeIrq, Type
  <2>2. Inv(irq')
    BY <1>1, <2>1, PercpuInv, Zenon
  <2> QED BY <2>2, Zenon DEF IInv
<1>4. ASSUME NEW c \in Cpus, PercpuEnable(c) \/ PercpuDisable(c) PROVE IInv'
  <2>1. irq' = IrqPercpuEnable(irq, c) \/ irq' = IrqPercpuDisable(irq, c)
    BY <1>4, Zenon DEF PercpuEnable, PercpuDisable
  <2>2. /\ irq' \in Type /\ irq'.conf = irq.conf /\ irq'.pc = irq.pc /\ irq'.flow = irq.flow
        /\ irq'.handler = irq.handler /\ irq'.service = irq.service /\ irq'.action = irq.action
        /\ irq'.unserved = irq.unserved /\ irq'.raised = irq.raised
    <3>1. CASE irq' = IrqPercpuEnable(irq, c)
      BY <1>1, <3>1, Zenon DEF IrqPercpuEnable, Type
    <3>2. CASE irq' = IrqPercpuDisable(irq, c)
      BY <1>1, <3>2, Zenon DEF IrqPercpuDisable, Type
    <3> QED BY <2>1, <3>1, <3>2, Zenon
  <2>3. Inv(irq')
    BY <1>1, <2>2, PercpuInv, Zenon
  <2> QED BY <2>3, Zenon DEF IInv
<1> QED BY <1>2, <1>3, <1>4, Zenon

(* The device and the controller, and the run of the actions.              *)
LEMMA RaiseStep ==
    ASSUME IInv, NEW c \in Cpus, Raise(c)
    PROVE  IInv'
<1>1. Inv(irq) /\ irq \in Type /\ Targets(c) \subseteq Cpus
  BY Zenon DEF IInv, Inv, Targets
<1>2. /\ irq' \in Type /\ irq'.conf = irq.conf /\ irq'.pc = irq.pc /\ irq'.flow = irq.flow
      /\ irq'.handler = irq.handler /\ irq'.service = irq.service /\ irq'.action = irq.action
      /\ irq'.flags = irq.flags /\ irq'.masked = irq.masked
      /\ irq'.raised = irq.raised \cup Targets(c)
      /\ irq'.unserved = IF irq.action = "none" THEN {} ELSE irq.unserved \cup Targets(c)
  BY <1>1, Zenon DEF Raise, Type
<1>3. Attached(irq') /\ InService(irq')
  BY <1>1, <1>2, Zenon DEF Inv, Attached, InService, Runs
<1>4. Exclusive(irq')
  BY <1>1, <1>2 DEF Inv, Exclusive, MaskOK, Has, Runs
<1>5. Open(irq')
  BY <1>1, <1>2, Zenon DEF Inv, Open, Opens, Masks, Has
<1>6. Kept(irq')
  <2>1. Owed(irq') <=> Owed(irq)
    BY <1>2, Zenon DEF Owed, Has
  <2> QED BY <1>1, <1>2, <2>1, Zenon DEF Inv, Kept
<1> QED BY <1>2, <1>3, <1>4, <1>5, <1>6, Zenon DEF IInv, Inv

(* A CPU that moves between two places neither of which is idle, or from   *)
(* idle to the entry, and runs the actions after the step if it did before.*)
LEMMA PlaceInv ==
    ASSUME NEW st, Inv(st), NEW n \in Type, NEW c \in Cpus, NEW to \in {"entry", "exit"},
           n.conf = st.conf, n.flow = st.flow, n.handler = st.handler, n.action = st.action,
           n.flags = st.flags, n.masked = st.masked, n.pc = [st.pc EXCEPT ![c] = to],
           Runs(st, c) <=> to = "exit", st.pc[c] # "entry",
           n.service \subseteq st.service \cup (IF to = "entry" THEN {c} ELSE {}),
           st.conf.flow \in Software => n.service = {},
           st.conf.flow = "nested" /\ to = "entry" => \A d \in Cpus : st.pc[d] = "idle",
           n.action = "none" => n.unserved = {}, Kept(n)
    PROVE  Inv(n)
<1>1. /\ st.pc \in [Cpus -> {"idle", "entry", "event", "exit"}]
      /\ n.pc[c] = to /\ \A d \in Cpus : d # c => n.pc[d] = st.pc[d]
  BY DEF Inv, Type
<1>2. \A d \in Cpus : Runs(n, d) <=> Runs(st, d)
  BY <1>1 DEF Runs
<1>3. Attached(n)
  BY <1>2, Zenon DEF Inv, Attached
<1>4. Exclusive(n)
  <2> SUFFICES ASSUME n.conf.flow \notin PerCpu
               PROVE  /\ MaskOK(n)
                      /\ \A a, b \in Cpus : Runs(n, a) /\ Runs(n, b) => a = b
                      /\ Has(n, "inprogress") <=> \E a \in Cpus : Runs(n, a)
                      /\ n.conf.flow = "nested" =>
                           \A a, b \in Cpus : n.pc[a] # "idle" /\ n.pc[b] # "idle" => a = b
    BY Zenon DEF Exclusive
  <2>1. MaskOK(n) /\ (Has(n, "inprogress") <=> \E a \in Cpus : Runs(n, a))
    BY <1>2, Zenon DEF Inv, Exclusive, MaskOK, Has
  <2>2. \A a, b \in Cpus : Runs(n, a) /\ Runs(n, b) => a = b
    BY <1>2, Zenon DEF Inv, Exclusive
  <2>3. ASSUME n.conf.flow = "nested", NEW a \in Cpus, NEW b \in Cpus, n.pc[a] # "idle", n.pc[b] # "idle"
        PROVE  a = b
    <3>1. CASE to = "entry"
      BY <1>1, <2>3, <3>1, Zenon
    <3>2. CASE to = "exit"
      <4>1. st.pc[c] # "idle"
        BY <3>2, Zenon DEF Runs
      <4>2. st.pc[a] # "idle" /\ st.pc[b] # "idle"
        BY <1>1, <2>3, <4>1, Zenon
      <4> QED BY <2>3, <4>2, Zenon DEF Inv, Exclusive
    <3> QED BY <3>1, <3>2, Zenon
  <2> QED BY <2>1, <2>2, <2>3, Zenon
<1>5. InService(n)
  <2> SUFFICES ASSUME NEW d \in n.service
               PROVE  n.pc[d] = "entry" \/ (n.conf.flow \in Eois /\ Runs(n, d))
    BY Zenon DEF InService
  <2>1. n.service \subseteq Cpus
    BY Zenon DEF Type
  <2>2. CASE d \in st.service
    <3>1. st.pc[d] = "entry" \/ (st.conf.flow \in Eois /\ Runs(st, d))
      BY <2>2, Zenon DEF Inv, InService
    <3>2. CASE d = c
      <4>1. st.conf.flow \in Eois /\ Runs(st, c)
        BY <3>1, <3>2, Zenon
      <4> QED BY <1>2, <3>2, <4>1, Zenon
    <3>3. CASE d # c
      <4>1. n.pc[d] = st.pc[d] /\ (Runs(n, d) <=> Runs(st, d))
        BY <1>1, <1>2, <2>1, <3>3, Zenon
      <4> QED BY <3>1, <4>1, Zenon
    <3> QED BY <3>2, <3>3, Zenon
  <2>3. CASE d = c /\ to = "entry"
    BY <1>1, <2>3, Zenon
  <2>4. d \in st.service \/ (d = c /\ to = "entry")
    <3>1. CASE to = "entry"
      BY <3>1, Zenon
    <3>2. CASE to # "entry"
      BY <3>2, Zenon
    <3> QED BY <3>1, <3>2, Zenon
  <2> QED BY <2>2, <2>3, <2>4, Zenon
<1>6. Open(n)
  BY Zenon DEF Inv, Open, Opens, Masks, Has
<1> QED BY <1>3, <1>4, <1>5, <1>6, Zenon DEF Inv

(* The controller interrupts a CPU.                                        *)
LEMMA DeliverStep ==
    ASSUME IInv, NEW c \in Cpus, Deliver(c)
    PROVE  IInv'
<1>1. /\ Inv(irq) /\ irq \in Type /\ irq.pc[c] = "idle"
      /\ irq.conf.flow = "nested" => \A d \in Cpus : irq.pc[d] = "idle"
  BY Zenon DEF IInv, Inv, Deliver
<1>2. TakeLatch(irq, c) \subseteq Cpus
  BY <1>1, Zenon DEF TakeLatch, Type
<1>3. /\ irq' \in Type /\ irq'.conf = irq.conf /\ irq'.flow = irq.flow /\ irq'.handler = irq.handler
      /\ irq'.action = irq.action /\ irq'.flags = irq.flags /\ irq'.masked = irq.masked
      /\ irq'.pc = [irq.pc EXCEPT ![c] = "entry"] /\ irq'.unserved = irq.unserved
      /\ irq'.raised = TakeLatch(irq, c)
      /\ irq'.service = IF irq.conf.flow \in Software THEN irq.service ELSE irq.service \cup {c}
  BY <1>1, <1>2, Zenon DEF Deliver, Type
<1>4. irq.pc \in [Cpus -> {"idle", "entry", "event", "exit"}]
  BY <1>1, Zenon DEF Type
<1>5. Kept(irq')
  <2> SUFFICES ASSUME irq.conf.flow \notin {"simple", "untracked"}
               PROVE  irq.unserved \subseteq irq'.raised \/ (irq.conf.flow \in Latched /\ Owed(irq'))
    BY <1>3, Zenon DEF Kept
  <2>1. CASE irq.conf.flow \in {"edge_eoi", "nested"}
    <3>1. irq'.pc[c] = "entry"
      BY <1>3, <1>4, Zenon
    <3>2. Owed(irq')
      BY <1>3, <2>1, <3>1, Zenon DEF Owed
    <3> QED BY <2>1, <3>2, Zenon DEF Latched, Software
  <2>2. CASE irq.conf.flow \notin {"edge_eoi", "nested"}
    <3>1. irq'.raised = irq.raised
      BY <1>3, <2>2, Zenon DEF TakeLatch, Latched, Software
    <3>2. Owed(irq) => Owed(irq')
      BY <1>1, <1>3, <1>4, Zenon DEF Owed, Has
    <3> QED BY <1>1, <3>1, <3>2, Zenon DEF Inv, Kept
  <2> QED BY <2>1, <2>2, Zenon
<1>6. /\ irq.action = "none" => irq.unserved = {}
      /\ irq.conf.flow \in Software => irq.service = {}
  BY <1>1, Zenon DEF Inv, Attached, InService
<1>7. Inv(irq')
  BY <1>1, <1>3, <1>5, <1>6, PlaceInv, Zenon DEF Runs
<1> QED BY <1>7, Zenon DEF IInv

(* The actions run, and have looked at every event so far.                 *)
LEMMA HandleIrqEventPercpuStep ==
    ASSUME IInv, NEW c \in Cpus, HandleIrqEventPercpu(c)
    PROVE  IInv'
<1>1. Inv(irq) /\ irq \in Type /\ irq.pc[c] = "event"
  BY Zenon DEF IInv, Inv, HandleIrqEventPercpu
<1>2. /\ irq' \in Type /\ irq'.conf = irq.conf /\ irq'.flow = irq.flow /\ irq'.handler = irq.handler
      /\ irq'.action = irq.action /\ irq'.flags = irq.flags /\ irq'.masked = irq.masked
      /\ irq'.pc = [irq.pc EXCEPT ![c] = "exit"] /\ irq'.service = irq.service
      /\ irq'.unserved = IF irq.action = "none" THEN irq.unserved ELSE irq.unserved \ Targets(c)
      /\ irq'.raised = IF irq.action = "none" \/ irq.conf.flow \in Latched
                       THEN irq.raised ELSE irq.raised \ Targets(c)
  BY <1>1, Zenon DEF HandleIrqEventPercpu, Type
<1>3. /\ irq.action = "none" => irq.unserved = {}
      /\ irq.conf.flow \in Software => irq.service = {}
      /\ irq.unserved \subseteq Cpus
  BY <1>1, Zenon DEF Inv, Attached, InService, Type
<1>4. Kept(irq')
  <2>1. CASE irq.action = "none" \/ irq.conf.flow \notin PerCpu
    <3>1. irq'.unserved = {}
      BY <1>2, <1>3, <2>1, Zenon DEF Targets
    <3> QED BY <3>1, Zenon DEF Kept
  <2>2. CASE irq.action # "none" /\ irq.conf.flow \in PerCpu
    <3>1. irq.conf.flow \notin Latched /\ irq.conf.flow \notin {"simple", "untracked"}
      BY <2>2, Zenon DEF Latched, Software, PerCpu
    <3>2. irq.unserved \subseteq irq.raised
      BY <1>1, <3>1, Zenon DEF Inv, Kept
    <3>3. irq'.unserved \subseteq irq'.raised
      BY <1>2, <2>2, <3>1, <3>2, Zenon
    <3> QED BY <3>3, Zenon DEF Kept
  <2> QED BY <2>1, <2>2, Zenon
<1>5. Inv(irq')
  BY <1>1, <1>2, <1>3, <1>4, PlaceInv, Zenon DEF Runs
<1> QED BY <1>5, Zenon DEF IInv

-----------------------------------------------------------------------------
(* The invariant, from which the properties follow.                        *)

(* A descriptor before its first action.                                   *)
LEMMA InitInv ==
    ASSUME Confs \subseteq AllConfs
    PROVE  Init => IInv
<1> SUFFICES ASSUME Init PROVE Inv(irq)
  BY Zenon DEF IInv
<1>1. PICK conf \in Confs :
        irq = [conf |-> conf, flags |-> {"disabled", "masked"}, depth |-> 1,
               action |-> "none", handler |-> conf.flow, percpu_enabled |-> {},
               raised |-> {}, masked |-> Cpus, service |-> {}, unserved |-> {},
               pc |-> [c \in Cpus |-> "idle"], flow |-> [c \in Cpus |-> "bad"]]
  BY Zenon DEF Init
<1>2. conf \in AllConfs /\ conf.flow \in Flows /\ conf.flow # "bad"
  BY Zenon DEF AllConfs, Flows, Tracked, Software, PerCpu
<1>3. irq \in Type
  BY <1>1, <1>2, Zenon DEF Type, Flags
<1>4. \A c \in Cpus : irq.pc[c] = "idle"
  BY <1>1
<1>5. Attached(irq) /\ InService(irq) /\ Kept(irq)
  BY <1>1, <1>2, <1>4, Zenon DEF Attached, InService, Kept, Runs
<1>6. Exclusive(irq)
  BY <1>1, <1>4, Zenon DEF Exclusive, MaskOK, Has, Runs
<1>7. Open(irq)
  BY <1>1, Zenon DEF Open, Opens
<1> QED BY <1>3, <1>5, <1>6, <1>7, Zenon DEF Inv

(* The invariant is inductive.                                             *)
LEMMA NextInv == IInv /\ [Next]_irq => IInv'
<1> SUFFICES ASSUME IInv, [Next]_irq PROVE IInv'
  BY Zenon
<1>1. CASE UNCHANGED irq
  BY <1>1, Zenon DEF IInv
<1>2. ASSUME NEW c \in Cpus, Raise(c) \/ Deliver(c) \/ CpuStep(c) PROVE IInv'
  BY <1>2, RaiseStep, DeliverStep, GenericHandleIrqStep, HandleIrqEventPercpuStep, FlowReturnStep, Zenon
     DEF CpuStep
<1>3. CASE RequestIrq \/ FreeIrq
  BY <1>3, RequestGlobal, FreeGlobal, PercpuSteps, Zenon
<1>4. CASE DisableIrq \/ EnableIrq
  BY <1>4, DisableIrqStep, EnableIrqStep, Zenon
<1>5. ASSUME NEW c \in Cpus, PercpuEnable(c) \/ PercpuDisable(c) PROVE IInv'
  <2>1. ~Global
    BY <1>5, Zenon DEF PercpuEnable, PercpuDisable
  <2> QED BY <1>5, <2>1, PercpuSteps, Zenon
<1>6. CASE DoSetHandler("bad") \/ DoSetHandler(irq.conf.flow)
  BY <1>6, DoSetHandlerStep, Zenon
<1> QED BY <1>1, <1>2, <1>3, <1>4, <1>5, <1>6, Zenon DEF Next

(* chip.c, handle.c: the inductive invariant of a descriptor, for any CPUs *)
(* and any configurations a chip and a driver can ask for.                 *)
THEOREM Invariance == ASSUME Confs \subseteq AllConfs PROVE Spec => []IInv
<1>1. Init => IInv
  BY InitInv, Zenon
<1>2. IInv /\ [Next]_irq => IInv'
  BY NextInv, Zenon
<1> QED BY <1>1, <1>2, PTL DEF Spec

(* chip.c: the actions of a descriptor never run on two CPUs at once, the  *)
(* in-progress bit is set exactly while they run, and the software mask    *)
(* bit agrees with the controller.                                         *)
THEOREM Exclusion == ASSUME Confs \subseteq AllConfs PROVE Spec => []HandlerExclusive
<1>1. IInv => HandlerExclusive
  <2> SUFFICES ASSUME IInv, Global PROVE
          /\ \A c, d \in Cpus : Running(c) /\ Running(d) => c = d
          /\ Has(irq, "inprogress") <=> \E c \in Cpus : Running(c)
          /\ irq.masked = IF Has(irq, "masked") THEN Cpus ELSE {}
    BY Zenon DEF HandlerExclusive
  <2>1. Exclusive(irq) /\ irq.conf.flow \notin PerCpu
    BY Zenon DEF IInv, Inv, Global
  <2>2. \A c \in Cpus : Running(c) <=> Runs(irq, c)
    BY Zenon DEF Running, Runs
  <2> QED BY <2>1, <2>2, Zenon DEF Exclusive, MaskOK
<1> QED BY <1>1, Invariance, PTL

(* chip.c: whatever disables, enables and interrupts raced, once the CPUs  *)
(* are out of the flow handlers an enabled interrupt is unmasked, with     *)
(* nothing pending, and ended in the controller.                           *)
THEOREM Rest == ASSUME Confs \subseteq AllConfs PROVE Spec => []OpenAtRest
<1>1. IInv => OpenAtRest
  <2> SUFFICES ASSUME IInv, AllIdle
               PROVE  /\ Global /\ Enabled /\ Reopens => ~Has(irq, "masked") /\ ~Has(irq, "pending")
                      /\ irq.service = {}
    BY Zenon DEF OpenAtRest
  <2>1. /\ irq \in Type /\ Exclusive(irq) /\ InService(irq) /\ Open(irq)
        /\ \A c \in Cpus : irq.pc[c] = "idle"
    BY Zenon DEF IInv, Inv, AllIdle
  <2>2. irq.service = {}
    BY <2>1, Zenon DEF InService, Runs, Type
  <2>3. ASSUME Global, Enabled, Reopens PROVE ~Has(irq, "masked") /\ ~Has(irq, "pending")
    <3>1. ~Has(irq, "inprogress")
      BY <2>1, <2>3, Zenon DEF Exclusive, Global, Runs
    <3>2. Opens(irq)
      BY <2>3, Zenon DEF Opens, Global, Enabled, Reopens
    <3> QED BY <2>1, <3>1, <3>2, Zenon DEF Open
  <2> QED BY <2>2, <2>3, Zenon
<1> QED BY <1>1, Invariance, PTL

(* chip.c: an event of the device is never dropped: it is still raised in  *)
(* the controller, marked pending, or about to be looked at.               *)
THEOREM Delivery == ASSUME Confs \subseteq AllConfs PROVE Spec => []EventKept
<1>1. IInv => EventKept
  BY Zenon DEF IInv, Inv, Kept, Owed, EventKept
<1> QED BY <1>1, Invariance, PTL
=============================================================================
