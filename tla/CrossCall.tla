------------------------------ MODULE CrossCall ------------------------------
(***************************************************************************)
(* Function calls on other CPUs: kernel/core/smp.c, with the interrupts    *)
(* between CPUs of kernel/arch/arm64/core/smp.c.                           *)
(*                                                                         *)
(* A call is carried by a call_single_data (csd): the caller's stack for a *)
(* waiting single call, its csd_data for one that does not wait, one       *)
(* embedded in an object for the async form, and for a call to many CPUs   *)
(* one per target.  The last are reached by per_cpu_ptr(cfd->csd, target)  *)
(* from cfd->csd = per_cpu_ptr(&csdata, source), so that the address       *)
(* depends on the pair and not on the direction.  Only the boot CPU's      *)
(* call_function_data is set up (call_function_init), so only it makes     *)
(* calls to several CPUs.                                                  *)
(*                                                                         *)
(* Wired says whether the architecture calls                               *)
(* generic_smp_call_function_single_interrupt, as its comment requires     *)
(* ("Invoked by arch to handle an IPI for call function single").  The     *)
(* tree's handle_IPI leaves IPI_CALL_FUNC empty: Wired = FALSE.            *)
(*                                                                         *)
(*   queue    call_single_queue: a stack, newest first                     *)
(*   ipi      CPUs with an IPI_CALL_FUNC in flight; stop, an IPI_CPU_STOP  *)
(*   taken    the csds a CPU took from its queue, in the order it runs them*)
(*   cur      within an entry: "unlock" or "func" is still to come         *)
(*   owed     the csds whose function has still to run                     *)
(***************************************************************************)
EXTENDS Naturals, Sequences, FiniteSets, Functions

CONSTANTS Cpus,      \* 0 .. n
          Boot,      \* the CPU that ran call_function_init
          Wired,
          MaxCalls   \* bound on the calls made

VARIABLE call

Stack(c)   == <<"stack", {c}>>
Data(c)    == <<"csd_data", {c}>>
Own(c)     == <<"object", {c}>>
Pair(c, t) == <<"csdata", {c, t}>>
Csds == {Stack(c) : c \in Cpus} \cup {Data(c) : c \in Cpus} \cup {Own(c) : c \in Cpus}
            \cup {Pair(Boot, t) : t \in Cpus \ {Boot}}

Idle == [at |-> "idle", csd |-> Data(Boot), to |-> Boot, wait |-> FALSE,
         todo |-> {}, mask |-> {}, kick |-> {}]

Locked(st, d) == st.csd[d].lock
Lock(st, d, sync) == [st EXCEPT !.csd[d] = [lock |-> TRUE, sync |-> sync]]
CsdUnlock(st, d)  == [st EXCEPT !.csd[d] = [lock |-> FALSE, sync |-> FALSE]]
Return(st, c)     == [st EXCEPT !.pc[c] = Idle]

(* The first CPU of a mask that is not empty.                              *)
CpumaskFirst(mask) == CHOOSE c \in mask : \A d \in mask : c =< d

(* llist_reverse_order: oldest first.                                      *)
LlistReverseOrder(q) == [i \in 1..Len(q) |-> q[Len(q) - i + 1]]

(* llist_add: push in front; true when the list was empty.                 *)
LlistAdd(st, d, t) == [st EXCEPT !.queue[t] = <<d>> \o @, !.owed = @ \cup {d}]

(* A plausible slip: the result of llist_add read the wrong way round.     *)
SendIpiInverted(st, t) == IF st.queue[t] = <<>> THEN {} ELSE {t}

(* arch_send_call_function_single_ipi when llist_add found an empty list.  *)
SendIpi(st, t) == IF st.queue[t] = <<>> THEN {t} ELSE {}

(* generic_exec_single: locally at once; -ENXIO for a CPU not online; else *)
(* queued, with an interrupt if it is the first.  A waiting caller waits   *)
(* for the csd in every case.                                              *)
GenericExecSingle(st, c, t, d, wait) ==
    IF t = c \/ t \notin st.online THEN Return(CsdUnlock(st, d), c)
    ELSE [LlistAdd(st, d, t) EXCEPT
            !.ipi = @ \cup SendIpi(st, t),
            !.pc[c] = IF wait THEN [Idle EXCEPT !.at = "wait", !.todo = {d}] ELSE Idle]

(* smp_call_function_single: the stack csd is born locked and synchronous; *)
(* csd_data is locked first, which waits for the previous call of it.      *)
SmpCallFunctionSingle(st, c, t, wait) ==
    IF wait THEN GenericExecSingle(Lock(st, Stack(c), TRUE), c, t, Stack(c), TRUE)
    ELSE [st EXCEPT !.pc[c] = [Idle EXCEPT !.at = "lock", !.csd = Data(c), !.to = t]]

(* A CPU runs its own code when it is up and not in an interrupt.          *)
InTask(c) == call.taken[c] = <<>> /\ call.cur[c] = "none" /\ c \in call.online
At(c, a)  == InTask(c) /\ call.pc[c].at = a
MayCall(c) == At(c, "idle") /\ call.made < MaxCalls
Made(st)   == [st EXCEPT !.made = @ + 1]

CallSingle(c) ==
    /\ MayCall(c)
    /\ \E t \in Cpus, wait \in BOOLEAN : call' = SmpCallFunctionSingle(Made(call), c, t, wait)

(* smp_call_function_single_async waits if the caller's csd is in use.     *)
CallAsync(c) ==
    /\ MayCall(c)
    /\ \E t \in Cpus : call' = [Made(call) EXCEPT !.pc[c] =
            [Idle EXCEPT !.at = "lock", !.csd = Own(c), !.to = t]]

CsdLock(c) ==
    /\ At(c, "lock")
    /\ LET p == call.pc[c]
       IN  /\ ~Locked(call, p.csd)
           /\ call' = GenericExecSingle(Lock(call, p.csd, FALSE), c, p.to, p.csd, FALSE)

(* smp_call_function_many: nobody else online, one CPU (the fast path), or *)
(* several.  on_each_cpu and on_each_cpu_mask run the function locally     *)
(* afterwards, which changes nothing here.                                 *)
CallMany(c) ==
    /\ MayCall(c)
    /\ \E mask \in SUBSET Cpus, wait \in BOOLEAN :
         LET others == (mask \cap call.online) \ {c}
         IN  /\ others # {}
             /\ IF Cardinality(others) = 1
                THEN call' = SmpCallFunctionSingle(Made(call), c, CpumaskFirst(others), wait)
                ELSE /\ c = Boot
                     /\ call' = [Made(call) EXCEPT !.pc[c] =
                          [Idle EXCEPT !.at = "many", !.todo = others, !.mask = others,
                                       !.wait = wait]]

(* One turn of the loop: csd_lock, fill in, queue, note whom to interrupt. *)
ManyQueue(c) ==
    /\ At(c, "many") /\ call.pc[c].todo # {}
    /\ LET p == call.pc[c]
           t == CpumaskFirst(p.todo)
           d == Pair(c, t)
       IN  /\ ~Locked(call, d)
           /\ call' = [LlistAdd(Lock(call, d, p.wait), d, t) EXCEPT
                         !.pc[c].todo = @ \ {t}, !.pc[c].kick = @ \cup SendIpi(call, t)]

ManySend(c) ==
    /\ At(c, "many") /\ call.pc[c].todo = {}
    /\ LET p == call.pc[c]
       IN  call' = [call EXCEPT !.ipi = @ \cup p.kick,
                      !.pc[c] = IF p.wait
                                THEN [Idle EXCEPT !.at = "wait",
                                                  !.todo = {Pair(c, t) : t \in p.mask}]
                                ELSE Idle]

(* csd_lock_wait on each csd of the call.                                  *)
CsdLockWait(c) ==
    /\ At(c, "wait")
    /\ \A d \in call.pc[c].todo : ~Locked(call, d)
    /\ call' = Return(call, c)

-----------------------------------------------------------------------------
(* handle_IPI with IPI_CALL_FUNC: take the whole queue and reverse it.     *)
HandleCallIpi(c) ==
    /\ c \in call.ipi /\ InTask(c)
    /\ call' = IF Wired
               THEN [call EXCEPT !.ipi = @ \ {c}, !.taken[c] = LlistReverseOrder(call.queue[c]),
                                 !.queue[c] = <<>>]
               ELSE [call EXCEPT !.ipi = @ \ {c}]

Pop(st, c, cur) == [st EXCEPT !.taken[c] = Tail(@), !.cur[c] = cur]

(* A plausible slip: the csd is released before the function runs, for     *)
(* synchronous calls too.                                                  *)
FlushEntryEarly(st, c, d) ==
    IF st.cur[c] = "none" THEN CsdUnlock([st EXCEPT !.cur[c] = "unlock"], d)
    ELSE Pop([st EXCEPT !.owed = @ \ {d}], c, "none")

(* flush_smp_call_function_queue: a synchronous entry runs and is then     *)
(* unlocked; another is unlocked first, when its caller may use it again,  *)
(* and the function, loaded before, runs after that.                       *)
FlushEntry(st, c, d) ==
    IF st.cur[c] = "unlock" THEN Pop(CsdUnlock(st, d), c, "none")
    ELSE IF st.csd[d].sync THEN [st EXCEPT !.owed = @ \ {d}, !.cur[c] = "unlock"]
    ELSE Pop(CsdUnlock([st EXCEPT !.owed = @ \ {d}], d), c, "func")

Flush(c) ==
    \/ /\ call.taken[c] # <<>> /\ call.cur[c] # "func"
       /\ call' = FlushEntry(call, c, Head(call.taken[c]))
    \/ call.cur[c] = "func" /\ call' = [call EXCEPT !.cur[c] = "none"]

(* smp_send_stop: interrupt the others and wait for a second at most.      *)
SmpSendStop(c) ==
    /\ MayCall(c)
    /\ call' = [Made(call) EXCEPT !.stop = @ \cup (call.online \ {c}),
                            !.pc[c] = [Idle EXCEPT !.at = "stop"]]

StopWait(c) == At(c, "stop") /\ call' = Return(call, c)

(* ipi_cpu_stop: offline, interrupts masked, spin for ever.                *)
IpiCpuStop(c) ==
    /\ c \in call.stop /\ InTask(c)
    /\ call' = [call EXCEPT !.stop = @ \ {c}, !.online = @ \ {c}]

Init ==
    call = [online |-> Cpus, queue |-> [c \in Cpus |-> <<>>], ipi |-> {}, stop |-> {},
            csd |-> [d \in Csds |-> [lock |-> FALSE, sync |-> FALSE]],
            taken |-> [c \in Cpus |-> <<>>], cur |-> [c \in Cpus |-> "none"], owed |-> {}, made |-> 0,
            pc |-> [c \in Cpus |-> Idle]]

Step(c) ==
    CsdLock(c) \/ ManyQueue(c) \/ ManySend(c) \/ CsdLockWait(c) \/ StopWait(c) \/ Flush(c)

Next ==
    \E c \in Cpus :
       \/ CallSingle(c) \/ CallAsync(c) \/ CallMany(c) \/ SmpSendStop(c)
       \/ HandleCallIpi(c) \/ IpiCpuStop(c) \/ Step(c)

Spec == Init /\ [][Next]_call

-----------------------------------------------------------------------------
InFlight(c) == Range(call.queue[c]) \cup Range(call.taken[c])

(* smp.c: a csd is in use by one call at a time: it is queued at most      *)
(* once, on one CPU, and never while free.  A function that has still to   *)
(* run sits in a queue, and a synchronous caller leaves only after it ran: *)
(* "If @wait is true, then returns once @func has returned".               *)
CallsExact ==
    /\ \A c, e \in Cpus : c # e => InFlight(c) \cap InFlight(e) = {}
    /\ \A c \in Cpus : IsInjective(call.queue[c] \o call.taken[c])
    /\ \A d \in call.owed : \E c \in Cpus : d \in InFlight(c)
    /\ \A c \in Cpus : \A d \in Range(call.queue[c]) : Locked(call, d)
    /\ \A c \in Cpus : call.pc[c].at # "wait" => Stack(c) \notin call.owed

Waits(c) == call.pc[c].at \in {"wait", "lock", "many"}

=============================================================================
