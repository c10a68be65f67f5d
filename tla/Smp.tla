-------------------------------- MODULE Smp ---------------------------------
(***************************************************************************)
(* Multiprocessing (kernel/arch/sparc/meiko/smp.c, irq.c): the boot        *)
(* processor starts the others and counts those that call in, processors   *)
(* make each other run a function (cross calls, the heart of every cache   *)
(* and TLB flush) and send each other messages, and each has a ticker.     *)
(*                                                                         *)
(* A processor has a program counter, pc, and another one, hpc, for the    *)
(* level 15 interrupt, which no code masks: spin_lock_irqsave raises the   *)
(* processor's interrupt level to 15 and level 15 still gets through.      *)
(* Levels 13 and 14 wait until the processor is in none of this code.      *)
(*                                                                         *)
(* The lists that smp4m_irq_rotate follows are left out: it ends in        *)
(* dino1_set_udt, which is empty on these boards.                          *)
(***************************************************************************)
EXTENDS Integers, FiniteSets

CONSTANTS
    NR_CPUS,
    Pals,           \* processors the ASSERTs of irq.c accept: 0 and 1
    LateCallin      \* whether a processor may call in after its time is up

ASSUME CpusAssumption == NR_CPUS \in Nat \ {0} /\ Pals \subseteq Nat /\ 0 \in Pals
ASSUME LateAssumption == LateCallin \in BOOLEAN

Cpus == 0 .. NR_CPUS - 1
boot_cpu_id == 0

(* unsigned prof_counter, which wraps: two bits show it. *)
PROF_MOD == 4

VARIABLES
    linux_num_cpus,         \* what the PROM says
    pc, hpc,
    cpu_present_map, cpucount, smp_num_cpus, smp_processors_ready,
    cpu_callin_map, current_set, smp_commenced,
    boot_i,                 \* i of smp4m_boot_cpus; 0 before it
    freed,                  \* processors whose trap table was given away
    cross_call_lock, func, processors_in, processors_out,
    call_i,                 \* i of smp4m_cross_call
    pend,                   \* soft interrupts pending in a processor's PAL
    smp_cpu_in_msg, mask,   \* smp4m_message_pass: its guard, its targets left
    l14,                    \* processors whose PAL lets level 14 through
    prof_counter, need_resched,
    panicked,
    up, ran,                \* who runs the kernel; whose function ran where
    asked, dropped          \* processors to be told to reschedule; those a
                            \* request for which was dropped since

bootVars == <<linux_num_cpus, cpu_present_map, cpucount, smp_num_cpus,
              smp_processors_ready, cpu_callin_map, current_set, smp_commenced,
              boot_i, freed, up>>
callVars == <<cross_call_lock, func, processors_in, processors_out, call_i, ran>>
msgVars == <<smp_cpu_in_msg, mask, asked, dropped>>
tickVars == <<l14, prof_counter, need_resched>>
vars == <<bootVars, pc, hpc, callVars, pend, msgVars, tickVars, panicked>>

RESCHEDULE == 13
CROSS_CALL == 15

Init ==
    /\ linux_num_cpus \in 1 .. NR_CPUS
    /\ pc = [c \in Cpus |-> IF c = boot_cpu_id THEN "run" ELSE "off"]
    /\ hpc = [c \in Cpus |-> "none"]
    /\ cpu_present_map = {} /\ cpucount = 0 /\ smp_num_cpus = 1
    /\ smp_processors_ready = 0 /\ smp_commenced = 0 /\ boot_i = 0 /\ freed = {}
    /\ cpu_callin_map = [c \in Cpus |-> 0] /\ current_set = [c \in Cpus |-> 0]
    /\ cross_call_lock = "free" /\ func = boot_cpu_id
    /\ processors_in = [c \in Cpus |-> 0] /\ processors_out = [c \in Cpus |-> 0]
    /\ call_i = [c \in Cpus |-> 0]
    /\ pend = [c \in Cpus |-> {}]
    /\ smp_cpu_in_msg = [c \in Cpus |-> 0] /\ mask = [c \in Cpus |-> {}]
    /\ l14 = {} /\ prof_counter = [c \in Cpus |-> 0]
    /\ need_resched = [c \in Cpus |-> 0]
    /\ panicked = 0
    /\ up = {boot_cpu_id} /\ ran = [c \in Cpus |-> {}] /\ asked = {} /\ dropped = {}

(* The code a processor was in goes on once the interrupt handler is done. *)
At(c, where) == panicked = 0 /\ hpc[c] = "none" /\ pc[c] = where
Goto(c, where) == pc' = [pc EXCEPT ![c] = where]

(* dino1_send_ipi: the soft interrupts a processor's PAL has pending then, *)
(* and whether its ASSERTs hold.                                           *)
IpiLevels == {1, 4, 6, 12, 13, 15}
MaySendIpi(c, level) == c \in Pals /\ level \in IpiLevels

dino1_send_ipi_Overwrites(c, level) ==  \* mutant: what is pending already is lost
    IF MaySendIpi(c, level)
    THEN pend' = [pend EXCEPT ![c] = {level}] /\ UNCHANGED panicked
    ELSE panicked' = 1 /\ UNCHANGED pend
dino1_send_ipi(c, level) ==
    IF MaySendIpi(c, level)
    THEN pend' = [pend EXCEPT ![c] = @ \cup {level}] /\ UNCHANGED panicked
    ELSE panicked' = 1 /\ UNCHANGED pend

-----------------------------------------------------------------------------
(* smp_setup_percpu_timer: only the boot processor enables level 14, and   *)
(* dino1_enable_pil_irq does so in its own PAL.                            *)
smp_setup_percpu_timer(c) ==
    /\ prof_counter' = [prof_counter EXCEPT ![c] = 1]
    /\ l14' = IF c = boot_cpu_id THEN l14 \cup {c} ELSE l14
    /\ UNCHANGED need_resched

smp4m_boot_cpus ==
    /\ At(boot_cpu_id, "run") /\ boot_i = 0
    /\ cpu_present_map' = 0 .. linux_num_cpus - 1
    /\ smp_setup_percpu_timer(boot_cpu_id)
    /\ boot_i' = 1
    /\ Goto(boot_cpu_id, IF linux_num_cpus = 1 THEN "run" ELSE "boot")
    /\ UNCHANGED <<linux_num_cpus, cpucount, smp_num_cpus, smp_processors_ready,
                   cpu_callin_map, current_set, smp_commenced, freed, up, hpc,
                   callVars, pend, msgVars, panicked>>

(* An idle task for processor boot_i, which the PROM (external) starts, or *)
(* fails to start.                                                         *)
boot_cpus_start ==
    /\ At(boot_cpu_id, "boot") /\ boot_i < linux_num_cpus
    /\ cpucount' = cpucount + 1
    /\ current_set' = [current_set EXCEPT ![boot_i] = cpucount + 1]
    /\ \E s \in {"started", "dead"} :
          pc' = [pc EXCEPT ![boot_cpu_id] = "wait", ![boot_i] = s]
    /\ UNCHANGED <<linux_num_cpus, cpu_present_map, smp_num_cpus, smp_processors_ready,
                   cpu_callin_map, smp_commenced, boot_i, freed, up, hpc,
                   callVars, pend, msgVars, tickVars, panicked>>

(* It called in, or its 10000 times 200 microseconds are over. *)
boot_cpus_wait ==
    /\ At(boot_cpu_id, "wait")
    /\ \/ cpu_callin_map[boot_i] = 1 /\ UNCHANGED <<cpucount, cpu_present_map>>
       \/ /\ cpu_callin_map[boot_i] = 0
          /\ LateCallin \/ pc[boot_i] = "dead"
          /\ cpucount' = cpucount - 1
          /\ cpu_present_map' = cpu_present_map \ {boot_i}
    /\ boot_i' = boot_i + 1
    /\ Goto(boot_cpu_id, "boot")
    /\ UNCHANGED <<linux_num_cpus, smp_num_cpus, smp_processors_ready, cpu_callin_map,
                   current_set, smp_commenced, freed, up, hpc, callVars, pend,
                   msgVars, tickVars, panicked>>

(* The trap tables of the processors that are not there are freed. *)
Unneeded_AllButBoot(present) == Cpus \ {boot_cpu_id}    \* mutant: whoever is there
Unneeded(present) == (Cpus \ {boot_cpu_id}) \ present

boot_cpus_finish ==
    /\ At(boot_cpu_id, "boot") /\ boot_i = linux_num_cpus
    /\ IF cpucount = 0
       THEN cpu_present_map' = {boot_cpu_id} /\ UNCHANGED smp_num_cpus
       ELSE smp_num_cpus' = cpucount + 1 /\ UNCHANGED cpu_present_map
    /\ freed' = Unneeded(cpu_present_map')
    /\ smp_processors_ready' = 1
    /\ Goto(boot_cpu_id, "run")
    /\ UNCHANGED <<linux_num_cpus, cpucount, cpu_callin_map, current_set, smp_commenced,
                   boot_i, up, hpc, callVars, pend, msgVars, tickVars, panicked>>

(* smp_commence of the kernel (external), after smp4m_boot_cpus. *)
smp_commence ==
    /\ At(boot_cpu_id, "run") /\ boot_i > 0 /\ smp_commenced = 0
    /\ smp_commenced' = 1
    /\ UNCHANGED <<linux_num_cpus, cpu_present_map, cpucount, smp_num_cpus,
                   smp_processors_ready, cpu_callin_map, current_set, boot_i, freed,
                   up, pc, hpc, callVars, pend, msgVars, tickVars, panicked>>

(* smp4m_callin, up to its store in cpu_callin_map, and from there on. *)
smp4m_callin(c) ==
    /\ At(c, "started")
    /\ smp_setup_percpu_timer(c)
    /\ cpu_callin_map' = [cpu_callin_map EXCEPT ![c] = 1]
    /\ Goto(c, "calledin")
    /\ UNCHANGED <<linux_num_cpus, cpu_present_map, cpucount, smp_num_cpus,
                   smp_processors_ready, current_set, smp_commenced, boot_i, freed,
                   up, hpc, callVars, pend, msgVars, panicked>>

callin_go(c) ==
    /\ At(c, "calledin")
    /\ current_set[c] = c /\ smp_commenced = 1
    /\ Goto(c, "run")
    /\ up' = up \cup {c}
    /\ UNCHANGED <<linux_num_cpus, cpu_present_map, cpucount, smp_num_cpus,
                   smp_processors_ready, cpu_callin_map, current_set, smp_commenced,
                   boot_i, freed, hpc, callVars, pend, msgVars, tickVars, panicked>>

-----------------------------------------------------------------------------
(* smp4m_cross_call.  Which function it is does not matter, but whose call *)
(* it belongs to: func is the caller's number.                             *)
smp4m_cross_call(c) ==
    /\ At(c, "run") /\ smp_cpu_in_msg[c] = 0
    /\ Goto(c, IF smp_processors_ready = 1 THEN "lock" ELSE "func")
    /\ ran' = [ran EXCEPT ![c] = {}]
    /\ UNCHANGED <<bootVars, hpc, cross_call_lock, func, processors_in,
                   processors_out, call_i, pend, msgVars, tickVars, panicked>>

cross_call_lock_it(c) ==
    /\ At(c, "lock") /\ cross_call_lock = "free"
    /\ cross_call_lock' = "held" /\ func' = c
    /\ call_i' = [call_i EXCEPT ![c] = 0]
    /\ Goto(c, "fire")
    /\ UNCHANGED <<bootVars, hpc, processors_in, processors_out, ran, pend,
                   msgVars, tickVars, panicked>>

(* The loop over ncpus, and whom it interrupts. *)
Targets(c) == cpu_present_map \ {c}

cross_call_fire(c) ==
    /\ At(c, "fire") /\ call_i[c] < smp_num_cpus
    /\ LET j == call_i[c]
           v == IF j \in Targets(c) THEN 0 ELSE 1
       IN  /\ processors_in' = [processors_in EXCEPT ![j] = v]
           /\ processors_out' = [processors_out EXCEPT ![j] = v]
           /\ IF v = 0 THEN dino1_send_ipi(j, CROSS_CALL) ELSE UNCHANGED <<pend, panicked>>
           /\ call_i' = [call_i EXCEPT ![c] = j + 1]
           /\ Goto(c, IF j + 1 = smp_num_cpus THEN "func" ELSE "fire")
    /\ UNCHANGED <<bootVars, hpc, cross_call_lock, func, ran, msgVars, tickVars>>

(* The local copy; if there is nobody else yet, that is all. *)
cross_call_func(c) ==
    /\ At(c, "func")
    /\ ran' = [ran EXCEPT ![c] = @ \cup {c}]
    /\ call_i' = [call_i EXCEPT ![c] = 0]
    /\ Goto(c, IF smp_processors_ready = 1 THEN "in" ELSE "solo")
    /\ UNCHANGED <<bootVars, hpc, cross_call_lock, func, processors_in,
                   processors_out, pend, msgVars, tickVars, panicked>>

cross_call_solo(c) ==
    /\ At(c, "solo") /\ Goto(c, "run")
    /\ UNCHANGED <<bootVars, hpc, callVars, pend, msgVars, tickVars, panicked>>

(* First all must be in, then all out; then the lock is released. *)
cross_call_wait_in(c) ==
    /\ At(c, "in") /\ processors_in[call_i[c]] = 1
    /\ LET last == call_i[c] + 1 >= smp_num_cpus
       IN  /\ call_i' = [call_i EXCEPT ![c] = IF last THEN 0 ELSE @ + 1]
           /\ Goto(c, IF last THEN "out" ELSE "in")
    /\ UNCHANGED <<bootVars, hpc, cross_call_lock, func, processors_in,
                   processors_out, ran, pend, msgVars, tickVars, panicked>>

AllOut_NotAwaited(c) == TRUE        \* mutant: processors_out is not waited for
AllOut(c) == processors_out[call_i[c]] = 1

cross_call_wait_out(c) ==
    /\ At(c, "out") /\ AllOut(c)
    /\ LET last == call_i[c] + 1 >= smp_num_cpus
       IN  /\ call_i' = [call_i EXCEPT ![c] = IF last THEN 0 ELSE @ + 1]
           /\ Goto(c, IF last THEN "run" ELSE "out")
           /\ cross_call_lock' = IF last THEN "free" ELSE cross_call_lock
    /\ UNCHANGED <<bootVars, hpc, func, processors_in, processors_out, ran, pend,
                   msgVars, tickVars, panicked>>

(* smp4m_cross_call_irq, called by the level 15 trap (external), which has *)
(* cleared the interrupt (dino1_clear_ipi) before.                         *)
Alive(c) == pc[c] \notin {"off", "dead"}

smp4m_cross_call_irq(c) ==
    /\ panicked = 0 /\ hpc[c] = "none" /\ Alive(c) /\ CROSS_CALL \in pend[c]
    /\ pend' = [pend EXCEPT ![c] = @ \ {CROSS_CALL}]
    /\ processors_in' = [processors_in EXCEPT ![c] = 1]
    /\ hpc' = [hpc EXCEPT ![c] = "func"]
    /\ UNCHANGED <<bootVars, pc, cross_call_lock, func, processors_out, call_i, ran,
                   msgVars, tickVars, panicked>>

cross_call_irq_func(c) ==
    /\ panicked = 0 /\ hpc[c] = "func"
    /\ ran' = [ran EXCEPT ![func] = @ \cup {c}]
    /\ hpc' = [hpc EXCEPT ![c] = "done"]
    /\ UNCHANGED <<bootVars, pc, cross_call_lock, func, processors_in, processors_out,
                   call_i, pend, msgVars, tickVars, panicked>>

ReportOut_Forgotten(c) == processors_out    \* mutant: the caller is not told
ReportOut(c) == [processors_out EXCEPT ![c] = 1]

cross_call_irq_done(c) ==
    /\ panicked = 0 /\ hpc[c] = "done"
    /\ processors_out' = ReportOut(c)
    /\ hpc' = [hpc EXCEPT ![c] = "none"]
    /\ UNCHANGED <<bootVars, pc, cross_call_lock, func, processors_in, call_i, ran,
                   pend, msgVars, tickVars, panicked>>

-----------------------------------------------------------------------------
(* smp4m_message_pass(MSG_ALL_BUT_SELF or a target, MSG_RESCHEDULE).       *)
smp4m_message_pass(c, targets) ==
    /\ At(c, "run") /\ smp_processors_ready = 1 /\ smp_cpu_in_msg[c] = 0
    /\ targets \subseteq Targets(c) /\ targets # {}
    /\ smp_cpu_in_msg' = [smp_cpu_in_msg EXCEPT ![c] = 1]
    /\ mask' = [mask EXCEPT ![c] = targets]
    /\ asked' = asked \cup targets
    /\ UNCHANGED <<bootVars, pc, hpc, callVars, pend, dropped, tickVars, panicked>>

(* An interrupt handler on top of it asks too: it is told off. *)
message_pass_nested(c, targets) ==
    /\ At(c, "run") /\ smp_cpu_in_msg[c] = 1
    /\ targets \subseteq Targets(c) /\ targets # {}
    /\ asked' = asked \cup targets /\ dropped' = dropped \cup targets
    /\ UNCHANGED <<bootVars, pc, hpc, callVars, pend, smp_cpu_in_msg, mask, tickVars,
                   panicked>>

message_pass_send(c, d) ==
    /\ At(c, "run") /\ d \in mask[c]
    /\ dino1_send_ipi(d, RESCHEDULE)
    /\ mask' = [mask EXCEPT ![c] = @ \ {d}]
    /\ UNCHANGED <<bootVars, pc, hpc, callVars, smp_cpu_in_msg, asked, dropped, tickVars>>

message_pass_return(c) ==
    /\ At(c, "run") /\ smp_cpu_in_msg[c] = 1 /\ mask[c] = {}
    /\ smp_cpu_in_msg' = [smp_cpu_in_msg EXCEPT ![c] = 0]
    /\ UNCHANGED <<bootVars, pc, hpc, callVars, pend, mask, asked, dropped, tickVars,
                   panicked>>

(* smp4m_message_pass(MSG_ALL_BUT_SELF, MSG_STOP_CPU) sends level 14.       *)
IRQ_STOP_CPU == 14

message_pass_stop(c) ==
    /\ At(c, "run") /\ smp_processors_ready = 1
    /\ \E d \in Targets(c) : dino1_send_ipi(d, IRQ_STOP_CPU)
    /\ UNCHANGED <<bootVars, pc, hpc, callVars, msgVars, tickVars>>

(* The level 13 interrupt (external): it makes the processor reschedule.   *)
smp_reschedule_irq(c) ==
    /\ At(c, "run") /\ c \in up /\ RESCHEDULE \in pend[c]
    /\ pend' = [pend EXCEPT ![c] = @ \ {RESCHEDULE}]
    /\ need_resched' = [need_resched EXCEPT ![c] = 1]
    /\ asked' = asked \ {c} /\ dropped' = dropped \ {c}
    /\ UNCHANGED <<bootVars, pc, hpc, callVars, smp_cpu_in_msg, mask, l14, prof_counter,
                   panicked>>

(* smp4m_percpu_timer_interrupt, level 14: when prof_counter is down to 0, *)
(* current->counter is decremented; the process may have used it up.       *)
smp4m_percpu_timer_interrupt(c) ==
    /\ At(c, "run") /\ c \in up \cap l14
    /\ LET n == (prof_counter[c] - 1) % PROF_MOD
       IN  /\ prof_counter' = [prof_counter EXCEPT ![c] = IF n = 0 THEN 1 ELSE n]
           /\ \E over \in {0, 1} : need_resched' =
                  [need_resched EXCEPT ![c] = IF n = 0 /\ over = 1 THEN 1 ELSE @]
    /\ UNCHANGED <<bootVars, pc, hpc, callVars, pend, msgVars, l14, panicked>>

(* schedule() of the kernel (external) picks a process. *)
schedule(c) ==
    /\ At(c, "run") /\ c \in up /\ need_resched[c] = 1
    /\ need_resched' = [need_resched EXCEPT ![c] = 0]
    /\ UNCHANGED <<bootVars, pc, hpc, callVars, pend, msgVars, l14, prof_counter, panicked>>

-----------------------------------------------------------------------------
Boot == smp4m_boot_cpus \/ boot_cpus_start \/ boot_cpus_wait \/ boot_cpus_finish \/ smp_commence
CallIn(c) == smp4m_callin(c) \/ callin_go(c)
CallStep(c) ==
    \/ cross_call_lock_it(c) \/ cross_call_fire(c) \/ cross_call_func(c) \/ cross_call_solo(c)
    \/ cross_call_wait_in(c) \/ cross_call_wait_out(c)
CallIrq(c) == smp4m_cross_call_irq(c) \/ cross_call_irq_func(c) \/ cross_call_irq_done(c)
MsgStep(c) == (\E d \in Cpus : message_pass_send(c, d)) \/ message_pass_return(c)

Next ==
    \/ Boot
    \/ \E c \in Cpus :
        \/ CallIn(c) \/ smp4m_cross_call(c) \/ CallStep(c) \/ CallIrq(c) \/ MsgStep(c)
        \/ \E t \in SUBSET Cpus : smp4m_message_pass(c, t) \/ message_pass_nested(c, t)
        \/ message_pass_stop(c) \/ smp_reschedule_irq(c)
        \/ smp4m_percpu_timer_interrupt(c) \/ schedule(c)

Spec == Init /\ [][Next]_vars

(* A processor goes on in what it began; soft interrupts and the ticker    *)
(* are taken, levels 13 and 14 if the processor accepts them again and     *)
(* again; a free lock is taken in the end by a processor that spins for it *)
(* (the boards' bus arbiter is fair).  The boot processor does boot.       *)
Fairness ==
    /\ SF_vars(Boot)
    /\ \A c \in Cpus :
        /\ SF_vars(CallIn(c) \/ CallStep(c) \/ MsgStep(c))
        /\ WF_vars(CallIrq(c)) /\ SF_vars(smp_reschedule_irq(c))
FairSpec == Spec /\ Fairness

-----------------------------------------------------------------------------
(* A processor that has come as far as the kernel is one that boot_cpus    *)
(* counted, and it still has its trap table.  Cross calls count processors *)
(* by number, up to smp_num_cpus: that reaches all that run the kernel,    *)
(* although numbers may be missing among those that are present.           *)
RunningAreCounted ==
    smp_processors_ready = 1 =>
        /\ up \subseteq cpu_present_map \cap 0 .. smp_num_cpus - 1 /\ up \cap freed = {}
        /\ Cardinality(cpu_present_map) = smp_num_cpus
        /\ \A c \in Cpus \ {boot_cpu_id} : cpu_callin_map[c] = 1 => c \in cpu_present_map

(* smp4m_cross_call does what its callers rely on: the function has run    *)
(* exactly once on every running processor when it returns, whoever else   *)
(* calls, and a handler never runs the function of a call that is over.    *)
CC == INSTANCE CrossCall WITH
          calling <- {c \in Cpus : pc[c] \in {"lock", "fire", "func", "solo", "in", "out"}}
CrossCallSpec == CC!Spec

(* A cross call returns: two callers, one of which spins for the lock with *)
(* its interrupts off, do not wait for each other for ever, and the        *)
(* processors that came up all answer.                                     *)
CallReturns ==
    \A c \in Cpus : pc[c] = "lock" ~> (pc[c] = "run" \/ panicked = 1)

(* A processor asked to reschedule is interrupted, unless that request was *)
(* dropped by smp_cpu_in_msg.                                              *)
RescheduleArrives ==
    \A c \in Cpus : c \in asked ~> (c \notin asked \/ c \in dropped \/ panicked = 1)

(* "Get our local ticker going" (smp.c:88): a processor that runs the      *)
(* kernel gets the interrupts of its ticker.                               *)
TickerGoing == smp_processors_ready = 1 => up \subseteq l14
=============================================================================
