------------------------------ MODULE CanData ------------------------------
(***************************************************************************)
(* The data path of the CAN driver (kernel/drivers/meiko/can_main.c):      *)
(* packets go from write() and the heartbeat timer through outq to the     *)
(* 82C200's transmit buffer, and from its receive buffers through inq and  *)
(* the bottom half to the rings of the open files and to read().           *)
(*                                                                         *)
(* On one processor three levels of context run this code: a task in a     *)
(* system call, on top of it the bottom halves and timers ("bh"), on top   *)
(* of both the interrupt handler ("irq").  A level stops while a higher    *)
(* one is active; a task gives way to another task only when it sleeps.    *)
(* A ring operation is one step here (CanRing is about what is inside).    *)
(***************************************************************************)
EXTENDS Integers, Sequences, FiniteSets

CONSTANTS
    Writers, Readers,   \* tasks that write, and that read a file of their own
    NonBlock,           \* those of them that have O_NONBLOCK set
    Snoopy,             \* readers whose file is snoopy or promiscuous
    WritePkts,          \* what is written: "other", "mine"
    Counts,             \* how many packets a write() may have
    RxPkts,             \* what arrives: "mine", "req", or "other" (promiscuous)
    MaxRx,              \* bound on the number of arrivals and of errors printed
    QRoom, FdRoom,      \* packets that fit inq and outq, and the ring of a file
    HB_IAM_FACTOR       \* an IAM packet goes with every so many heartbeats

Tasks == Writers \cup Readers

ASSUME TasksAssumption ==
    /\ Writers \cap Readers = {}
    /\ NonBlock \subseteq Tasks /\ Snoopy \subseteq Readers
ASSUME SizesAssumption ==
    /\ QRoom \in Nat \ {0} /\ FdRoom \in Nat \ {0} /\ MaxRx \in Nat
    /\ HB_IAM_FACTOR \in Nat \ {0} /\ Counts \subseteq Nat

(* Packets differ, for this code, only in where they go: to another node,  *)
(* to this node for user space, to this node as a request to canobj.       *)
Pkts == {"other", "mine", "req"}
IS_MYPACKET(p) == p \in {"mine", "req"}
NoPkt == "none"

ASSUME PktsAssumption == WritePkts \subseteq Pkts /\ RxPkts \subseteq Pkts

Levels == {"task", "bh", "irq"}

VARIABLES
    inq, outq,          \* the two rings of the driver
    fdq,                \* fdq[r]: the ring of reader r's file
    bhmark,             \* can_bh is queued and IMMEDIATE_BH marked
    hb_count,           \* modulo HB_IAM_FACTOR
    xmitAvail,          \* chip: CAN_STATUS_XMIT_AVAIL
    rxbuf, rxn,         \* chip: receive buffers; arrivals and errors so far
    irqpend,            \* chip: an interrupt is pending
    inReset,            \* chip: CAN_CONTROL_RESET is set
    cutOff,             \* (history) since the last interrupt the chip was reset or
                        \* has finished a frame while can_intr ran
    pc,                 \* pc[l]: where level l is, "idle" when not active
    arg,                \* arg[l]: the packet being sent or delivered
    sent, res,          \* sent[l]: try_xmit's i > 0; res[l]: send_pkt's result
    cont,               \* what the bottom half does after a send_pkt
    run,                \* the task that is in the kernel, or "none"
    tpc, want, done     \* a task: where it is, packets to write, packets written

chip == <<xmitAvail, rxbuf, rxn, irqpend, inReset, cutOff>>
level == <<pc, arg, sent, res, cont>>
task == <<run, tpc, want, done>>
vars == <<inq, outq, fdq, bhmark, hb_count, chip, level, task>>

Init ==
    /\ inq = <<>> /\ outq = <<>> /\ fdq = [r \in Readers |-> <<>>]
    /\ bhmark = FALSE /\ hb_count = 0
    /\ xmitAvail = TRUE /\ rxbuf = <<>> /\ rxn = 0 /\ irqpend = FALSE
    /\ inReset = FALSE /\ cutOff = FALSE
    /\ pc = [l \in Levels |-> "idle"]
    /\ arg = [l \in Levels |-> NoPkt]
    /\ sent = [l \in Levels |-> FALSE] /\ res = [l \in Levels |-> FALSE]
    /\ cont = "none"
    /\ run = "none" /\ tpc = [t \in Tasks |-> "user"]
    /\ want \in [Writers -> Counts] /\ done = [w \in Writers |-> 0]

(* Level l has the processor: no higher level is active. *)
Runs(l) ==
    /\ l # "irq" => pc["irq"] = "idle"
    /\ l = "task" => pc["bh"] = "idle"

Goto(l, where) == pc' = [pc EXCEPT ![l] = where]
HasRoom_OffByOne(q) == Len(q) <= QRoom     \* mutant: one packet too many
HasRoom(q) == Len(q) < QRoom

-----------------------------------------------------------------------------
(* The chip (external): it finishes a transmission, or receives a frame    *)
(* into one of its two buffers; a third is lost (overrun).  Either raises  *)
(* an interrupt, also while can_intr runs, behind its tests of the status. *)
Late == cutOff' = (cutOff \/ pc["irq"] # "idle")

ChipSent ==
    /\ ~xmitAvail
    /\ xmitAvail' = TRUE /\ irqpend' = TRUE
    /\ Late
    /\ UNCHANGED <<inq, outq, fdq, bhmark, hb_count, rxbuf, rxn, inReset, level, task>>

ChipReceives(p) ==
    /\ rxn < MaxRx /\ ~inReset
    /\ rxn' = rxn + 1
    /\ rxbuf' = IF Len(rxbuf) < 2 THEN Append(rxbuf, p) ELSE rxbuf
    /\ irqpend' = TRUE
    /\ Late
    /\ UNCHANGED <<inq, outq, fdq, bhmark, hb_count, xmitAvail, inReset, level, task>>

-----------------------------------------------------------------------------
(* try_xmit, on any level: while the transmit buffer is available and outq *)
(* has a packet, take it ...                                               *)
try_xmit_take(l) ==
    /\ Runs(l) /\ pc[l] = "x_take"
    /\ xmitAvail /\ outq # <<>>
    /\ outq' = Tail(outq)
    /\ Goto(l, "x_copy")
    /\ UNCHANGED <<inq, fdq, bhmark, hb_count, chip, arg, sent, res, cont, task>>

(* ... can_copy_tx and CAN_COMMAND_TRANSMIT.  While a frame is on its way, *)
(* or in reset, the chip ignores both, and the packet is lost.             *)
try_xmit_copy(l) ==
    /\ Runs(l) /\ pc[l] = "x_copy"
    /\ xmitAvail' = inReset
    /\ sent' = [sent EXCEPT ![l] = TRUE]
    /\ Goto(l, "x_take")
    /\ UNCHANGED <<inq, outq, fdq, bhmark, hb_count, rxbuf, rxn, irqpend,
                   inReset, cutOff, arg, res, cont, task>>

(* Then, if (i > 0) wake_up_interruptible(&writeq). *)
Awakened_Nobody(t) == FALSE     \* mutant: the wake-up is forgotten
Awakened(t) == t \in Writers /\ tpc[t] = "asleep"

try_xmit_done(l) ==
    /\ Runs(l) /\ pc[l] = "x_take"
    /\ ~xmitAvail \/ outq = <<>>
    /\ tpc' = IF sent[l] THEN [t \in Tasks |-> IF Awakened(t) THEN "call" ELSE tpc[t]]
              ELSE tpc
    /\ sent' = [sent EXCEPT ![l] = FALSE]
    /\ Goto(l, IF l = "irq" /\ arg[l] = NoPkt THEN "i_clear" ELSE "s_return")
    /\ UNCHANGED <<inq, outq, fdq, bhmark, hb_count, chip, arg, res, cont,
                   run, want, done>>

-----------------------------------------------------------------------------
(* send_pkt, on any level.  A packet for this node goes to inq; another    *)
(* one to outq ...                                                         *)
Begins(l, p) ==
    /\ arg' = [arg EXCEPT ![l] = p]
    /\ Goto(l, "s_put")

send_pkt_put(l) ==
    /\ Runs(l) /\ pc[l] = "s_put"
    /\ LET mine == IS_MYPACKET(arg[l])
           instat == mine /\ HasRoom(inq)
           outstat == ~mine /\ HasRoom(outq)
       IN  /\ inq' = IF instat THEN Append(inq, arg[l]) ELSE inq
           /\ outq' = IF outstat THEN Append(outq, arg[l]) ELSE outq
           /\ res' = [res EXCEPT ![l] = instat \/ outstat]
           /\ Goto(l, IF instat THEN "s_mark" ELSE IF outstat THEN "s_copy" ELSE "s_return")
    /\ UNCHANGED <<fdq, bhmark, hb_count, chip, arg, sent, cont, task>>

(* ... and, if it fitted there, to inq as well ("cansnoop should see sent  *)
(* packets").                                                              *)
send_pkt_copy(l) ==
    /\ Runs(l) /\ pc[l] = "s_copy"
    /\ inq' = IF HasRoom(inq) THEN Append(inq, arg[l]) ELSE inq
    /\ Goto(l, IF HasRoom(inq) THEN "s_mark" ELSE "x_take")
    /\ UNCHANGED <<outq, fdq, bhmark, hb_count, chip, arg, sent, res, cont, task>>

(* queue_task, mark_bh; and try_xmit if the packet went to outq. *)
Marked_Not == bhmark            \* mutant: the bottom half is not asked for
Marked == TRUE

send_pkt_mark(l) ==
    /\ Runs(l) /\ pc[l] = "s_mark"
    /\ bhmark' = Marked
    /\ Goto(l, IF IS_MYPACKET(arg[l]) THEN "s_return" ELSE "x_take")
    /\ UNCHANGED <<inq, outq, fdq, hb_count, chip, arg, sent, res, cont, task>>

-----------------------------------------------------------------------------
(* can_intr: try_recv, try_xmit, clear the pending interrupts.  Before     *)
(* that it prints an error of the bus, which with a connected console is a *)
(* packet to send (one, since the next has to wait for its ACK).           *)
can_intr ==
    /\ irqpend /\ pc["irq"] = "idle"
    /\ \/ Goto("irq", "i_recv") /\ UNCHANGED <<arg, rxn>>
       \/ rxn < MaxRx /\ rxn' = rxn + 1 /\ Begins("irq", "other")
    /\ cutOff' = FALSE
    /\ UNCHANGED <<inq, outq, fdq, bhmark, hb_count, xmitAvail, rxbuf, irqpend,
                   inReset, sent, res, cont, task>>

can_intr_printed ==
    /\ pc["irq"] = "s_return"
    /\ arg' = [arg EXCEPT !["irq"] = NoPkt]
    /\ res' = [res EXCEPT !["irq"] = FALSE]
    /\ Goto("irq", "i_recv")
    /\ UNCHANGED <<inq, outq, fdq, bhmark, hb_count, chip, sent, cont, task>>

(* CAN_COMMAND_CLR_RECV releases the receive buffer that was copied. *)
Released_Not == rxbuf           \* mutant: the buffer is not released
Released == Tail(rxbuf)

(* After the receive loop can_intr goes on with try_xmit. *)
AfterRecv_Clear == "i_clear"    \* mutant: try_xmit is left to the next send_pkt
AfterRecv == "x_take"

(* try_recv: a packet that does not fit inq is dropped. *)
try_recv ==
    /\ pc["irq"] = "i_recv"
    /\ IF rxbuf # <<>>
       THEN /\ inq' = IF HasRoom(inq) THEN Append(inq, Head(rxbuf)) ELSE inq
            /\ rxbuf' = Released
            /\ bhmark' = TRUE   \* queued after the loop; no bh runs before that
            /\ UNCHANGED pc
       ELSE Goto("irq", AfterRecv) /\ UNCHANGED <<inq, rxbuf, bhmark>>
    /\ UNCHANGED <<outq, fdq, hb_count, xmitAvail, rxn, irqpend, inReset, cutOff,
                   arg, sent, res, cont, task>>

can_intr_clear ==
    /\ pc["irq"] = "i_clear"
    /\ irqpend' = FALSE
    /\ Goto("irq", "idle")
    /\ UNCHANGED <<inq, outq, fdq, bhmark, hb_count, xmitAvail, rxbuf, rxn, inReset,
                   cutOff, arg, sent, res, cont, task>>

-----------------------------------------------------------------------------
(* The bottom half: can_bh drains inq. *)
can_bh ==
    /\ Runs("bh") /\ pc["bh"] = "idle" /\ bhmark
    /\ bhmark' = FALSE
    /\ Goto("bh", "b_get")
    /\ UNCHANGED <<inq, outq, fdq, hb_count, chip, arg, sent, res, cont, task>>

(* deliver_pkt begins with canobj_packet, which answers a request. *)
can_bh_get ==
    /\ Runs("bh") /\ pc["bh"] = "b_get"
    /\ IF inq = <<>>
       THEN Goto("bh", "idle") /\ UNCHANGED <<inq, arg, cont>>
       ELSE /\ inq' = Tail(inq)
            /\ IF Head(inq) = "req"
               THEN Begins("bh", "other") /\ cont' = "req"
               ELSE /\ arg' = [arg EXCEPT !["bh"] = Head(inq)]
                    /\ Goto("bh", "b_deliver")
                    /\ UNCHANGED cont
    /\ UNCHANGED <<outq, fdq, bhmark, hb_count, chip, sent, res, task>>

(* deliver_pkt goes on with the open files: each that wants the packet     *)
(* gets a copy if it fits, and its reader is woken.                        *)
Wants(r, p) == IS_MYPACKET(p) \/ r \in Snoopy
Delivered(p) == {r \in Readers : Wants(r, p) /\ Len(fdq[r]) < FdRoom}

deliver_pkt ==
    /\ Runs("bh") /\ pc["bh"] = "b_deliver"
    /\ LET p == arg["bh"]
       IN  /\ fdq' = [r \in Readers |->
                        IF r \in Delivered(p) THEN Append(fdq[r], p) ELSE fdq[r]]
           /\ tpc' = [t \in Tasks |->
                        IF t \in Delivered(p) /\ tpc[t] = "asleep" THEN "call" ELSE tpc[t]]
    /\ arg' = [arg EXCEPT !["bh"] = NoPkt]
    /\ Goto("bh", "b_get")
    /\ UNCHANGED <<inq, outq, bhmark, hb_count, chip, sent, res, cont,
                   run, want, done>>

(* canobj_send_heartbeat, run by the timer bottom half every HB_INTERVAL:  *)
(* a heartbeat, and every HB_IAM_FACTOR times an IAM packet.               *)
canobj_send_heartbeat ==
    /\ Runs("bh") /\ pc["bh"] = "idle"
    /\ Begins("bh", "other")
    /\ cont' = IF hb_count = 0 THEN "iam" ELSE "end"
    /\ hb_count' = (hb_count + 1) % HB_IAM_FACTOR
    /\ UNCHANGED <<inq, outq, fdq, bhmark, chip, sent, res, task>>

(* send_pkt returns to the bottom half; its result is ignored there. *)
bh_send_returns ==
    /\ Runs("bh") /\ pc["bh"] = "s_return"
    /\ res' = [res EXCEPT !["bh"] = FALSE]
    /\ \/ /\ cont = "iam" /\ cont' = "end"
          /\ Begins("bh", "other")
       \/ /\ cont = "end" /\ cont' = "none"
          /\ arg' = [arg EXCEPT !["bh"] = NoPkt]
          /\ Goto("bh", "idle")
       \/ /\ cont = "req" /\ cont' = "none"
          /\ arg' = [arg EXCEPT !["bh"] = "req"]
          /\ Goto("bh", "b_deliver")
    /\ UNCHANGED <<inq, outq, fdq, bhmark, hb_count, chip, sent, task>>

-----------------------------------------------------------------------------
(* can_write: user_to_outq sends the packets one by one; copy_from_user    *)
(* before each may sleep, so other tasks may run in between.               *)
TaskMayRun == Runs("task") /\ pc["task"] = "idle" /\ run = "none"

can_write(w, n) ==
    /\ TaskMayRun /\ tpc[w] = "user"
    /\ tpc' = [tpc EXCEPT ![w] = "call"]
    /\ want' = [want EXCEPT ![w] = n] /\ done' = [done EXCEPT ![w] = 0]
    /\ UNCHANGED <<inq, outq, fdq, bhmark, hb_count, chip, level, run>>

user_to_outq(w, p) ==
    /\ TaskMayRun /\ tpc[w] = "call" /\ done[w] < want[w]
    /\ run' = w
    /\ Begins("task", p)
    /\ UNCHANGED <<inq, outq, fdq, bhmark, hb_count, chip, sent, res, cont,
                   tpc, want, done>>

(* -EFAULT: what was sent before the fault stays sent. *)
user_to_outq_efault(w) ==
    /\ TaskMayRun /\ tpc[w] = "call" /\ done[w] < want[w]
    /\ tpc' = [tpc EXCEPT ![w] = "user"]
    /\ done' = [done EXCEPT ![w] = 0]
    /\ UNCHANGED <<inq, outq, fdq, bhmark, hb_count, chip, level, run, want>>

(* A packet was sent, or refused because a ring is full: go on, return     *)
(* what was written, or with nothing written return EAGAIN or go to sleep. *)
AfterLoop(t, n) ==
    IF n > 0 \/ t \in NonBlock THEN tpc' = [tpc EXCEPT ![t] = "user"] /\ run' = "none"
    ELSE tpc' = [tpc EXCEPT ![t] = "presleep"] /\ run' = t

write_send_returns(w) ==
    /\ Runs("task") /\ run = w /\ w \in Writers /\ pc["task"] = "s_return"
    /\ Goto("task", "idle")
    /\ arg' = [arg EXCEPT !["task"] = NoPkt]
    /\ res' = [res EXCEPT !["task"] = FALSE]
    /\ IF res["task"] /\ done[w] + 1 < want[w]
       THEN /\ done' = [done EXCEPT ![w] = @ + 1]
            /\ run' = "none" /\ UNCHANGED tpc
       ELSE /\ AfterLoop(w, IF res["task"] THEN done[w] + 1 ELSE done[w])
            /\ done' = [done EXCEPT ![w] = 0]
    /\ UNCHANGED <<inq, outq, fdq, bhmark, hb_count, chip, sent, cont, want>>

(* write() with a count of 0: the loop sends nothing and refuses nothing. *)
can_write_zero(w) ==
    /\ TaskMayRun /\ tpc[w] = "call" /\ want[w] = 0
    /\ AfterLoop(w, 0)
    /\ UNCHANGED <<inq, outq, fdq, bhmark, hb_count, chip, level, want, done>>

(* interruptible_sleep_on: only now is the task on the wait queue.         *)
sleep_on(t) ==
    /\ Runs("task") /\ tpc[t] = "presleep" /\ run = t
    /\ tpc' = [tpc EXCEPT ![t] = "asleep"]
    /\ run' = "none"
    /\ UNCHANGED <<inq, outq, fdq, bhmark, hb_count, chip, level, want, done>>

(* A signal ends the sleep: EINTR. *)
signal(t) ==
    /\ tpc[t] = "asleep"
    /\ tpc' = [tpc EXCEPT ![t] = "user"]
    /\ UNCHANGED <<inq, outq, fdq, bhmark, hb_count, chip, level, run, want, done>>

(* can_read: take some packets (and return them, or -EFAULT if one of them *)
(* cannot be copied, which loses them), or return EAGAIN, or go to sleep.  *)
can_read(r) ==
    /\ TaskMayRun /\ tpc[r] = "user"
    /\ tpc' = [tpc EXCEPT ![r] = "call"]
    /\ UNCHANGED <<inq, outq, fdq, bhmark, hb_count, chip, level, run, want, done>>

ring_to_user(r) ==
    /\ TaskMayRun /\ r \in Readers /\ tpc[r] = "call"
    /\ IF fdq[r] # <<>>
       THEN /\ \E n \in 1 .. Len(fdq[r]) :
                    fdq' = [fdq EXCEPT ![r] = SubSeq(@, n + 1, Len(@))]
            /\ tpc' = [tpc EXCEPT ![r] = "user"] /\ UNCHANGED run
       ELSE AfterLoop(r, 0) /\ UNCHANGED fdq
    /\ UNCHANGED <<inq, outq, bhmark, hb_count, chip, level, want, done>>

(* can_init_82c200, by CAN_SET_RESET or as promiscuous mode comes or goes: *)
(* in reset the chip gives up the frame it was sending and those it had    *)
(* received, and the pending interrupt is cleared ...                      *)
can_init_82c200(t) ==
    /\ TaskMayRun /\ tpc[t] = "user"
    /\ tpc' = [tpc EXCEPT ![t] = "init"]
    /\ run' = t
    /\ xmitAvail' = TRUE /\ rxbuf' = <<>> /\ irqpend' = FALSE
    /\ inReset' = TRUE /\ cutOff' = TRUE
    /\ UNCHANGED <<inq, outq, fdq, bhmark, hb_count, rxn, level, want, done>>

(* ... until the control register is set again.  Interrupts are not off:   *)
(* bottom halves run in between.                                           *)
can_init_82c200_end(t) ==
    /\ Runs("task") /\ run = t /\ tpc[t] = "init"
    /\ tpc' = [tpc EXCEPT ![t] = "user"]
    /\ run' = "none"
    /\ inReset' = FALSE
    /\ UNCHANGED <<inq, outq, fdq, bhmark, hb_count, xmitAvail, rxbuf, rxn, irqpend,
                   cutOff, level, want, done>>

-----------------------------------------------------------------------------
XmitStep(l) == try_xmit_take(l) \/ try_xmit_copy(l) \/ try_xmit_done(l)
SendStep(l) == send_pkt_put(l) \/ send_pkt_copy(l) \/ send_pkt_mark(l) \/ XmitStep(l)

IrqStep == can_intr \/ can_intr_printed \/ try_recv \/ SendStep("irq") \/ can_intr_clear
BhStep == can_bh_get \/ deliver_pkt \/ bh_send_returns \/ SendStep("bh")
KernelStep(t) ==
    \/ run = t /\ SendStep("task")
    \/ write_send_returns(t) \/ sleep_on(t) \/ ring_to_user(t) \/ can_init_82c200_end(t)
    \/ t \in Writers /\ (can_write_zero(t) \/ user_to_outq_efault(t))
    \/ t \in Writers /\ \E p \in WritePkts : user_to_outq(t, p)
UserStep(t) ==
    \/ t \in Writers /\ \E n \in Counts : can_write(t, n)
    \/ t \in Readers /\ can_read(t)
    \/ can_init_82c200(t) \/ signal(t)

Next ==
    \/ ChipSent \/ \E p \in RxPkts : ChipReceives(p)
    \/ IrqStep \/ can_bh \/ canobj_send_heartbeat \/ BhStep
    \/ \E t \in Tasks : KernelStep(t) \/ UserStep(t)

Spec == Init /\ [][Next]_vars

(* The chip finishes what it transmits; a pending interrupt is taken and   *)
(* handled; a marked bottom half runs, and so does the heartbeat timer     *)
(* (do_bottom_half runs every one that is due, so neither can keep the     *)
(* other out for ever); a task in the kernel gets the processor again and  *)
(* again, since interrupts and heartbeats leave it time.                   *)
Fairness ==
    /\ WF_vars(ChipSent)
    /\ WF_vars(IrqStep)
    /\ WF_vars(BhStep) /\ SF_vars(can_bh) /\ SF_vars(canobj_send_heartbeat)
    /\ \A t \in Tasks : SF_vars(KernelStep(t))

FairSpec == Spec /\ Fairness

-----------------------------------------------------------------------------
(* Type correctness: no ring, and neither receive buffer, holds more than  *)
(* fits, on whatever level packets are put in.                             *)
TypeOK ==
    /\ inq \in Seq(Pkts) /\ Len(inq) <= QRoom
    /\ outq \in Seq(Pkts) /\ Len(outq) <= QRoom
    /\ \A r \in Readers : fdq[r] \in Seq(Pkts) /\ Len(fdq[r]) <= FdRoom
    /\ bhmark \in BOOLEAN /\ xmitAvail \in BOOLEAN /\ irqpend \in BOOLEAN
    /\ inReset \in BOOLEAN /\ cutOff \in BOOLEAN
    /\ hb_count \in 0 .. HB_IAM_FACTOR - 1
    /\ rxbuf \in Seq(Pkts) /\ Len(rxbuf) <= 2
    /\ run \in Tasks \cup {"none"}
    /\ \A t \in Tasks : tpc[t] \in {"user", "call", "init", "presleep", "asleep"}
    /\ \A l \in Levels : arg[l] \in Pkts \cup {NoPkt}

(* No packet is left in inq with nobody to take it out: can_bh is queued,  *)
(* or running, or the context that put the packet is about to queue it.    *)
InqAttended ==
    inq # <<>> =>
        \/ bhmark
        \/ \E l \in Levels : pc[l] = "s_mark"
        \/ pc["bh"] \in {"b_get", "b_deliver"} \/ cont = "req"

(* A try_xmit is under way, or about to begin behind queue_task. *)
Transmits(l) ==
    \/ pc[l] \in {"s_copy", "x_take", "x_copy"}
    \/ pc[l] = "s_mark" /\ ~IS_MYPACKET(arg[l])

(* With outq full nothing but an interrupt starts the transmitter, and the *)
(* one that was to come was cleared unhandled: by a reset of the chip, or  *)
(* by the last read of a can_intr behind whose tests a frame was finished. *)
Silenced ==
    /\ cutOff /\ xmitAvail /\ ~HasRoom(outq) /\ ~irqpend
    /\ \A l \in Levels : ~Transmits(l)

(* A sleeping writer is woken, if not by the interrupt it missed then by   *)
(* the try_xmit of a later heartbeat; unless the chip is silenced.         *)
WriterWakes == \A w \in Writers : tpc[w] = "asleep" ~> (tpc[w] # "asleep" \/ Silenced)

(* An idle transmitter does not stay idle while packets wait in outq, with *)
(* the same exception: when can_intr clears an event it has not seen       *)
(* (can_main.c:576-579), the next send_pkt makes up for it.                *)
XmitProgress ==
    (outq # <<>> /\ xmitAvail) ~> (outq = <<>> \/ ~xmitAvail \/ Silenced)

(* A packet in the receive buffers is taken by the interrupt handler; when *)
(* it came behind try_recv of one, by the next, which a heartbeat brings   *)
(* about (can_main.c:576-579, can_obj.c:349-377), unless silenced.         *)
RecvProgress == rxbuf # <<>> ~> (rxbuf = <<>> \/ Silenced)

(* can_main.c: can_init_82c200 can be called "to clear a hung chip": after *)
(* it, too, what waits in outq gets its turn.                              *)
XmitResumes == (outq # <<>> /\ xmitAvail) ~> (outq = <<>> \/ ~xmitAvail)

(* report.tex: "Read() returns all packets received": a read() on a file   *)
(* whose ring holds a packet returns.                                      *)
ReadReturns ==
    \A r \in Readers : (tpc[r] # "user" /\ fdq[r] # <<>>) ~> tpc[r] = "user"

=============================================================================
