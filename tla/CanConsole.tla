----------------------------- MODULE CanConsole -----------------------------
(***************************************************************************)
(* The output side of the CAN console (kernel/drivers/meiko/can_console.c):*)
(* characters from printk and from /dev/cancon collect in cancon_outbuf    *)
(* and leave it a few at a time, in packets of which at most one is to be  *)
(* unacknowledged; cancon_ack_pending and ack_timer keep track of that one.*)
(*                                                                         *)
(* One processor: the bottom half (packets for canobj, timers) runs on top *)
(* of a task, a printk of any context on top of both.  What the code does  *)
(* between spin_lock_irqsave and spin_unlock_irqrestore is one step, and   *)
(* so is a printk, which holds console_lock; everything else interleaves.  *)
(*                                                                         *)
(* Characters are counted, not told apart.  Of the packets sent, the last  *)
(* is told from all earlier ones; that is what an ACK or the expiry of the *)
(* timer may be about, and what the code does not record.                  *)
(***************************************************************************)
EXTENDS Integers

CONSTANTS
    OutRoom,        \* characters that fit cancon_outbuf
    PktChars,       \* characters that fit a packet
    MsgChars,       \* characters of a printk message
    WriteChars,     \* how many characters a write() of the tty may have
    MaxOld,         \* bound on the ACKs under way for earlier packets
    LateAcks        \* whether an ACK may arrive after its timeout

ASSUME SizesAssumption ==
    /\ OutRoom \in Nat \ {0} /\ PktChars \in Nat \ {0} /\ MsgChars \in Nat \ {0}
    /\ WriteChars \subseteq Nat \ {0} /\ MaxOld \in Nat
ASSUME FlagsAssumption == LateAcks \in BOOLEAN

VARIABLES
    connected,          \* 0 when CANCON_UNCONNECTED(cancon_rmt), else 1
    out,                \* characters in cancon_outbuf
    cancon_ack_pending,
    ack_timer,          \* "off", or armed since the last packet was sent ("cur")
                        \* or since before that ("old")
    pc,                 \* pc["task"], pc["bh"]: where the two contexts are
    todo, i,            \* cantty_write: characters left; 1 if any was taken
    woken,              \* write_wait was woken since the task's last attempt
    stopped,            \* tty->stopped
    cur, old,           \* ACKs under way: 1 if for the last packet; for earlier ones
    sent,               \* flips with every packet sent
    resolved,           \* 1 when the last packet was ACKed or its time is up
    stranded            \* 1 when, since the last packet was sent, send_pkt found outq
                        \* full or copy_from_user failed

conVars == <<out, cancon_ack_pending, ack_timer>>
ttyVars == <<todo, i, woken, stopped>>
netVars == <<cur, old, sent, resolved, stranded>>
vars == <<connected, conVars, pc, ttyVars, netVars>>

Levels == {"task", "bh"}
Min2(a, b) == IF a < b THEN a ELSE b

Init ==
    /\ connected \in {0, 1}     \* cancon-host of the PROM, kept over a reboot
    /\ out = 0 /\ cancon_ack_pending = 0 /\ ack_timer = "off"
    /\ pc = [l \in Levels |-> "idle"]
    /\ todo = 0 /\ i = 0 /\ woken = 0 /\ stopped = 0
    /\ cur = 0 /\ old = 0 /\ sent = 0 /\ resolved = 1 /\ stranded = 0

Runs(l) == l = "task" => pc["bh"] = "idle"

Goto(l, where) == pc' = [pc EXCEPT ![l] = where]

(* The task returns from cantty_write to the tty layer, which is done, or  *)
(* tries again if write_wait was woken meanwhile, or else sleeps on it.    *)
AfterCall(l, wk) ==
    IF l = "bh" \/ todo = 0 THEN "idle" ELSE IF wk = 1 THEN "call" ELSE "asleep"

(* cantty_write_wakeup: where the task is once write_wait is woken. *)
cantty_write_wakeup_Nobody == pc        \* mutant: nobody is woken
cantty_write_wakeup == [pc EXCEPT !["task"] = IF @ = "asleep" THEN "call" ELSE @]

-----------------------------------------------------------------------------
(* char_to_ring n times, o characters being in the ring: what does not fit *)
(* is dropped.                                                             *)
Filled_Overrun(o, n) == o + n           \* mutant: RING_FULL is not tested
Filled(o, n) == Min2(o + n, OutRoom)

(* cancon_send_next with interrupts off, o characters being in the ring:   *)
(* nothing to do, a packet is sent, or send_pkt fails and drops one.       *)
MaySend(o) == cancon_ack_pending = 0 /\ o > 0

Rest(o) == o - Min2(o, PktChars)

(* The network (external) takes a packet: its ACK is under way.            *)
PacketSent ==
    /\ sent' = 1 - sent /\ resolved' = 0 /\ stranded' = 0
    /\ cur' = 1 /\ old' = Min2(old + cur, MaxOld)

NotSent(o) ==
    /\ \/ ~MaySend(o) /\ out' = o /\ UNCHANGED stranded
       \/ MaySend(o) /\ out' = Rest(o) /\ stranded' = 1
    /\ UNCHANGED <<cancon_ack_pending, cur, old, sent, resolved>>

Sent(o) ==
    /\ MaySend(o)
    /\ cancon_ack_pending' = 1
    /\ PacketSent

(* A timer armed for an earlier packet, once another one is sent. *)
Aged(t) == IF t = "cur" THEN "old" ELSE t

(* printk, of any context: cancon_printk_write puts a message in the ring  *)
(* and calls cancon_send_next.  add_timer does not move a timer that is    *)
(* armed already, but complains with a printk of its own.                  *)
PrintkWrite ==
    \/ connected = 0 /\ UNCHANGED <<conVars, netVars>>
    \/ connected = 1 /\ NotSent(Filled(out, MsgChars)) /\ UNCHANGED ack_timer
    \/ /\ connected = 1 /\ Sent(Filled(out, MsgChars))
       /\ LET rest == Rest(Filled(out, MsgChars))
          IN  IF ack_timer = "off" THEN out' = rest /\ ack_timer' = "cur"
              ELSE out' = Filled(rest, MsgChars) /\ ack_timer' = Aged(ack_timer)

(* ... which ends, if a packet was sent, with cantty_write_wakeup.         *)
WokenBy(step) ==
    IF step THEN woken' = 1 /\ pc' = cantty_write_wakeup ELSE UNCHANGED <<woken, pc>>

printk ==
    /\ connected = 1
    /\ PrintkWrite
    /\ WokenBy(sent' # sent)
    /\ UNCHANGED <<connected, todo, i, stopped>>

-----------------------------------------------------------------------------
(* cancon_send_next of a context that can be interrupted: the test of      *)
(* cancon_rmt, the locked region, add_timer and the wake-up.               *)
cancon_send_next(l) ==
    /\ Runs(l) /\ pc[l] = "send"
    /\ IF connected = 0 THEN out' = 0 /\ Goto(l, AfterCall(l, woken))
       ELSE Goto(l, "lock") /\ UNCHANGED out
    /\ UNCHANGED <<connected, cancon_ack_pending, ack_timer, ttyVars, netVars>>

cancon_send_next_locked(l) ==
    /\ Runs(l) /\ pc[l] = "lock"
    /\ \/ /\ NotSent(out)
          /\ Goto(l, AfterCall(l, woken))
          /\ UNCHANGED ack_timer
       \/ /\ Sent(out)
          /\ out' = Rest(out)
          /\ Goto(l, "add")
          /\ ack_timer' = Aged(ack_timer)
    /\ UNCHANGED <<connected, ttyVars>>

add_timer_Forgotten(l) ==                       \* mutant: it is not armed
    UNCHANGED <<conVars, netVars>>
add_timer(l) ==
    \/ ack_timer = "off" /\ ack_timer' = "cur"
       /\ UNCHANGED <<out, cancon_ack_pending, netVars>>
    \/ ack_timer # "off" /\ PrintkWrite

cancon_send_next_timer(l) ==
    /\ Runs(l) /\ pc[l] = "add"
    /\ add_timer(l)
    /\ pc' = [cantty_write_wakeup EXCEPT ![l] = AfterCall(l, 1)]
    /\ woken' = 1
    /\ UNCHANGED <<connected, todo, i, stopped>>

-----------------------------------------------------------------------------
(* cancon_recv_ack, begun by the timer: it is detached before it is called. *)
Timeout ==
    /\ pc["bh"] = "idle" /\ ack_timer # "off"
    /\ LateAcks \/ (IF ack_timer = "cur" THEN cur = 0 ELSE old = 0)
    /\ ack_timer' = "off"
    /\ resolved' = IF ack_timer = "cur" THEN 1 ELSE resolved
    /\ Goto("bh", "timeout")
    /\ UNCHANGED <<connected, out, cancon_ack_pending, ttyVars, cur, old, sent, stranded>>

(* ... or by an ACK for the console object, which is not told from an ACK  *)
(* of an earlier packet: del_timer.  Without a connection it is ignored.   *)
RecvAck ==
    /\ pc["bh"] = "idle"
    /\ \/ cur = 1 /\ cur' = 0 /\ UNCHANGED old
       \/ old > 0 /\ old' = old - 1 /\ UNCHANGED cur
    /\ IF connected = 1
       THEN /\ ack_timer' = "off"
            /\ resolved' = IF cur' # cur THEN 1 ELSE resolved
            /\ Goto("bh", "ack")
       ELSE UNCHANGED <<ack_timer, resolved, pc>>
    /\ UNCHANGED <<connected, out, cancon_ack_pending, ttyVars, sent, stranded>>

(* Packets and their ACKs get lost (external). *)
AckLost ==
    /\ \/ cur = 1 /\ cur' = 0 /\ UNCHANGED old
       \/ old > 0 /\ old' = old - 1 /\ UNCHANGED cur
    /\ UNCHANGED <<connected, conVars, pc, ttyVars, sent, resolved, stranded>>

(* ... goes on: the flag is cleared; an unexpected ACK or a timeout is     *)
(* reported; the next packet is sent.                                      *)
AfterAck_Return(complain) == "idle"             \* mutant: nothing more is sent
AfterAck(complain) == IF complain THEN "msg" ELSE "send"

cancon_recv_ack ==
    /\ pc["bh"] \in {"ack", "timeout"}
    /\ cancon_ack_pending' = 0
    /\ Goto("bh", AfterAck(cancon_ack_pending = 0 \/ pc["bh"] = "timeout"))
    /\ UNCHANGED <<connected, out, ack_timer, ttyVars, netVars>>

cancon_recv_ack_printk ==
    /\ pc["bh"] = "msg"
    /\ PrintkWrite
    /\ woken' = IF sent' # sent THEN 1 ELSE woken
    /\ pc' = [(IF sent' # sent THEN cantty_write_wakeup ELSE pc) EXCEPT !["bh"] = "send"]
    /\ UNCHANGED <<connected, todo, i, stopped>>

-----------------------------------------------------------------------------
(* The tty driver.  write() of the tty layer (external) calls cantty_write *)
(* until all is written, with the task already on write_wait.              *)
tty_write(n) ==
    /\ Runs("task") /\ pc["task"] = "idle"
    /\ todo' = n
    /\ Goto("task", "call")
    /\ UNCHANGED <<connected, conVars, i, woken, stopped, netVars>>

cantty_write ==
    /\ Runs("task") /\ pc["task"] = "call"
    /\ woken' = 0 /\ i' = 0
    /\ \/ connected = 0 /\ todo' = 0 /\ Goto("task", "idle")
       \/ connected = 1 /\ stopped = 1 /\ Goto("task", "asleep") /\ UNCHANGED todo
       \/ connected = 1 /\ stopped = 0 /\ Goto("task", "put") /\ UNCHANGED todo
    /\ UNCHANGED <<connected, conVars, stopped, netVars>>

cantty_write_char ==
    /\ Runs("task") /\ pc["task"] = "put"
    /\ todo > 0 /\ out < OutRoom
    /\ out' = out + 1 /\ todo' = todo - 1 /\ i' = 1
    /\ UNCHANGED <<connected, cancon_ack_pending, ack_timer, pc, woken, stopped, netVars>>

cantty_write_end ==
    /\ Runs("task") /\ pc["task"] = "put"
    /\ todo = 0 \/ out = OutRoom
    /\ Goto("task", IF i = 1 THEN "send" ELSE AfterCall("task", woken))
    /\ i' = 0
    /\ UNCHANGED <<connected, conVars, todo, woken, stopped, netVars>>

(* i = -EFAULT: what was put in the ring stays there unsent. *)
cantty_write_efault ==
    /\ Runs("task") /\ pc["task"] = "put" /\ todo > 0
    /\ Goto("task", "idle") /\ todo' = 0 /\ i' = 0
    /\ stranded' = 1
    /\ UNCHANGED <<connected, conVars, woken, stopped, cur, old, sent, resolved>>

(* Also called on the bottom half level, for the echo of what is received. *)
cantty_put_char(l) ==
    /\ Runs(l) /\ pc[l] = "idle"
    /\ out' = Filled(out, 1)
    /\ Goto(l, "send")
    /\ UNCHANGED <<connected, cancon_ack_pending, ack_timer, ttyVars, netVars>>

cantty_flush_buffer ==
    /\ Runs("task") /\ pc["task"] \in {"idle", "asleep", "put"}
    /\ out' = 0
    /\ WokenBy(TRUE)
    /\ UNCHANGED <<connected, cancon_ack_pending, ack_timer, todo, i, stopped, netVars>>

(* ^S and ^Q (external); start_tty wakes the writer. *)
tty_stop_start ==
    /\ Runs("task")
    /\ stopped' = 1 - stopped
    /\ WokenBy(stopped = 1)
    /\ UNCHANGED <<connected, conVars, todo, i, netVars>>

(* canobj_connect of a free console, canobj_disconnect with cantty_hangup, *)
(* which ends a sleeping writer's call.                                    *)
cancon_setcon ==
    /\ pc["bh"] = "idle"
    /\ connected' = 1 - connected
    /\ IF connected = 1
       THEN /\ out' = 0
            /\ woken' = 1
            /\ todo' = IF pc["task"] = "asleep" THEN 0 ELSE todo
            /\ pc' = [pc EXCEPT !["task"] = IF @ = "asleep" THEN "idle" ELSE @]
       ELSE UNCHANGED <<out, woken, todo, pc>>
    /\ UNCHANGED <<cancon_ack_pending, ack_timer, i, stopped, netVars>>

-----------------------------------------------------------------------------
SendStep(l) ==
    cancon_send_next(l) \/ cancon_send_next_locked(l) \/ cancon_send_next_timer(l)
BhStep == SendStep("bh") \/ cancon_recv_ack \/ cancon_recv_ack_printk
TaskStep ==
    \/ SendStep("task") \/ cantty_write \/ cantty_write_char
    \/ cantty_write_end \/ cantty_write_efault

Next ==
    \/ printk
    \/ BhStep \/ Timeout \/ RecvAck \/ AckLost \/ cancon_setcon
    \/ TaskStep \/ \E n \in WriteChars : tty_write(n)
    \/ \E l \in Levels : cantty_put_char(l)
    \/ cantty_flush_buffer \/ tty_stop_start

Spec == Init /\ [][Next]_vars

(* A bottom half that has begun is completed; an armed timer expires, if   *)
(* not stopped before; a task in the kernel gets the processor again and   *)
(* again.  No ACK, printk or write need ever happen.                       *)
Fairness == WF_vars(BhStep) /\ SF_vars(Timeout) /\ SF_vars(TaskStep)
FairSpec == Spec /\ Fairness

-----------------------------------------------------------------------------
(* Type correctness; out never exceeds the ring. *)
TypeOK ==
    /\ connected \in {0, 1} /\ stopped \in {0, 1}
    /\ out \in 0 .. OutRoom
    /\ cancon_ack_pending \in {0, 1} /\ ack_timer \in {"off", "cur", "old"}
    /\ pc \in [Levels -> {"idle", "send", "lock", "add", "call", "put", "asleep",
                          "ack", "timeout", "msg"}]
    /\ todo \in Nat /\ i \in {0, 1} /\ woken \in {0, 1}
    /\ cur \in {0, 1} /\ old \in 0 .. MaxOld
    /\ sent \in {0, 1} /\ resolved \in {0, 1} /\ stranded \in {0, 1}

(* While a packet is pending its timer is armed, or the context that sent  *)
(* it is about to arm it, or the flag is about to be cleared: a lost ACK   *)
(* never leaves cancon_ack_pending set for good, whatever interleaves with *)
(* the gap between the unlock and add_timer in cancon_send_next.           *)
PendingHasTimer ==
    cancon_ack_pending = 1 =>
        \/ ack_timer # "off"
        \/ \E l \in Levels : pc[l] = "add"
        \/ pc["bh"] \in {"ack", "timeout"}

(* Characters in the ring are attended to: a packet is pending, whose ACK  *)
(* or timeout sends the next, or some context is about to send; or a       *)
(* send_pkt or a copy_from_user has failed since the last packet.          *)
Attended ==
    \/ cancon_ack_pending = 1
    \/ pc["task"] \in {"send", "lock"} \/ (pc["task"] = "put" /\ i = 1)
    \/ pc["bh"] \in {"ack", "timeout", "msg", "send", "lock"}

OutbufAttended == out > 0 /\ stranded = 0 => Attended

(* The same without the exception: a packet that outq has no room for is   *)
(* not only dropped itself (can_console.c:188-193), what is behind it      *)
(* waits for the next character.                                           *)
AlwaysAttended == out > 0 => Attended

(* A pending packet does not stay pending: the console cannot hang for a   *)
(* peer that never answers.                                                *)
PendingEnds == cancon_ack_pending = 1 ~> cancon_ack_pending = 0

(* A writer that sleeps because the ring is full is woken, if the tty is   *)
(* not stopped and sending does not fail.                                  *)
WriterWakes ==
    pc["task"] = "asleep" ~> (pc["task"] # "asleep" \/ stopped = 1 \/ stranded = 1)

(* The header comment: a packet "must be ACKed (or CONSOBJ_ACK_TIMEOUT     *)
(* jiffies must pass) before another character is sent".                   *)
AckOrTimeout == [][sent' # sent => resolved = 1]_vars

=============================================================================
