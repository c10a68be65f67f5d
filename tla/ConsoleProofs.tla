--------------------------- MODULE ConsoleProofs ---------------------------
(***************************************************************************)
(* Proofs about the CAN console: its output (CanConsole), for every size   *)
(* of the ring, the packets, the messages and the writes; and what is      *)
(* typed at cancon and received by the node's tty (ConsoleInput), for      *)
(* every size of the buffers and packets, number of tries and network.     *)
(***************************************************************************)
EXTENDS CanConsole, ConsoleInput, SequenceTheorems, FunctionTheorems, FiniteSetTheorems, TLAPS

(* What char_to_ring leaves in the ring fits, and is not nothing if        *)
(* something was put.                                                      *)
LEMMA FilledType ==
    ASSUME NEW o \in 0 .. OutRoom, NEW n \in Nat \ {0}
    PROVE  Filled(o, n) \in 0 .. OutRoom /\ Filled(o, n) > 0
BY SizesAssumption DEF Filled, Min2

(* A packet takes characters out of the ring, never more than are there. *)
LEMMA RestType ==
    ASSUME NEW o \in 0 .. OutRoom
    PROVE  Rest(o) \in 0 .. OutRoom
BY SizesAssumption DEF Rest, Min2

(* The part of cancon_send_next under the lock, for any ring content. *)
LEMMA SendTypes ==
    ASSUME TypeOK, NEW o \in 0 .. OutRoom
    PROVE  /\ NotSent(o) =>
                /\ out' \in 0 .. OutRoom /\ cancon_ack_pending' = cancon_ack_pending
                /\ cur' \in {0, 1} /\ old' \in 0 .. MaxOld
                /\ sent' \in {0, 1} /\ resolved' \in {0, 1} /\ stranded' \in {0, 1}
           /\ Sent(o) =>
                /\ cancon_ack_pending' = 1
                /\ cur' \in {0, 1} /\ old' \in 0 .. MaxOld
                /\ sent' \in {0, 1} /\ resolved' \in {0, 1} /\ stranded' \in {0, 1}
BY RestType, SizesAssumption DEF NotSent, Sent, PacketSent, netVars, TypeOK, Min2

(* A printk, of whatever context: types, and that it arms the timer if it  *)
(* sends.                                                                  *)
LEMMA PrintkFacts ==
    ASSUME TypeOK, PrintkWrite
    PROVE  /\ out' \in 0 .. OutRoom
           /\ cancon_ack_pending' \in {0, 1} /\ ack_timer' \in {"off", "cur", "old"}
           /\ cur' \in {0, 1} /\ old' \in 0 .. MaxOld
           /\ sent' \in {0, 1} /\ resolved' \in {0, 1} /\ stranded' \in {0, 1}
           /\ ack_timer # "off" => ack_timer' # "off"
           /\ cancon_ack_pending' = cancon_ack_pending \/ ack_timer' # "off"
<1> DEFINE o == Filled(out, MsgChars)
<1>1. o \in 0 .. OutRoom
  BY FilledType, SizesAssumption DEF TypeOK
<1>2. Rest(o) \in 0 .. OutRoom /\ Filled(Rest(o), MsgChars) \in 0 .. OutRoom
  BY <1>1, RestType, FilledType, SizesAssumption
<1>3. CASE connected = 0 /\ UNCHANGED <<conVars, netVars>>
  BY <1>3 DEF conVars, netVars, TypeOK
<1>4. CASE connected = 1 /\ NotSent(o) /\ UNCHANGED ack_timer
  BY <1>1, <1>4, SendTypes DEF TypeOK
<1>5. ASSUME Sent(o),
             IF ack_timer = "off" THEN out' = Rest(o) /\ ack_timer' = "cur"
             ELSE out' = Filled(Rest(o), MsgChars) /\ ack_timer' = Aged(ack_timer)
      PROVE  /\ out' \in 0 .. OutRoom
             /\ cancon_ack_pending' \in {0, 1} /\ ack_timer' \in {"off", "cur", "old"}
             /\ cur' \in {0, 1} /\ old' \in 0 .. MaxOld
             /\ sent' \in {0, 1} /\ resolved' \in {0, 1} /\ stranded' \in {0, 1}
             /\ ack_timer # "off" => ack_timer' # "off"
             /\ cancon_ack_pending' = cancon_ack_pending \/ ack_timer' # "off"
  <2>1. cancon_ack_pending' = 1 /\ cur' \in {0, 1} /\ old' \in 0 .. MaxOld
        /\ sent' \in {0, 1} /\ resolved' \in {0, 1} /\ stranded' \in {0, 1}
    BY <1>1, <1>5, SendTypes
  <2>2. out' \in 0 .. OutRoom /\ ack_timer' # "off" /\ ack_timer' \in {"off", "cur", "old"}
    BY <1>2, <1>5 DEF Aged, TypeOK
  <2> QED
    BY <2>1, <2>2
<1> QED
  BY <1>3, <1>4, <1>5 DEF PrintkWrite

(* The inductive invariant: types and PendingHasTimer. *)
PendingInv == TypeOK /\ PendingHasTimer

(* Every step preserves it: whoever clears the timer is about to clear the *)
(* flag, whoever sets the flag is about to arm the timer.                  *)
LEMMA PendingStep == PendingInv /\ [Next]_vars => PendingInv'
<1> SUFFICES ASSUME PendingInv, [Next]_vars PROVE PendingInv'
  OBVIOUS
<1> USE DEF PendingInv
<1>t. TypeOK
  OBVIOUS
<1>f. \A x \in 0 .. OutRoom, n \in Nat \ {0} : Filled(x, n) \in 0 .. OutRoom
  BY FilledType
<1>r. \A x \in 0 .. OutRoom : Rest(x) \in 0 .. OutRoom
  BY RestType
<1>1. CASE printk
  <2>1. UNCHANGED <<connected, todo, i, stopped>> /\ WokenBy(sent' # sent)
    BY <1>1 DEF printk
  <2>2. PrintkWrite
    BY <1>1 DEF printk
  <2>3. /\ out' \in 0 .. OutRoom
        /\ cancon_ack_pending' \in {0, 1} /\ ack_timer' \in {"off", "cur", "old"}
        /\ cur' \in {0, 1} /\ old' \in 0 .. MaxOld
        /\ sent' \in {0, 1} /\ resolved' \in {0, 1} /\ stranded' \in {0, 1}
        /\ ack_timer # "off" => ack_timer' # "off"
        /\ cancon_ack_pending' = cancon_ack_pending \/ ack_timer' # "off"
    BY <2>2, PrintkFacts
  <2> QED
    BY <2>1, <2>3 DEF TypeOK, PendingHasTimer, WokenBy, cantty_write_wakeup, Levels
<1>2. ASSUME NEW l \in Levels, SendStep(l) PROVE PendingInv'
  <2>1. CASE cancon_send_next(l)
    BY <2>1, <1>2, SizesAssumption
    DEF cancon_send_next, TypeOK, PendingHasTimer, Goto, AfterCall, Levels, ttyVars, netVars
  <2>2. CASE cancon_send_next_locked(l)
    <3>1. CASE NotSent(out) /\ Goto(l, AfterCall(l, woken)) /\ UNCHANGED ack_timer
      <4>1. /\ out' \in 0 .. OutRoom /\ cancon_ack_pending' = cancon_ack_pending
            /\ cur' \in {0, 1} /\ old' \in 0 .. MaxOld
            /\ sent' \in {0, 1} /\ resolved' \in {0, 1} /\ stranded' \in {0, 1}
        BY <3>1, SendTypes DEF TypeOK
      <4>2. UNCHANGED <<connected, ttyVars, ack_timer>> /\ pc[l] = "lock"
        BY <2>2, <3>1 DEF cancon_send_next_locked
      <4> QED
        BY <1>2, <3>1, <4>1, <4>2 DEF TypeOK, PendingHasTimer, Goto, AfterCall, Levels, ttyVars
    <3>2. CASE Sent(out) /\ out' = Rest(out) /\ Goto(l, "add") /\ ack_timer' = Aged(ack_timer)
      <4>1. /\ cancon_ack_pending' = 1
            /\ cur' \in {0, 1} /\ old' \in 0 .. MaxOld
            /\ sent' \in {0, 1} /\ resolved' \in {0, 1} /\ stranded' \in {0, 1}
        BY <3>2, SendTypes DEF TypeOK
      <4>2. UNCHANGED <<connected, ttyVars>> /\ out' \in 0 .. OutRoom
        BY <2>2, <3>2, <1>r DEF cancon_send_next_locked, TypeOK
      <4> QED
        BY <1>2, <3>2, <4>1, <4>2 DEF TypeOK, PendingHasTimer, Goto, Aged, Levels, ttyVars
    <3> QED
      BY <2>2, <3>1, <3>2 DEF cancon_send_next_locked
  <2>3. CASE cancon_send_next_timer(l)
    <3>1. /\ out' \in 0 .. OutRoom
          /\ cancon_ack_pending' \in {0, 1} /\ ack_timer' \in {"cur", "old"}
          /\ cur' \in {0, 1} /\ old' \in 0 .. MaxOld
          /\ sent' \in {0, 1} /\ resolved' \in {0, 1} /\ stranded' \in {0, 1}
      <4>1. CASE ack_timer = "off" /\ ack_timer' = "cur"
                 /\ UNCHANGED <<out, cancon_ack_pending, netVars>>
        BY <4>1 DEF TypeOK, netVars
      <4>2. CASE ack_timer # "off" /\ PrintkWrite
        BY <4>2, PrintkFacts
      <4> QED
        BY <2>3, <4>1, <4>2 DEF cancon_send_next_timer, add_timer
    <3>2. UNCHANGED <<connected, todo, i, stopped>> /\ woken' = 1
          /\ pc' = [cantty_write_wakeup EXCEPT ![l] = AfterCall(l, 1)]
      BY <2>3 DEF cancon_send_next_timer
    <3> QED
      BY <1>2, <3>1, <3>2 DEF TypeOK, PendingHasTimer, AfterCall, cantty_write_wakeup, Levels
  <2> QED
    BY <1>2, <2>1, <2>2, <2>3 DEF SendStep
<1>3. CASE cancon_recv_ack
  BY <1>3 DEF cancon_recv_ack, TypeOK, PendingHasTimer, Goto, AfterAck, Levels, ttyVars, netVars
<1>4. CASE cancon_recv_ack_printk
  <2>1. UNCHANGED <<connected, todo, i, stopped>>
        /\ woken' = (IF sent' # sent THEN 1 ELSE woken)
        /\ pc' = [(IF sent' # sent THEN cantty_write_wakeup ELSE pc) EXCEPT !["bh"] = "send"]
        /\ pc["bh"] = "msg"
    BY <1>4 DEF cancon_recv_ack_printk
  <2>2. PrintkWrite
    BY <1>4 DEF cancon_recv_ack_printk
  <2>3. /\ out' \in 0 .. OutRoom
        /\ cancon_ack_pending' \in {0, 1} /\ ack_timer' \in {"off", "cur", "old"}
        /\ cur' \in {0, 1} /\ old' \in 0 .. MaxOld
        /\ sent' \in {0, 1} /\ resolved' \in {0, 1} /\ stranded' \in {0, 1}
        /\ ack_timer # "off" => ack_timer' # "off"
        /\ cancon_ack_pending' = cancon_ack_pending \/ ack_timer' # "off"
    BY <2>2, PrintkFacts
  <2> QED
    BY <2>1, <2>3 DEF TypeOK, PendingHasTimer, cantty_write_wakeup, Levels
<1>5. CASE Timeout
  BY <1>5 DEF Timeout, TypeOK, PendingHasTimer, Goto, Levels, ttyVars
<1>6. CASE RecvAck
  BY <1>6, SizesAssumption DEF RecvAck, TypeOK, PendingHasTimer, Goto, Levels, ttyVars
<1>7. CASE AckLost
  BY <1>7, SizesAssumption DEF AckLost, TypeOK, PendingHasTimer, Levels, ttyVars, conVars
<1>8. CASE cancon_setcon
  BY <1>8, SizesAssumption DEF cancon_setcon, TypeOK, PendingHasTimer, Levels, netVars
<1>9. ASSUME NEW n \in WriteChars, tty_write(n) PROVE PendingInv'
  BY <1>9, SizesAssumption
  DEF tty_write, TypeOK, PendingHasTimer, Goto, Levels, conVars, netVars
<1>10. CASE cantty_write
  BY <1>10 DEF cantty_write, TypeOK, PendingHasTimer, Goto, Levels, conVars, netVars
<1>11. CASE cantty_write_char
  BY <1>11, SizesAssumption DEF cantty_write_char, TypeOK, PendingHasTimer, Levels, netVars
<1>12. CASE cantty_write_end
  BY <1>12
  DEF cantty_write_end, TypeOK, PendingHasTimer, Goto, AfterCall, Levels, conVars, netVars
<1>13. CASE cantty_write_efault
  BY <1>13 DEF cantty_write_efault, TypeOK, PendingHasTimer, Goto, Levels, conVars, netVars
<1>14. ASSUME NEW l \in Levels, cantty_put_char(l) PROVE PendingInv'
  BY <1>14, <1>f DEF cantty_put_char, TypeOK, PendingHasTimer, Goto, Levels, ttyVars, netVars
<1>15. CASE cantty_flush_buffer
  BY <1>15, SizesAssumption
  DEF cantty_flush_buffer, TypeOK, PendingHasTimer, WokenBy, cantty_write_wakeup, Levels, netVars
<1>16. CASE tty_stop_start
  BY <1>16
  DEF tty_stop_start, TypeOK, PendingHasTimer, WokenBy, cantty_write_wakeup, Levels,
      conVars, netVars
<1>17. CASE UNCHANGED vars
  BY <1>17 DEF vars, TypeOK, PendingHasTimer, conVars, ttyVars, netVars
<1> QED
  BY <1>1, <1>2, <1>3, <1>4, <1>5, <1>6, <1>7, <1>8, <1>9, <1>10, <1>11, <1>12, <1>13,
     <1>14, <1>15, <1>16, <1>17
  DEF Next, BhStep, TaskStep, Levels

(* It holds when the module is loaded. *)
LEMMA PendingInit == Init => PendingInv
BY SizesAssumption DEF Init, PendingInv, TypeOK, PendingHasTimer, Levels

(* The console cannot hang on a lost ACK: whatever contexts interleave and *)
(* whichever sends fail, cancon_ack_pending is never set without an armed  *)
(* ack_timer or a context that is about to arm it or to clear the flag.    *)
THEOREM PendingTimed == Spec => [](TypeOK /\ PendingHasTimer)
<1>1. PendingInv => TypeOK /\ PendingHasTimer
  BY DEF PendingInv
<1> QED
  BY PendingInit, PendingStep, <1>1, PTL DEF Spec

(* The ring never holds more than it has room for, and the flags and the   *)
(* timer stay in their ranges, whichever contexts interleave.              *)
THEOREM ConsoleTyped == Spec => []TypeOK
BY PendingTimed, PTL

(* A printk leaves a packet pending, if it leaves characters at all and    *)
(* send_pkt does not fail.                                                 *)
LEMMA PrintkAttends ==
    ASSUME TypeOK, PrintkWrite, stranded' = 0
    PROVE  /\ cancon_ack_pending = 1 => cancon_ack_pending' = 1
           /\ (out' = out /\ stranded = 0) \/ cancon_ack_pending' = 1
<1>1. Filled(out, MsgChars) > 0
  BY FilledType, SizesAssumption DEF TypeOK
<1> QED
  BY <1>1 DEF PrintkWrite, NotSent, Sent, MaySend, TypeOK, conVars, netVars

(* A step that does not fail leaves what is in the ring attended to, and   *)
(* only a packet that is sent makes up for failures.                       *)
LEMMA AttendedStep ==
    ASSUME TypeOK, OutbufAttended, [Next]_vars
    PROVE  OutbufAttended'
<1> SUFFICES ASSUME stranded' = 0 PROVE OutbufAttended'
  BY DEF OutbufAttended
<1> USE DEF OutbufAttended, Attended, Levels
<1>1. CASE printk
  <2>1. PrintkWrite /\ WokenBy(sent' # sent) /\ UNCHANGED i
    BY <1>1 DEF printk
  <2>2. /\ cancon_ack_pending = 1 => cancon_ack_pending' = 1
        /\ (out' = out /\ stranded = 0) \/ cancon_ack_pending' = 1
    BY <2>1, PrintkAttends
  <2> QED
    BY <2>1, <2>2 DEF WokenBy, cantty_write_wakeup, TypeOK
<1>2. ASSUME NEW l \in Levels, SendStep(l) PROVE OutbufAttended'
  <2>1. CASE cancon_send_next(l)
    BY <1>2, <2>1 DEF cancon_send_next, Goto, AfterCall, TypeOK, Runs, ttyVars, netVars
  <2>2. CASE cancon_send_next_locked(l)
    <3>1. CASE NotSent(out)
      <4>1. out' = out /\ UNCHANGED cancon_ack_pending
            /\ (cancon_ack_pending = 1 \/ out = 0)
        BY <3>1 DEF NotSent, MaySend, TypeOK
      <4> QED
        BY <4>1
    <3>2. CASE Sent(out)
      BY <3>2 DEF Sent
    <3> QED
      BY <2>2, <3>1, <3>2 DEF cancon_send_next_locked
  <2>3. CASE cancon_send_next_timer(l)
    <3>1. /\ cancon_ack_pending = 1 => cancon_ack_pending' = 1
          /\ (out' = out /\ stranded = 0) \/ cancon_ack_pending' = 1
      BY <2>3, PrintkAttends DEF cancon_send_next_timer, add_timer, TypeOK, netVars
    <3>2. /\ pc' = [cantty_write_wakeup EXCEPT ![l] = AfterCall(l, 1)]
          /\ pc[l] = "add" /\ Runs(l) /\ UNCHANGED i
      BY <2>3 DEF cancon_send_next_timer
    <3> QED
      BY <1>2, <3>1, <3>2 DEF cantty_write_wakeup, AfterCall, TypeOK, Runs
  <2> QED
    BY <1>2, <2>1, <2>2, <2>3 DEF SendStep
<1>3. CASE cancon_recv_ack
  BY <1>3 DEF cancon_recv_ack, Goto, netVars, AfterAck, TypeOK
<1>4. CASE cancon_recv_ack_printk
  BY <1>4 DEF cancon_recv_ack_printk, cantty_write_wakeup, TypeOK
<1>5. CASE Timeout
  BY <1>5 DEF Timeout, Goto, TypeOK
<1>6. CASE RecvAck
  BY <1>6 DEF RecvAck, Goto, TypeOK, ttyVars
<1>7. CASE AckLost
  BY <1>7 DEF AckLost, conVars, ttyVars
<1>8. CASE cancon_setcon
  BY <1>8 DEF cancon_setcon, netVars, TypeOK
<1>9. ASSUME NEW n \in WriteChars, tty_write(n) PROVE OutbufAttended'
  BY <1>9 DEF tty_write, Goto, netVars, conVars, TypeOK
<1>10. CASE cantty_write
  BY <1>10 DEF cantty_write, Goto, netVars, conVars, TypeOK
<1>11. CASE cantty_write_char
  BY <1>11 DEF cantty_write_char, netVars
<1>12. CASE cantty_write_end
  BY <1>12 DEF cantty_write_end, Goto, netVars, conVars, TypeOK, AfterCall
<1>13. CASE cantty_write_efault
  BY <1>13 DEF cantty_write_efault
<1>14. ASSUME NEW l \in Levels, cantty_put_char(l) PROVE OutbufAttended'
  BY <1>14 DEF cantty_put_char, Goto, netVars, TypeOK
<1>15. CASE cantty_flush_buffer
  BY <1>15 DEF cantty_flush_buffer, netVars
<1>16. CASE tty_stop_start
  BY <1>16 DEF tty_stop_start, WokenBy, netVars, cantty_write_wakeup, conVars, TypeOK
<1>17. CASE UNCHANGED vars
  BY <1>17 DEF vars, conVars, ttyVars, netVars
<1> QED
  BY <1>1, <1>2, <1>3, <1>4, <1>5, <1>6, <1>7, <1>8, <1>9, <1>10, <1>11, <1>12, <1>13,
     <1>14, <1>15, <1>16, <1>17
  DEF Next, BhStep, TaskStep

(* Unless send_pkt or copy_from_user has failed since the last packet was  *)
(* sent, no character stays in cancon_outbuf with nobody to send it: a     *)
(* packet is pending, whose ACK or timeout calls cancon_send_next, or some *)
(* context is about to call it.                                            *)
THEOREM OutputAttended == Spec => []OutbufAttended
<1>1. Init => OutbufAttended
  BY DEF Init, OutbufAttended
<1>2. TypeOK /\ OutbufAttended /\ [Next]_vars => OutbufAttended'
  BY AttendedStep
<1>3. Spec => []TypeOK
  BY PendingTimed, PTL
<1> QED
  BY <1>1, <1>2, <1>3, PTL DEF Spec

-----------------------------------------------------------------------------
(* The parts of an ascending sequence are ascending, one before the other. *)
LEMMA AscendingConcat ==
    ASSUME NEW s \in Seq(Nat), NEW u \in Seq(Nat)
    PROVE  Ascending(s \o u) <=> Ascending(s) /\ Ascending(u) /\ Before(s, u)
<1> DEFINE w == s \o u
<1>1. /\ w \in Seq(Nat) /\ Len(w) = Len(s) + Len(u) /\ Len(s) \in Nat /\ Len(u) \in Nat
      /\ DOMAIN w = 1 .. Len(w) /\ DOMAIN s = 1 .. Len(s) /\ DOMAIN u = 1 .. Len(u)
      /\ \A n \in 1 .. Len(s) : w[n] = s[n]
      /\ \A n \in 1 .. Len(u) : w[Len(s) + n] = u[n]
      /\ \A n \in 1 .. Len(w) : n > Len(s) => n - Len(s) \in 1 .. Len(u) /\ w[n] = u[n - Len(s)]
  BY ConcatProperties
<1> HIDE DEF w
<1>2. ASSUME Ascending(w) PROVE Ascending(s) /\ Ascending(u) /\ Before(s, u)
  <2>1. ASSUME NEW m \in 1 .. Len(u), NEW n \in 1 .. Len(u), m < n PROVE u[m] < u[n]
    <3>1. Len(s) + m \in 1 .. Len(w) /\ Len(s) + n \in 1 .. Len(w) /\ Len(s) + m < Len(s) + n
      BY <1>1, <2>1
    <3> QED BY <1>1, <1>2, <3>1 DEF Ascending
  <2>2. ASSUME NEW m \in 1 .. Len(s), NEW n \in 1 .. Len(u) PROVE s[m] < u[n]
    <3>1. m \in 1 .. Len(w) /\ Len(s) + n \in 1 .. Len(w) /\ m < Len(s) + n
      BY <1>1
    <3> QED BY <1>1, <1>2, <3>1 DEF Ascending
  <2>3. ASSUME NEW m \in 1 .. Len(s), NEW n \in 1 .. Len(s), m < n PROVE s[m] < s[n]
    <3>1. m \in 1 .. Len(w) /\ n \in 1 .. Len(w)
      BY <1>1
    <3> QED BY <1>1, <1>2, <2>3, <3>1 DEF Ascending
  <2> QED BY <1>1, <2>1, <2>2, <2>3 DEF Ascending, Before
<1>3. ASSUME Ascending(s), Ascending(u), Before(s, u) PROVE Ascending(w)
  <2> SUFFICES ASSUME NEW m \in 1 .. Len(w), NEW n \in 1 .. Len(w), m < n PROVE w[m] < w[n]
    BY <1>1 DEF Ascending
  <2>1. CASE n <= Len(s)
    <3>1. m \in 1 .. Len(s) /\ n \in 1 .. Len(s)
      BY <1>1, <2>1
    <3> QED BY <1>1, <1>3, <3>1 DEF Ascending
  <2>2. CASE m <= Len(s) /\ n > Len(s)
    <3>1. m \in 1 .. Len(s)
      BY <1>1, <2>2
    <3> QED BY <1>1, <1>3, <2>2, <3>1 DEF Before
  <2>3. CASE m > Len(s)
    <3>1. n > Len(s) /\ m - Len(s) < n - Len(s)
      BY <1>1, <2>3
    <3> QED BY <1>1, <1>3, <2>3, <3>1 DEF Ascending
  <2> QED BY <1>1, <2>1, <2>2, <2>3
<1> QED BY <1>2, <1>3 DEF w

(* One sequence is before another if its characters are before the other's. *)
LEMMA BeforeRange ==
    ASSUME NEW s \in Seq(Nat), NEW u \in Seq(Nat)
    PROVE  Before(s, u) <=> \A j \in Range(s), k \in Range(u) : j < k
BY DEF Before, Range

(* Concatenation is associative. *)
LEMMA Associative == \A s, u, v \in Seq(Nat) : (s \o u) \o v = s \o (u \o v)
OBVIOUS

(* Concatenation with nothing. *)
LEMMA EmptyConcat == \A s \in Seq(Nat) : s \o <<>> = s /\ <<>> \o s = s /\ <<>> \in Seq(Nat)
OBVIOUS

(* What a concatenation is made of, and how long it is. *)
LEMMA ConcatType == \A s, u \in Seq(Nat) : s \o u \in Seq(Nat) /\ Len(s \o u) = Len(s) + Len(u)
OBVIOUS

(* The second part of a concatenation. *)
LEMMA JoinedIndex ==
    ASSUME NEW S, NEW s \in Seq(S), NEW u \in Seq(S)
    PROVE  \A n \in 1 .. Len(u) : (s \o u)[Len(s) + n] = u[n]
BY ConcatProperties

(* What arrives goes behind what is there. *)
LEMMA Regroup ==
    \A s, u, v, w \in Seq(Nat) : s \o (u \o (v \o w)) = (s \o (u \o v)) \o w
<1> SUFFICES ASSUME NEW s \in Seq(Nat), NEW u \in Seq(Nat), NEW v \in Seq(Nat), NEW w \in Seq(Nat)
             PROVE  s \o (u \o (v \o w)) = (s \o (u \o v)) \o w
  OBVIOUS
<1>1. u \o v \in Seq(Nat)
  BY ConcatType, Zenon
<1>2. (u \o v) \o w = u \o (v \o w)
  BY Associative, Zenon
<1>3. (s \o (u \o v)) \o w = s \o ((u \o v) \o w)
  BY <1>1, Associative, Zenon
<1> QED BY <1>2, <1>3, Zenon

(* What tty_reader passes on of one character. *)
LEMMA ShortSequences ==
    ASSUME NEW k \in Nat
    PROVE  /\ <<>> \in Seq(Nat) /\ Ascending(<<>>) /\ Range(<<>>) = {}
           /\ <<k>> \in Seq(Nat) /\ Ascending(<<k>>) /\ Range(<<k>>) = {k}
           /\ <<k, k + 1>> \in Seq(Nat) /\ Ascending(<<k, k + 1>>)
           /\ Range(<<k, k + 1>>) = {k, k + 1}
<1>1. <<>> \in Seq(Nat) /\ Ascending(<<>>) /\ Range(<<>>) = {}
  BY DEF Ascending, Range
<1>2. <<k>> \in Seq(Nat) /\ Ascending(<<k>>) /\ Range(<<k>>) = {k}
  <2> DEFINE s == <<k>>
  <2>1. s \in Seq(Nat) /\ DOMAIN s = {1} /\ s[1] = k
    OBVIOUS
  <2> HIDE DEF s
  <2>2. Ascending(s) /\ Range(s) = {k}
    BY <2>1 DEF Ascending, Range
  <2> QED BY <2>1, <2>2 DEF s
<1>3. /\ <<k, k + 1>> \in Seq(Nat) /\ Ascending(<<k, k + 1>>)
      /\ Range(<<k, k + 1>>) = {k, k + 1}
  <2> DEFINE s == <<k, k + 1>>
  <2>1. s \in Seq(Nat) /\ DOMAIN s = {1, 2} /\ s[1] = k /\ s[2] = k + 1
    OBVIOUS
  <2> HIDE DEF s
  <2>2. Ascending(s) /\ Range(s) = {k, k + 1}
    BY <2>1 DEF Ascending, Range
  <2> QED BY <2>1, <2>2 DEF s
<1> QED BY <1>1, <1>2, <1>3

(* A sequence cut in two. *)
LEMMA Cut ==
    ASSUME NEW s \in Seq(Nat), NEW n \in 0 .. Len(s)
    PROVE  /\ SubSeq(s, 1, n) \in Seq(Nat) /\ Len(SubSeq(s, 1, n)) = n
           /\ SubSeq(s, n + 1, Len(s)) \in Seq(Nat) /\ Len(SubSeq(s, n + 1, Len(s))) = Len(s) - n
           /\ s = SubSeq(s, 1, n) \o SubSeq(s, n + 1, Len(s))
<1>1. Len(s) \in Nat /\ \A k \in 1 .. Len(s) : s[k] \in Nat
  OBVIOUS
<1>2. SubSeq(s, 1, n) \in Seq(Nat) /\ Len(SubSeq(s, 1, n)) = n
  <2>1. \A k \in 1 .. n : s[k] \in Nat
    BY <1>1
  <2> QED BY <1>1, <2>1, SubSeqProperties
<1>3. SubSeq(s, n + 1, Len(s)) \in Seq(Nat) /\ Len(SubSeq(s, n + 1, Len(s))) = Len(s) - n
  <2>1. \A k \in n + 1 .. Len(s) : s[k] \in Nat
    BY <1>1
  <2>2. n + 1 \in Int /\ Len(s) \in Int
    BY <1>1
  <2>3. /\ SubSeq(s, n + 1, Len(s)) \in Seq(Nat)
        /\ Len(SubSeq(s, n + 1, Len(s))) = IF n + 1 <= Len(s) THEN Len(s) - (n + 1) + 1 ELSE 0
    BY <2>1, <2>2, SubSeqProperties
  <2> QED BY <1>1, <2>3
<1>4. s = SubSeq(s, 1, n) \o SubSeq(s, n + 1, Len(s))
  <2>1. 1 \in 1 .. Len(s) + 1 /\ n \in 1 - 1 .. Len(s) /\ Len(s) \in n .. Len(s)
    BY <1>1
  <2> QED BY <2>1, ConcatAdjacentSubSeq, SubSeqFull
<1> QED BY <1>2, <1>3, <1>4

-----------------------------------------------------------------------------
(* The copies of k in a sequence are finitely many. *)
LEMMA CopiesNat ==
    ASSUME NEW S, NEW s \in Seq(S), NEW k
    PROVE  IsFiniteSet({n \in DOMAIN s : s[n] = k}) /\ Copies(s, k) \in Nat
<1>1. Len(s) \in Nat /\ DOMAIN s = 1 .. Len(s) /\ IsFiniteSet(1 .. Len(s))
  BY LenProperties, FS_Interval
<1>2. {n \in DOMAIN s : s[n] = k} \subseteq 1 .. Len(s)
  BY <1>1
<1> QED BY <1>1, <1>2, FS_Subset, FS_CardinalityType DEF Copies

(* Those in a concatenation are those in its parts. *)
LEMMA CopiesConcat ==
    ASSUME NEW S, NEW s \in Seq(S), NEW u \in Seq(S), NEW k
    PROVE  Copies(s \o u, k) = Copies(s, k) + Copies(u, k)
<1> DEFINE w == s \o u
           A == {n \in DOMAIN s : s[n] = k}
           B == {n \in DOMAIN u : u[n] = k}
           C == {n \in DOMAIN w : w[n] = k}
           D == C \ A
           f == [n \in B |-> Len(s) + n]
<1>1. /\ w \in Seq(S) /\ Len(w) = Len(s) + Len(u) /\ Len(s) \in Nat /\ Len(u) \in Nat
      /\ DOMAIN w = 1 .. Len(w) /\ DOMAIN s = 1 .. Len(s) /\ DOMAIN u = 1 .. Len(u)
      /\ \A n \in 1 .. Len(s) : w[n] = s[n]
      /\ \A n \in 1 .. Len(u) : w[Len(s) + n] = u[n]
      /\ \A n \in 1 .. Len(w) : n > Len(s) => n - Len(s) \in 1 .. Len(u) /\ w[n] = u[n - Len(s)]
  BY ConcatProperties
<1>2. IsFiniteSet(A) /\ IsFiniteSet(B) /\ IsFiniteSet(C)
  BY <1>1, CopiesNat
<1> HIDE DEF w
<1>3. A \subseteq C
  BY <1>1
<1>4. \A n : n \in D <=> n \in 1 .. Len(w) /\ n > Len(s) /\ u[n - Len(s)] = k
  BY <1>1
<1>5. f \in Bijection(B, D)
  <2>1. \A n \in B : f[n] \in D
    BY <1>1, <1>4
  <2>2. \A m, n \in B : f[m] = f[n] => m = n
    BY <1>1
  <2>3. \A d \in D : \E n \in B : f[n] = d
    <3> TAKE d \in D
    <3>1. d - Len(s) \in B /\ Len(s) + (d - Len(s)) = d
      BY <1>1, <1>4
    <3> QED BY <3>1
  <2>4. f \in [B -> D]
    BY <2>1
  <2> HIDE DEF f, B, D
  <2> QED BY <2>2, <2>3, <2>4, Fun_IsBij
<1>6. IsFiniteSet(D) /\ Cardinality(D) = Cardinality(B)
  <2>1. ExistsBijection(B, D)
    BY <1>5 DEF ExistsBijection
  <2> HIDE DEF B, D
  <2> QED BY <1>2, <2>1, FS_Bijection
<1>7. A \cup D = C /\ A \cap D = {}
  BY <1>3
<1>8. Cardinality(C) = Cardinality(A) + Cardinality(D)
  <2>1. Cardinality(A) \in Nat /\ Cardinality(D) \in Nat /\ Cardinality({}) = 0
    BY <1>2, <1>6, FS_CardinalityType, FS_EmptySet
  <2>2. Cardinality(A \cup D) = Cardinality(A) + Cardinality(D) - Cardinality(A \cap D)
    BY <1>2, <1>6, FS_Union
  <2>3. Cardinality(A \cup D) = Cardinality(C) /\ Cardinality(A \cap D) = 0
    BY <1>7, <2>1
  <2> HIDE DEF A, C, D
  <2> QED BY <2>1, <2>2, <2>3
<1> QED BY <1>6, <1>8 DEF Copies, w

(* An empty sequence has none, and an ascending one not more than one. *)
LEMMA CopiesAscending ==
    ASSUME NEW s \in Seq(Nat), NEW k, Ascending(s)
    PROVE  Copies(s, k) <= 1 /\ (k \notin Range(s) => Copies(s, k) = 0)
<1> DEFINE A == {n \in DOMAIN s : s[n] = k}
<1>1. IsFiniteSet({}) /\ Cardinality({}) = 0
  BY FS_EmptySet
<1>2. CASE A = {}
  <2>1. Copies(s, k) = 0
    BY <1>1, <1>2 DEF Copies
  <2> QED BY <2>1
<1>3. CASE A # {}
  <2>1. PICK m \in A : TRUE
    BY <1>3
  <2>2. \A n \in A : n = m
    <3> TAKE n \in A
    <3>1. m \in 1 .. Len(s) /\ n \in 1 .. Len(s) /\ s[m] = k /\ s[n] = k /\ k \in Nat /\ Len(s) \in Nat
      BY LenProperties
    <3>2. ~(m < n) /\ ~(n < m)
      BY <3>1 DEF Ascending
    <3> QED BY <3>1, <3>2
  <2>3. A = {m}
    BY <2>1, <2>2
  <2>4. Cardinality(A) = 1
    BY <2>3, FS_Singleton
  <2>5. k \in Range(s)
    BY <2>1 DEF Range
  <2> QED BY <2>4, <2>5 DEF Copies
<1> QED BY <1>2, <1>3

-----------------------------------------------------------------------------
(* Console input: types, and what fits where. *)
Places == {"read", "parse", "send", "wait", "get", "asleep", "woken"}
Packet == [object : {"dat", "break"}, chars : Seq(Nat)]
InputType ==
    /\ typed \in Seq(Chars) /\ upto = Len(typed) /\ done \in 0 .. upto
    /\ at \in [Threads -> Places] /\ try \in [Threads -> Nat] /\ fault \in {0, 1}
    /\ dat \in Seq(Nat) /\ outchars \in Seq(Nat) /\ outbuf \in Seq(Nat)
    /\ received \in Seq(Nat) /\ flip \in Seq(Nat) /\ cancon_inbuf \in Seq(Nat)
    /\ Len(outchars) <= OUTCHARSLEN /\ Len(flip) <= FlipRoom /\ Len(cancon_inbuf) <= InRoom
    /\ cantty_myrefcount \in Nat /\ toNode \in Seq(Packet)

(* hist has the last two characters that were dealt with. *)
HistKnown ==
    /\ hist \in Seq(Chars \cup {"cr"}) /\ Len(hist) = 2
    /\ hist[2] = IF done > 0 THEN typed[done] ELSE "cr"
    /\ hist[1] = IF done > 1 THEN typed[done - 1] ELSE "cr"

(* What cancon has still to send, what is in packets, and all that was     *)
(* ever taken to be sent.                                                  *)
Queued == outchars \o outbuf
Carried == UNION {Range(toNode[n].chars) : n \in DOMAIN toNode}
SentSoFar == Range(dat) \cup Range(received) \cup Range(flip) \cup Range(cancon_inbuf) \cup Carried

(* What is anywhere was passed on, so it is meant, and not an escape       *)
(* character that is kept back.                                            *)
Latest == IF InEscape THEN done - 1 ELSE done
PassedOnly == \A k \in SentSoFar \cup Range(Queued) : k \in 1 .. Latest /\ k \in Meant(done)

(* Whatever was lost, what cancon has still to send is in order, and comes *)
(* after all that was sent.                                                *)
QueuedInOrder ==
    /\ Ascending(dat) /\ Ascending(Queued)
    /\ \A m \in SentSoFar, k \in Range(Queued) : m < k
PacketsKnown ==
    \A n \in DOMAIN toNode :
        Ascending(toNode[n].chars) /\ (toNode[n].object = "break" => toNode[n].chars = <<>>)

InputInv == InputType /\ HistKnown /\ PassedOnly /\ QueuedInOrder /\ PacketsKnown

(* A character has been sent as often as its packet was tried: those that  *)
(* arrived and those that are on their way are no more than that.          *)
Carries(p, k) == IF k \in Range(p.chars) THEN 1 ELSE 0
Carry(k) == [n \in DOMAIN toNode |-> Carries(toNode[n], k)]
CopiesOf(k) ==
    Copies(received, k) + Copies(flip, k) + Copies(cancon_inbuf, k) + Copies(Carry(k), 1)
TriesCounted ==
    /\ try["writer"] <= MAX_RETRIES
    /\ at["writer"] = "send" => try["writer"] < MAX_RETRIES
    /\ at["writer"] \notin {"send", "wait"} => dat = <<>> /\ try["writer"] = 0
CopiesBounded ==
    \A k \in Nat : CopiesOf(k) <= IF k \in Range(dat) THEN try["writer"] ELSE MAX_RETRIES

RepeatInv == TriesCounted /\ CopiesBounded

-----------------------------------------------------------------------------
(* A packet is added to the network. *)
LEMMA PacketAdded ==
    ASSUME InputInv, NEW p \in Packet, toNode' = Append(toNode, p),
           Ascending(p.chars), p.object = "break" => p.chars = <<>>
    PROVE  toNode' \in Seq(Packet) /\ PacketsKnown' /\ Carried' = Carried \cup Range(p.chars)
<1>1. /\ toNode' \in Seq(Packet) /\ Len(toNode') = Len(toNode) + 1 /\ Len(toNode) \in Nat
      /\ DOMAIN toNode' = 1 .. Len(toNode') /\ DOMAIN toNode = 1 .. Len(toNode)
      /\ \A n \in 1 .. Len(toNode) : toNode'[n] = toNode[n]
      /\ toNode'[Len(toNode) + 1] = p
  BY AppendProperties DEF InputInv, InputType
<1>2. PacketsKnown'
  BY <1>1 DEF InputInv, PacketsKnown
<1>3. ASSUME NEW k \in Carried' PROVE k \in Carried \cup Range(p.chars)
  <2>1. PICK n \in DOMAIN toNode' : k \in Range(toNode'[n].chars)
    BY DEF Carried
  <2> QED BY <1>1, <2>1 DEF Carried
<1>4. ASSUME NEW k \in Carried PROVE k \in Carried'
  <2>1. PICK n \in DOMAIN toNode : k \in Range(toNode[n].chars)
    BY DEF Carried
  <2>2. n \in DOMAIN toNode' /\ toNode'[n] = toNode[n]
    BY <1>1
  <2> QED BY <2>1, <2>2 DEF Carried
<1>5. ASSUME NEW k \in Range(p.chars) PROVE k \in Carried'
  <2>1. Len(toNode) + 1 \in DOMAIN toNode'
    BY <1>1
  <2> QED BY <1>1, <2>1 DEF Carried
<1> QED BY <1>1, <1>2, <1>3, <1>4, <1>5

(* The oldest packet is taken out of it. *)
LEMMA PacketTaken ==
    ASSUME InputInv, toNode # <<>>, toNode' = Tail(toNode)
    PROVE  /\ toNode' \in Seq(Packet) /\ PacketsKnown'
           /\ Carried = Range(Head(toNode).chars) \cup Carried'
           /\ Head(toNode) \in Packet /\ Head(toNode) = toNode[1] /\ 1 \in DOMAIN toNode
           /\ Head(toNode).chars \in Seq(Nat) /\ Ascending(Head(toNode).chars)
           /\ Head(toNode).object = "break" => Head(toNode).chars = <<>>
<1>1. /\ toNode' \in Seq(Packet) /\ Len(toNode') = Len(toNode) - 1 /\ Len(toNode) \in Nat
      /\ DOMAIN toNode' = 1 .. Len(toNode') /\ DOMAIN toNode = 1 .. Len(toNode)
      /\ \A n \in 1 .. Len(toNode') : toNode'[n] = toNode[n + 1]
      /\ Head(toNode) = toNode[1] /\ Len(toNode) > 0 /\ Head(toNode) \in Packet
  BY HeadTailProperties DEF InputInv, InputType
<1>2. PacketsKnown'
  <2> SUFFICES ASSUME NEW n \in DOMAIN toNode'
               PROVE  /\ Ascending(toNode'[n].chars)
                      /\ toNode'[n].object = "break" => toNode'[n].chars = <<>>
    BY DEF PacketsKnown
  <2>1. n + 1 \in DOMAIN toNode /\ toNode'[n] = toNode[n + 1]
    BY <1>1
  <2> QED BY <2>1 DEF InputInv, PacketsKnown
<1>3. ASSUME NEW k \in Carried PROVE k \in Range(Head(toNode).chars) \cup Carried'
  <2>1. PICK n \in DOMAIN toNode : k \in Range(toNode[n].chars)
    BY DEF Carried
  <2>2. CASE n = 1
    BY <1>1, <2>1, <2>2
  <2>3. CASE n # 1
    <3>1. n - 1 \in DOMAIN toNode' /\ toNode'[n - 1] = toNode[n]
      BY <1>1, <2>3
    <3> QED BY <2>1, <3>1 DEF Carried
  <2> QED BY <2>2, <2>3
<1>4. ASSUME NEW k \in Carried' PROVE k \in Carried
  <2>1. PICK n \in DOMAIN toNode' : k \in Range(toNode'[n].chars)
    BY DEF Carried
  <2>2. n + 1 \in DOMAIN toNode /\ toNode'[n] = toNode[n + 1]
    BY <1>1
  <2> QED BY <2>1, <2>2 DEF Carried
<1>5. 1 \in DOMAIN toNode
  BY <1>1
<1>6. ASSUME NEW k \in Range(Head(toNode).chars) PROVE k \in Carried
  BY <1>1, <1>5 DEF Carried
<1>7. Ascending(Head(toNode).chars) /\ (Head(toNode).object = "break" => Head(toNode).chars = <<>>)
  BY <1>1, <1>5 DEF InputInv, PacketsKnown
<1>8. Head(toNode).chars \in Seq(Nat)
  BY <1>1 DEF Packet
<1> QED BY <1>1, <1>2, <1>3, <1>4, <1>5, <1>6, <1>7, <1>8

(* Which characters are meant depends on what was typed only. *)
LEMMA MeantStays ==
    ASSUME typed' = typed, done' = done
    PROVE  Meant(done)' = Meant(done)
BY DEF Meant, Escape

(* A step that parses nothing and takes nothing from the queue. *)
LEMMA NothingTaken ==
    ASSUME InputInv, InputType', HistKnown', UNCHANGED <<done, hist>>, Ascending(dat'),
           Queued' = Queued, SentSoFar' \subseteq SentSoFar, PacketsKnown',
           typed' = typed \/ Meant(done)' = Meant(done)
    PROVE  InputInv'
<1>1. Latest' = Latest
  BY DEF Latest, InEscape
<1>2. PassedOnly'
  BY <1>1, MeantStays DEF InputInv, PassedOnly
<1>3. QueuedInOrder'
  BY DEF InputInv, QueuedInOrder
<1> QED BY <1>2, <1>3 DEF InputInv

(* tty_reader's read(). *)
LEMMA ReadKeeps ==
    ASSUME InputInv, Read
    PROVE  InputInv' /\ Meant(done)' = Meant(done) /\ Len(typed') >= Len(typed)
<1>1. PICK s \in UNION {[1 .. n -> Chars] : n \in 1 .. ReadMax} :
        Typed(s) /\ UNCHANGED <<inVars, wireVars>>
  BY DEF Read, Term
<1>2. s \in Seq(Chars) /\ Len(s) \in Nat
  <2>1. PICK n \in 1 .. ReadMax : s \in [1 .. n -> Chars]
    OBVIOUS
  <2> QED BY <2>1, TermAssumption
<1>3. /\ typed' \in Seq(Chars) /\ Len(typed') = Len(typed) + Len(s) /\ Len(typed) \in Nat
      /\ \A k \in 1 .. Len(typed) : typed'[k] = typed[k]
  BY <1>1, <1>2, ConcatProperties DEF Typed, InputInv, InputType
<1>4. InputType'
  <2>1. upto' = Len(typed') /\ done' \in 0 .. upto'
    BY <1>1, <1>2, <1>3 DEF Typed, InputInv, InputType
  <2>2. at' \in [Threads -> Places]
    BY <1>1 DEF Typed, Go, InputInv, InputType, Threads, Places
  <2> QED BY <1>1, <1>3, <2>1, <2>2 DEF Typed, InputInv, InputType, inVars, wireVars
<1>5. done \in 0 .. Len(typed) /\ done' = done /\ hist' = hist
  BY <1>1 DEF Typed, InputInv, InputType
<1>6. HistKnown'
  BY <1>3, <1>5 DEF InputInv, HistKnown
<1>7. Queued' = Queued /\ SentSoFar' = SentSoFar /\ PacketsKnown' /\ Ascending(dat')
  BY <1>1 DEF Typed, InputInv, QueuedInOrder, Queued, SentSoFar, Carried, PacketsKnown, inVars, wireVars
<1>8. Meant(done)' = Meant(done)
  <2>1. \A k \in 1 .. done : typed'[k] = typed[k]
    BY <1>3, <1>5
  <2>2. \A k \in 1 .. done : Escape(k)' = Escape(k)
    BY <2>1, <1>5 DEF Escape
  <2>3. ASSUME NEW k \in 1 .. done
        PROVE  k \in Meant(done)' <=> k \in Meant(done)
    <3>1. k < done => k + 1 \in 1 .. done
      BY <1>5
    <3>2. k > 1 => k - 1 \in 1 .. done
      BY <1>5
    <3> QED BY <1>5, <2>1, <2>2, <3>1, <3>2 DEF Meant
  <2> QED BY <1>5, <2>3 DEF Meant
<1>9. InputInv'
  BY <1>4, <1>5, <1>6, <1>7, <1>8, NothingTaken
<1> QED BY <1>3, <1>8, <1>9

(* tty_reader's automaton knows when it is in an escape sequence. *)
LEMMA EscapeKnown ==
    ASSUME InputInv
    PROVE  InEscape <=> done > 0 /\ Escape(done)
<1>1. done \in Nat
  BY DEF InputInv, InputType
<1>2. CASE done = 0
  BY <1>2 DEF InputInv, HistKnown, InEscape
<1>3. CASE done = 1
  BY <1>3 DEF InputInv, HistKnown, InEscape, Escape
<1>4. CASE done > 1
  BY <1>1, <1>4 DEF InputInv, HistKnown, InEscape, Escape
<1> QED BY <1>1, <1>2, <1>3, <1>4

(* What it passes on of a character is behind all that was passed on       *)
(* before, and is what Meant has more.                                     *)
LEMMA ParsePasses ==
    ASSUME InputInv, Parse
    PROVE  /\ PassedOn(typed[done + 1], done + 1) \in Seq(Nat)
           /\ Ascending(PassedOn(typed[done + 1], done + 1))
           /\ Latest \in Int /\ Latest' \in Int /\ Latest <= Latest'
           /\ \A k \in Range(PassedOn(typed[done + 1], done + 1)) :
                k \in 1 .. Latest' /\ Latest < k
           /\ Meant(done)' = Meant(done) \cup Range(PassedOn(typed[done + 1], done + 1))
<1> DEFINE c == typed[done + 1]
           new == PassedOn(c, done + 1)
<1>1. done \in Nat /\ done' = done + 1 /\ typed' = typed /\ hist' = <<hist[2], c>>
  BY DEF Parse, InputInv, InputType
<1>2. InEscape' <=> hist[2] = "cr" /\ c = "escape"
  BY <1>1 DEF InEscape
<1>3. /\ InEscape <=> done > 0 /\ Escape(done)
      /\ hist[2] = IF done > 0 THEN typed[done] ELSE "cr"
      /\ hist[1] = IF done > 1 THEN typed[done - 1] ELSE "cr"
  BY EscapeKnown DEF InputInv, HistKnown
<1>4. Escape(done + 1) <=> hist[2] = "cr" /\ c = "escape"
  BY <1>1, <1>3 DEF Escape
<1>5. ASSUME NEW k \in 1 .. done - 1
      PROVE  k \in Meant(done) <=> k \in Meant(done)'
  BY <1>1 DEF Meant, Escape
<1>6. done > 0 => (done \in Meant(done) <=>
        ~Escape(done) /\ (done > 1 /\ Escape(done - 1) => typed[done] \notin Obeyed))
  BY <1>1 DEF Meant
<1>7. done > 0 => (done \in Meant(done)' <=>
        /\ Escape(done) => c \notin Obeyed
        /\ done > 1 /\ Escape(done - 1) => typed[done] \notin Obeyed)
  BY <1>1 DEF Meant, Escape
<1>8. done + 1 \in Meant(done)' <=>
        ~Escape(done + 1) /\ (done > 0 /\ Escape(done) => c \notin Obeyed)
  BY <1>1 DEF Meant, Escape
<1>9. Meant(done) \subseteq 1 .. done /\ Meant(done)' \subseteq 1 .. done + 1
  BY <1>1 DEF Meant
<1>10. ASSUME NEW R, \A k \in R : k \in Meant(done)',
              done > 0 /\ done \in Meant(done)' => done \in Meant(done) \/ done \in R,
              done > 0 /\ done \in Meant(done) => done \in Meant(done)',
              done + 1 \in Meant(done)' => done + 1 \in R
       PROVE  Meant(done)' = Meant(done) \cup R
  <2>1. ASSUME NEW k \in Meant(done)' PROVE k \in Meant(done) \cup R
    <3>1. k \in 1 .. done - 1 \/ (k = done /\ done > 0) \/ k = done + 1
      BY <1>1, <1>9
    <3> QED BY <1>5, <1>10, <3>1
  <2>2. ASSUME NEW k \in Meant(done) PROVE k \in Meant(done)'
    <3>1. k \in 1 .. done - 1 \/ (k = done /\ done > 0)
      BY <1>1, <1>9
    <3> QED BY <1>5, <1>10, <3>1
  <2> QED BY <1>10, <2>1, <2>2
<1> DEFINE Goal ==
        /\ new \in Seq(Nat) /\ Ascending(new)
        /\ Latest \in Int /\ Latest' \in Int /\ Latest <= Latest'
        /\ \A k \in Range(new) : k \in 1 .. Latest' /\ Latest < k
        /\ Meant(done)' = Meant(done) \cup Range(new)
<1>11. Latest \in Int /\ Latest' \in Int /\ Latest <= Latest'
  BY <1>1, <1>2, <1>3 DEF Latest
<1> SUFFICES Goal
  OBVIOUS
<1> HIDE DEF c
<1>12. CASE new = <<>>
  <2>1. new \in Seq(Nat) /\ Ascending(new) /\ Range(new) = {}
    BY <1>12, ShortSequences
  <2>2. \/ InEscape /\ c \in Obeyed
        \/ ~InEscape /\ c = "escape" /\ hist[2] = "cr"
    BY <1>12 DEF PassedOn
  <2>3. Meant(done)' = Meant(done) \cup {}
    <3>1. CASE InEscape /\ c \in Obeyed
      BY <1>3, <1>6, <1>7, <1>8, <1>10, <3>1
    <3>2. CASE ~InEscape /\ c = "escape" /\ hist[2] = "cr"
      BY <1>3, <1>4, <1>6, <1>7, <1>8, <1>10, <3>2
    <3> QED BY <2>2, <3>1, <3>2
  <2> QED BY <1>11, <2>1, <2>3
<1>13. CASE InEscape /\ c \notin Obeyed
  <2>1. new = <<done, done + 1>>
    BY <1>1, <1>13 DEF PassedOn
  <2>2. new \in Seq(Nat) /\ Ascending(new) /\ Range(new) = {done, done + 1}
    BY <1>1, <2>1, ShortSequences
  <2>3. done > 0 /\ Latest = done - 1 /\ ~InEscape' /\ Latest' = done + 1 /\ hist[2] = "escape"
    BY <1>1, <1>2, <1>3, <1>13 DEF Latest, InEscape
  <2>4. Meant(done)' = Meant(done) \cup {done, done + 1}
    <3>1. typed[done] = "escape" /\ "escape" \notin Obeyed /\ Escape(done)
      BY <1>3, <1>13, <2>3 DEF Obeyed
    <3>2. done \in Meant(done)' /\ done + 1 \in Meant(done)'
      BY <1>4, <1>7, <1>8, <1>13, <2>3, <3>1
    <3> QED BY <1>10, <3>2
  <2> QED BY <1>1, <1>11, <2>2, <2>3, <2>4
<1>14. CASE ~InEscape /\ ~(c = "escape" /\ hist[2] = "cr")
  <2>1. new = <<done + 1>>
    BY <1>14 DEF PassedOn
  <2>2. new \in Seq(Nat) /\ Ascending(new) /\ Range(new) = {done + 1}
    <3>1. done + 1 \in Nat
      BY <1>1
    <3> QED BY <2>1, <3>1, ShortSequences
  <2>3. Latest = done /\ Latest' = done + 1
    BY <1>1, <1>2, <1>14 DEF Latest
  <2>4. Meant(done)' = Meant(done) \cup {done + 1}
    <3>1. done + 1 \in Meant(done)'
      BY <1>3, <1>4, <1>8, <1>14
    <3>2. done > 0 => ~Escape(done)
      BY <1>3, <1>14
    <3> QED BY <1>6, <1>7, <1>10, <3>1, <3>2
  <2> QED BY <1>1, <1>11, <2>2, <2>3, <2>4
<1> QED BY <1>12, <1>13, <1>14 DEF PassedOn

(* What is queued and what was sent are places in typed. *)
LEMMA QueueTypes ==
    ASSUME InputInv
    PROVE  /\ Queued \in Seq(Nat) /\ Range(Queued) \subseteq Nat
           /\ Range(Queued) = Range(outchars) \cup Range(outbuf)
           /\ SentSoFar \subseteq Nat /\ Latest \in Int
<1>1. Queued \in Seq(Nat) /\ Range(Queued) = Range(outchars) \cup Range(outbuf)
  BY ConcatProperties, RangeConcatenation DEF InputInv, InputType, Queued
<1>2. \A k \in SentSoFar \cup Range(Queued) : k \in Nat
  <2>1. Latest \in Int
    BY DEF Latest, InputInv, InputType
  <2> QED BY <2>1 DEF InputInv, PassedOnly
<1>3. Latest \in Int
  BY DEF Latest, InputInv, InputType
<1> QED BY <1>1, <1>2, <1>3

(* tty_reader deals with a character: what is passed on goes to the end. *)
LEMMA ParseKeeps ==
    ASSUME InputInv, Parse, UNCHANGED <<inVars, wireVars>>
    PROVE  InputInv' /\ Waiting' = Waiting \o PassedOn(typed[done + 1], done + 1)
<1> DEFINE new == PassedOn(typed[done + 1], done + 1)
<1>1. /\ new \in Seq(Nat) /\ Ascending(new)
      /\ Latest \in Int /\ Latest' \in Int /\ Latest <= Latest'
      /\ \A k \in Range(new) : k \in 1 .. Latest' /\ Latest < k
      /\ Meant(done)' = Meant(done) \cup Range(new)
  BY ParsePasses
<1>2. outbuf' = outbuf \o new
  BY DEF Parse
<1>3. /\ UNCHANGED <<typed, upto, outchars, dat, try, fault>> /\ UNCHANGED <<inVars, wireVars>>
      /\ done' = done + 1 /\ done < upto
  BY DEF Parse
<1> HIDE DEF new
<1>4. InputType'
  <2>1. outbuf' \in Seq(Nat)
    BY <1>1, <1>2, ConcatProperties DEF InputInv, InputType
  <2>2. done' \in 0 .. upto' /\ upto' = Len(typed')
    BY <1>3 DEF InputInv, InputType
  <2>3. at' \in [Threads -> Places]
    BY DEF Parse, Go, InputInv, InputType, Threads, Places
  <2> QED BY <1>3, <2>1, <2>2, <2>3 DEF InputInv, InputType, inVars, wireVars
<1>5. HistKnown'
  <2>1. hist' = <<hist[2], typed[done + 1]>> /\ done \in Nat /\ done + 1 \in 1 .. Len(typed)
    BY DEF Parse, InputInv, InputType
  <2>2. typed[done + 1] \in Chars
    BY <2>1 DEF InputInv, InputType
  <2>3. hist[2] \in Chars \cup {"cr"}
    BY DEF InputInv, HistKnown
  <2>4. hist' \in Seq(Chars \cup {"cr"}) /\ Len(hist') = 2
    BY <2>1, <2>2, <2>3
  <2>5. hist'[2] = typed[done + 1] /\ hist'[1] = hist[2]
    BY <2>1
  <2> QED BY <1>3, <2>1, <2>4, <2>5 DEF InputInv, HistKnown
<1>6. Queued' = Queued \o new /\ Queued \in Seq(Nat) /\ Range(Queued') = Range(Queued) \cup Range(new)
  <2>1. Queued' = Queued \o new
    <3>1. outchars \in Seq(Nat) /\ outbuf \in Seq(Nat) /\ new \in Seq(Nat)
      BY <1>1 DEF InputInv, InputType
    <3>2. (outchars \o outbuf) \o new = outchars \o (outbuf \o new)
      BY <3>1, Associative, Zenon
    <3> QED BY <1>2, <1>3, <3>2 DEF Queued
  <2>2. Queued \in Seq(Nat)
    BY QueueTypes
  <2> QED BY <1>1, <2>1, <2>2, RangeConcatenation
<1>7. SentSoFar' = SentSoFar
  BY <1>3 DEF SentSoFar, Carried, inVars, wireVars
<1>8. PassedOnly'
  <2> SUFFICES ASSUME NEW k \in SentSoFar \cup Range(Queued) \cup Range(new)
               PROVE  k \in 1 .. Latest' /\ k \in Meant(done)'
    BY <1>6, <1>7 DEF PassedOnly
  <2>1. CASE k \in Range(new)
    BY <1>1, <2>1
  <2>2. CASE k \in SentSoFar \cup Range(Queued)
    BY <1>1, <2>2 DEF InputInv, PassedOnly
  <2> QED BY <2>1, <2>2
<1>9. \A m \in SentSoFar \cup Range(Queued), k \in Range(new) : m < k
  <2> SUFFICES ASSUME NEW m \in SentSoFar \cup Range(Queued), NEW k \in Range(new) PROVE m < k
    OBVIOUS
  <2>1. m \in 1 .. Latest /\ Latest < k /\ k \in Int
    BY <1>1 DEF InputInv, PassedOnly
  <2> QED BY <1>1, <2>1
<1>10. QueuedInOrder'
  <2>1. Ascending(dat') /\ Ascending(Queued)
    BY <1>3 DEF InputInv, QueuedInOrder
  <2>2. Before(Queued, new)
    BY <1>1, <1>6, <1>9, BeforeRange
  <2>3. Ascending(Queued')
    BY <1>1, <1>6, <2>1, <2>2, AscendingConcat
  <2>4. \A m \in SentSoFar, k \in Range(Queued) : m < k
    BY DEF InputInv, QueuedInOrder
  <2> QED BY <1>6, <1>7, <1>9, <2>1, <2>3, <2>4 DEF QueuedInOrder
<1>11. PacketsKnown'
  BY <1>3 DEF InputInv, PacketsKnown, wireVars
<1>12. Waiting' = Waiting \o new
  <2>1. Unsent' = Unsent /\ Unsent \in Seq(Nat)
    BY DEF Unsent, Parse, Go, InputInv, InputType, Threads
  <2>2. Unsent \o outchars \in Seq(Nat) /\ outbuf \in Seq(Nat) /\ new \in Seq(Nat)
    BY <1>1, <2>1, ConcatProperties DEF InputInv, InputType
  <2>3. (Unsent \o outchars) \o (outbuf \o new) = ((Unsent \o outchars) \o outbuf) \o new
    BY <2>2, Associative, Zenon
  <2> QED BY <1>2, <1>3, <2>1, <2>3 DEF Waiting
<1> QED BY <1>4, <1>5, <1>8, <1>10, <1>11, <1>12 DEF InputInv, new

(* What waits is the packet to be sent and the queue behind it. *)
LEMMA UnsentType ==
    ASSUME InputInv
    PROVE  Unsent \in Seq(Nat) /\ Unsent \o outchars \in Seq(Nat) /\ Waiting \in Seq(Nat)
           /\ Waiting = Unsent \o Queued
<1>1. Unsent \in Seq(Nat) /\ outchars \in Seq(Nat) /\ outbuf \in Seq(Nat)
  BY EmptyConcat DEF InputInv, InputType, Unsent
<1>2. Unsent \o outchars \in Seq(Nat)
  BY <1>1, ConcatType, Zenon
<1>3. Waiting = Unsent \o Queued
  BY <1>1, Associative, Zenon DEF Waiting, Queued
<1>4. Waiting \in Seq(Nat)
  BY <1>1, <1>2, ConcatType, Zenon DEF Waiting
<1> QED BY <1>1, <1>2, <1>3, <1>4

(* signal_outchars moves outbuf to outchars[], and what does not fit is a  *)
(* fault.                                                                  *)
LEMMA SignalKeeps ==
    ASSUME InputInv, signal_outchars, UNCHANGED <<inVars, wireVars>>
    PROVE  InputInv' /\ (fault' = 0 => Waiting' = Waiting)
<1> DEFINE n == IF Len(outbuf) <= Room THEN Len(outbuf) ELSE Room
           kept == SubSeq(outbuf, 1, n)
           rest == SubSeq(outbuf, n + 1, Len(outbuf))
<1>1. outbuf \in Seq(Nat) /\ outchars \in Seq(Nat) /\ dat \in Seq(Nat)
  BY DEF InputInv, InputType
<1>2. Room \in Nat /\ Room = OUTCHARSLEN - Len(outchars) /\ n \in 0 .. Len(outbuf) /\ n <= Room
  BY <1>1, TermAssumption DEF InputInv, InputType, Room
<1>3. /\ kept \in Seq(Nat) /\ Len(kept) = n /\ rest \in Seq(Nat)
      /\ Len(rest) = Len(outbuf) - n /\ outbuf = kept \o rest
  BY <1>1, <1>2, Cut
<1>4. outchars' = outchars \o kept /\ outbuf' = <<>>
  <2>1. Len(outbuf) <= Room => kept = outbuf
    BY <1>1, SubSeqFull
  <2> QED BY <2>1 DEF signal_outchars
<1>5. fault' = 0 => rest = <<>>
  <2>1. fault' = 0 => Len(outbuf) <= Room
    BY <1>1, <1>2 DEF signal_outchars
  <2>2. Len(outbuf) <= Room => Len(rest) = 0
    BY <1>1, <1>3
  <2> QED BY <1>3, <2>1, <2>2, EmptySeq
<1>6. /\ UNCHANGED <<typed, done, upto, hist, dat, try>> /\ UNCHANGED <<inVars, wireVars>>
      /\ at' \in [Threads -> Places] /\ fault' \in {0, 1}
      /\ at'["writer"] = "send" <=> at["writer"] = "send"
  BY DEF signal_outchars, WakeWriter, InputInv, InputType, Threads, Places
<1> HIDE DEF n, kept, rest
<1>7. Queued = Queued' \o rest /\ Queued' \in Seq(Nat) /\ Queued' = outchars'
  <2>1. outchars \o kept \in Seq(Nat)
    BY <1>1, <1>3, ConcatType, Zenon
  <2>2. Queued' = outchars \o kept
    BY <1>4, <2>1, EmptyConcat, Zenon DEF Queued
  <2>3. Queued = (outchars \o kept) \o rest
    BY <1>1, <1>3, Associative, Zenon DEF Queued
  <2> QED BY <1>4, <2>1, <2>2, <2>3
<1>8. Range(Queued') \subseteq Range(Queued) /\ Ascending(Queued')
  <2>1. Range(Queued) = Range(Queued') \cup Range(rest)
    BY <1>3, <1>7, RangeConcatenation
  <2>2. Ascending(Queued)
    BY DEF InputInv, QueuedInOrder
  <2>3. Ascending(Queued' \o rest)
    BY <1>7, <2>2
  <2> QED BY <1>3, <1>7, <2>1, <2>3, AscendingConcat
<1>9. InputType'
  <2>1. outchars' \in Seq(Nat) /\ Len(outchars') <= OUTCHARSLEN
    <3>1. Len(outchars \o kept) = Len(outchars) + Len(kept)
      BY <1>1, <1>3, ConcatType, Zenon
    <3>2. Len(outchars') <= OUTCHARSLEN
      BY <1>1, <1>2, <1>3, <1>4, <3>1, TermAssumption
    <3> QED BY <1>7, <3>2
  <2>2. outbuf' \in Seq(Nat)
    BY <1>4, EmptyConcat
  <2> QED BY <1>6, <2>1, <2>2 DEF InputInv, InputType, inVars, wireVars
<1>10. HistKnown' /\ PacketsKnown' /\ SentSoFar' = SentSoFar /\ Latest' = Latest
  BY <1>6 DEF InputInv, HistKnown, PacketsKnown, SentSoFar, Carried, Latest, InEscape, inVars, wireVars
<1>11. PassedOnly'
  <2>1. Meant(done)' = Meant(done)
    BY <1>6, MeantStays
  <2> QED BY <1>8, <1>10, <2>1 DEF InputInv, PassedOnly
<1>12. QueuedInOrder'
  BY <1>6, <1>8, <1>10 DEF InputInv, QueuedInOrder
<1>13. ASSUME fault' = 0 PROVE Waiting' = Waiting
  <2>1. Unsent' = Unsent /\ InputInv'
    BY <1>6, <1>9, <1>10, <1>11, <1>12 DEF Unsent, InputInv
  <2>2. Queued' = Queued
    BY <1>5, <1>7, <1>13, EmptyConcat
  <2>3. Waiting = Unsent \o Queued
    BY UnsentType
  <2>4. Waiting' = Unsent' \o Queued'
    BY <1>1, <1>4, <1>6, <1>7, <2>1, UnsentType, EmptyConcat, ConcatType, Zenon DEF Waiting
  <2> QED BY <2>1, <2>2, <2>3, <2>4
<1> QED BY <1>9, <1>10, <1>11, <1>12, <1>13 DEF InputInv

(* writer's waitfor_outchars moves characters from the queue into dat. *)
LEMMA TakeKeeps ==
    ASSUME InputInv, waitfor_outchars, UNCHANGED <<inVars, wireVars>>
    PROVE  /\ InputInv' /\ Waiting' = Waiting
           /\ dat' \in Seq(Nat) /\ Range(dat') \subseteq Range(Queued)
<1>1. outbuf \in Seq(Nat) /\ outchars \in Seq(Nat)
  BY DEF InputInv, InputType
<1>2. Taken \in 0 .. Len(outchars)
  BY <1>1, TermAssumption DEF Taken
<1>3. /\ dat' = SubSeq(outchars, 1, Taken) /\ outchars' = SubSeq(outchars, Taken + 1, Len(outchars))
      /\ UNCHANGED <<typed, done, upto, hist, outbuf, try, fault>> /\ UNCHANGED <<inVars, wireVars>>
      /\ at["writer"] # "send" /\ at' \in [Threads -> Places] /\ at'["writer"] = "send"
  BY DEF waitfor_outchars, Remaining, Go, InputInv, InputType, Threads, Places
<1>4. /\ dat' \in Seq(Nat) /\ outchars' \in Seq(Nat) /\ outchars = dat' \o outchars'
      /\ Len(outchars') = Len(outchars) - Taken
  BY <1>1, <1>2, <1>3, Cut
<1>5. Queued' = outchars' \o outbuf /\ Queued' \in Seq(Nat) /\ Queued = dat' \o Queued'
  <2>1. Queued' = outchars' \o outbuf
    BY <1>3 DEF Queued
  <2>2. Queued' \in Seq(Nat)
    BY <1>1, <1>4, <2>1, ConcatType, Zenon
  <2>3. Queued = (dat' \o outchars') \o outbuf
    BY <1>4 DEF Queued
  <2>4. (dat' \o outchars') \o outbuf = dat' \o (outchars' \o outbuf)
    BY <1>1, <1>4, Associative, Zenon
  <2> QED BY <2>1, <2>2, <2>3, <2>4
<1>6. /\ Ascending(dat') /\ Ascending(Queued') /\ Before(dat', Queued')
      /\ Range(Queued) = Range(dat') \cup Range(Queued')
  <2>1. Ascending(dat' \o Queued')
    BY <1>5 DEF InputInv, QueuedInOrder
  <2> QED BY <1>4, <1>5, <2>1, AscendingConcat, RangeConcatenation
<1>7. InputType'
  <2>1. Len(outchars') <= OUTCHARSLEN
    BY <1>1, <1>2, <1>4, TermAssumption DEF InputInv, InputType
  <2> QED BY <1>3, <1>4, <2>1 DEF InputInv, InputType, inVars, wireVars
<1>8. HistKnown' /\ PacketsKnown' /\ Latest' = Latest
  BY <1>3 DEF InputInv, HistKnown, PacketsKnown, Latest, InEscape, wireVars
<1>9. SentSoFar' \subseteq SentSoFar \cup Range(dat')
  BY <1>3 DEF SentSoFar, Carried, inVars, wireVars
<1>10. PassedOnly'
  <2>1. Meant(done)' = Meant(done)
    BY <1>3, MeantStays
  <2> QED BY <1>6, <1>8, <1>9, <2>1 DEF InputInv, PassedOnly
<1>11. QueuedInOrder'
  <2> SUFFICES ASSUME NEW m \in SentSoFar', NEW k \in Range(Queued') PROVE m < k
    BY <1>6 DEF QueuedInOrder
  <2>1. CASE m \in SentSoFar
    BY <1>6, <2>1 DEF InputInv, QueuedInOrder
  <2>2. CASE m \in Range(dat')
    BY <1>4, <1>5, <1>6, <2>2, BeforeRange
  <2> QED BY <1>9, <2>1, <2>2
<1>12. Waiting' = Waiting
  <2>1. Waiting' = (dat' \o outchars') \o outbuf
    BY <1>3 DEF Waiting, Unsent
  <2>2. Waiting = (<<>> \o outchars) \o outbuf
    BY <1>3 DEF Waiting, Unsent
  <2>3. <<>> \o outchars = outchars
    BY <1>1, EmptyConcat, Zenon
  <2> QED BY <1>4, <2>1, <2>2, <2>3
<1> QED BY <1>4, <1>6, <1>7, <1>8, <1>10, <1>11, <1>12 DEF InputInv

(* Sleeping and waking, answers that arrive, and the end of the threads,   *)
(* move no character.                                                      *)
LEMMA QuietKeeps ==
    ASSUME InputInv,
           \/ waitfor_outchars_sleep /\ UNCHANGED <<inVars, wireVars>>
           \/ Term(SpuriousWakeup) \/ Disconnect \/ reader
    PROVE  /\ InputInv' /\ Waiting' = Waiting
           /\ UNCHANGED <<typed, done, dat, received, flip, cancon_inbuf, toNode, try, fault>>
           /\ at'["writer"] \in {"send", "wait"} <=> at["writer"] \in {"send", "wait"}
           /\ at'["writer"] = "send" <=> at["writer"] = "send"
<1>1. /\ UNCHANGED <<typed, done, upto, hist, outbuf, outchars, dat, try, fault>>
      /\ UNCHANGED inVars /\ toNode' = toNode
      /\ at' \in [Threads -> Places]
      /\ at'["writer"] \in {"send", "wait"} <=> at["writer"] \in {"send", "wait"}
      /\ at'["writer"] = "send" <=> at["writer"] = "send"
  BY DEF waitfor_outchars_sleep, SpuriousWakeup, Term, Disconnect, disconnect, reader, signal_acknak,
         Go, wireVars, InputInv, InputType, Threads, Places
<1>2. InputType' /\ HistKnown' /\ PacketsKnown' /\ Queued' = Queued /\ SentSoFar' = SentSoFar
  BY <1>1 DEF InputInv, InputType, HistKnown, PacketsKnown, Queued, SentSoFar, Carried, inVars
<1>3. Ascending(dat')
  BY <1>1 DEF InputInv, QueuedInOrder
<1>4. InputInv'
  BY <1>1, <1>2, <1>3, NothingTaken
<1>5. Waiting' = Waiting
  BY <1>1 DEF Waiting, Unsent
<1> QED BY <1>1, <1>4, <1>5 DEF inVars

(* The end of a wait: at an answer, or a timeout. *)
LEMMA WaitKeeps ==
    ASSUME InputInv, NEW t \in Threads, Wait(t) \/ NoAnswer(t)
    PROVE  /\ InputInv' /\ UNCHANGED <<typed, done, received, flip, cancon_inbuf, toNode>>
           /\ dat' \in {dat, <<>>} /\ (fault' = 0 => Waiting' = Waiting)
<1>1. /\ UNCHANGED <<typed, done, upto, hist, outbuf, outchars>>
      /\ UNCHANGED inVars /\ toNode' = toNode /\ fault' \in {0, 1} /\ dat' \in {dat, <<>>}
  BY DEF Wait, NoAnswer, Term, waitfor_acknak, waitfor_acknak_timeout, Finished, InputInv, InputType, wireVars
<1>2. at' \in [Threads -> Places] /\ try' \in [Threads -> Nat]
  BY DEF Wait, NoAnswer, Term, waitfor_acknak, waitfor_acknak_timeout, Finished, Go, InputInv, InputType,
         Threads, Places
<1>3. dat' \in Seq(Nat) /\ Ascending(dat') /\ Range(dat') \subseteq Range(dat)
  <2>1. <<>> \in Seq(Nat) /\ Ascending(<<>>) /\ Range(<<>>) = {}
    BY ShortSequences
  <2> QED BY <1>1, <2>1 DEF InputInv, InputType, QueuedInOrder
<1>4. InputType' /\ HistKnown' /\ PacketsKnown' /\ Queued' = Queued /\ SentSoFar' \subseteq SentSoFar
  BY <1>1, <1>2, <1>3 DEF InputInv, InputType, HistKnown, PacketsKnown, Queued, SentSoFar, Carried, inVars
<1>5. InputInv'
  BY <1>1, <1>3, <1>4, NothingTaken
<1>6. ASSUME fault' = 0 PROVE Waiting' = Waiting
  <2>1. Wait(t)
    BY <1>6 DEF NoAnswer, Term, waitfor_acknak_timeout
  <2>2. Unsent' = Unsent
    <3>1. t = "writer" => at'["writer"] # "send"
      BY <2>1 DEF Wait, Term, waitfor_acknak, Finished, Go, InputInv, InputType, Threads
    <3>2. t = "writer" => at["writer"] # "send"
      BY <2>1 DEF Wait, Term, waitfor_acknak
    <3>3. t # "writer" => at'["writer"] = at["writer"] /\ dat' = dat
      BY <2>1 DEF Wait, Term, waitfor_acknak, Finished, Go, InputInv, InputType, Threads
    <3> QED BY <3>1, <3>2, <3>3 DEF Unsent
  <2> QED BY <1>1, <2>2 DEF Waiting
<1> QED BY <1>1, <1>5, <1>6 DEF inVars

(* mysend puts a packet into the network. *)
LEMMA SendKeeps ==
    ASSUME InputInv, NEW t \in Threads, Send(t)
    PROVE  /\ InputInv' /\ UNCHANGED <<typed, done, dat, received, flip, cancon_inbuf, fault>>
           /\ at[t] = "send" /\ at' = [at EXCEPT ![t] = "wait"] /\ try' = [try EXCEPT ![t] = @ + 1]
           /\ \E p \in Packet :
                /\ toNode' = Append(toNode, p) /\ Ascending(p.chars)
                /\ p.chars = IF t = "writer" THEN dat ELSE <<>>
                /\ p.object = "break" => p.chars = <<>>
           /\ Queued' = Queued
<1> DEFINE p == [object |-> Object[t], chars |-> IF t = "writer" THEN dat ELSE <<>>]
<1>1. /\ UNCHANGED <<typed, done, upto, hist, outbuf, outchars, dat, fault>> /\ UNCHANGED inVars
      /\ toNode' = Append(toNode, p)
      /\ at[t] = "send" /\ at' = [at EXCEPT ![t] = "wait"] /\ try' = [try EXCEPT ![t] = @ + 1]
  BY DEF Send, can_send, Go
<1>2. <<>> \in Seq(Nat) /\ Ascending(<<>>) /\ Range(<<>>) = {}
  BY ShortSequences
<1>3. dat \in Seq(Nat) /\ Ascending(dat)
  BY DEF InputInv, InputType, QueuedInOrder
<1>4. /\ p \in Packet /\ Ascending(p.chars) /\ (p.object = "break" => p.chars = <<>>)
      /\ Range(p.chars) \subseteq Range(dat)
  BY <1>2, <1>3 DEF Packet, Object, Threads
<1>5. p.chars = IF t = "writer" THEN dat ELSE <<>>
  OBVIOUS
<1> HIDE DEF p
<1>6. toNode' \in Seq(Packet) /\ PacketsKnown' /\ Carried' = Carried \cup Range(p.chars)
  BY <1>1, <1>4, PacketAdded
<1>7. at' \in [Threads -> Places] /\ try' \in [Threads -> Nat]
  BY <1>1 DEF InputInv, InputType, Threads, Places
<1>8. InputType' /\ HistKnown'
  BY <1>1, <1>6, <1>7 DEF InputInv, InputType, HistKnown, inVars
<1>9. SentSoFar' \subseteq SentSoFar
  BY <1>1, <1>4, <1>6 DEF SentSoFar, inVars
<1>10. Queued' = Queued
  BY <1>1 DEF Queued
<1>11. InputInv'
  BY <1>1, <1>3, <1>6, <1>8, <1>9, <1>10, NothingTaken
<1> QED BY <1>1, <1>4, <1>5, <1>10, <1>11 DEF inVars

(* The node takes a packet and keeps or drops what is in it. *)
LEMMA DatKeeps ==
    ASSUME InputInv, canobj_dat
    PROVE  /\ InputInv' /\ UNCHANGED <<termVars, received>> /\ Waiting' = Waiting
           /\ toNode # <<>> /\ toNode' = Tail(toNode)
           /\ \/ UNCHANGED <<flip, cancon_inbuf>> /\ fault' = 1
              \/ \E s, u \in Seq(Nat) :
                    /\ Head(toNode).chars = s \o u /\ (fault' = 0 => u = <<>> /\ fault = 0)
                    /\ flip' \in Seq(Nat) /\ cancon_inbuf' \in Seq(Nat)
                    /\ flip' \o cancon_inbuf' = flip \o (cancon_inbuf \o s)
<1> DEFINE chars == Head(toNode).chars
           room == InRoom - Len(cancon_inbuf)
           n == IF Len(chars) <= room THEN Len(chars) ELSE room
           s == SubSeq(chars, 1, n)
           u == SubSeq(chars, n + 1, Len(chars))
           ring == Stored(chars)
<1>1. /\ toNode # <<>> /\ toNode' = Tail(toNode) /\ UNCHANGED termVars /\ fault' \in {0, 1}
      /\ UNCHANGED received
  BY DEF canobj_dat, InputInv, InputType, cantty_recv_dat, inVars
<1>2. /\ toNode' \in Seq(Packet) /\ PacketsKnown' /\ chars \in Seq(Nat)
      /\ Carried = Range(chars) \cup Carried'
  BY <1>1, PacketTaken
<1>3. /\ cancon_inbuf \in Seq(Nat) /\ flip \in Seq(Nat) /\ Len(cancon_inbuf) <= InRoom
      /\ Len(flip) <= FlipRoom /\ InRoom \in Nat /\ FlipRoom \in Nat
      /\ Len(flip) \in Nat /\ Len(cancon_inbuf) \in Nat /\ fault \in {0, 1} /\ cantty_myrefcount \in Nat
  BY TtyAssumption DEF InputInv, InputType
<1>4. /\ HistKnown' /\ Ascending(dat') /\ Queued' = Queued /\ Waiting' = Waiting
      /\ UNCHANGED <<typed, done, hist>>
  BY <1>1 DEF InputInv, HistKnown, QueuedInOrder, Queued, termVars, Waiting, Unsent
<1>5. CASE attached # 1
  <2>1. UNCHANGED inVars /\ fault' = 1
    BY <1>5 DEF canobj_dat
  <2>2. InputType'
    BY <1>1, <1>2, <2>1 DEF InputInv, InputType, termVars, inVars
  <2>3. SentSoFar' \subseteq SentSoFar
    BY <1>1, <1>2, <2>1 DEF SentSoFar, termVars, inVars
  <2>4. InputInv'
    BY <1>2, <1>4, <2>2, <2>3, NothingTaken
  <2> QED BY <1>1, <1>4, <2>1, <2>4 DEF inVars
<1>6. CASE attached = 1
  <2>1. /\ flip' = flip \o SubSeq(ring, 1, Pushed(ring))
        /\ cancon_inbuf' = SubSeq(ring, Pushed(ring) + 1, Len(ring))
        /\ UNCHANGED cantty_myrefcount
        /\ fault' = IF Len(chars) > room THEN 1 ELSE fault
    BY <1>6 DEF canobj_dat, cantty_recv_dat, Left
  <2>2. Len(chars) \in Nat /\ room \in Nat /\ n \in 0 .. Len(chars) /\ n <= room
    BY <1>2, <1>3
  <2>3. /\ s \in Seq(Nat) /\ Len(s) = n /\ u \in Seq(Nat) /\ chars = s \o u
        /\ Len(u) = Len(chars) - n
    BY <1>2, <2>2, Cut
  <2>4. ring = cancon_inbuf \o s
    <3>1. Len(chars) <= room => s = chars
      BY <1>2, SubSeqFull
    <3> QED BY <3>1 DEF Stored
  <2>5. fault' = 0 => u = <<>> /\ fault = 0
    <3>1. fault' = 0 => Len(chars) <= room /\ fault = 0
      BY <1>3, <2>1, <2>2
    <3>2. Len(chars) <= room => Len(u) = 0
      BY <2>2, <2>3
    <3> QED BY <2>3, <3>1, <3>2, EmptySeq
  <2> HIDE DEF chars, room, n, s, u
  <2>6. ring \in Seq(Nat) /\ Len(ring) <= InRoom /\ Len(ring) \in Nat
    <3>1. Len(cancon_inbuf \o s) = Len(cancon_inbuf) + Len(s) /\ cancon_inbuf \o s \in Seq(Nat)
      BY <1>3, <2>3, ConcatType, Zenon
    <3>2. Len(cancon_inbuf) + Len(s) <= InRoom
      BY <1>3, <2>2, <2>3 DEF room
    <3> QED BY <2>4, <3>1, <3>2
  <2> HIDE DEF ring
  <2>7. Pushed(ring) \in 0 .. Len(ring) /\ Pushed(ring) <= FlipRoom - Len(flip)
    BY <1>3, <2>6 DEF Pushed
  <2> DEFINE a == SubSeq(ring, 1, Pushed(ring))
             b == SubSeq(ring, Pushed(ring) + 1, Len(ring))
  <2>8. /\ a \in Seq(Nat) /\ Len(a) = Pushed(ring) /\ b \in Seq(Nat)
        /\ Len(b) = Len(ring) - Pushed(ring) /\ ring = a \o b
    BY <2>6, <2>7, Cut
  <2>9. flip' = flip \o a /\ cancon_inbuf' = b
    BY <2>1
  <2> HIDE DEF a, b
  <2>10. /\ flip' \in Seq(Nat) /\ Len(flip') = Len(flip) + Len(a)
         /\ flip' \o cancon_inbuf' = flip \o ring
    <3>1. (flip \o a) \o b = flip \o (a \o b)
      BY <1>3, <2>8, Associative, Zenon
    <3>2. flip \o a \in Seq(Nat) /\ Len(flip \o a) = Len(flip) + Len(a)
      BY <1>3, <2>8, ConcatType, Zenon
    <3> QED BY <2>8, <2>9, <3>1, <3>2
  <2>11. InputType'
    <3>1. Len(a) <= FlipRoom - Len(flip) /\ Len(a) \in Nat
      BY <2>6, <2>7, <2>8
    <3>2. Len(flip) + Len(a) <= FlipRoom
      BY <1>3, <3>1
    <3>3. Len(b) <= InRoom
      <4>1. Pushed(ring) \in Nat /\ Len(b) = Len(ring) - Pushed(ring)
        BY <2>6, <2>7, <2>8
      <4> QED BY <1>3, <2>6, <4>1
    <3>4. Len(flip') <= FlipRoom
      BY <2>10, <3>2
    <3>5. Len(cancon_inbuf') <= InRoom /\ cancon_inbuf' \in Seq(Nat)
      BY <2>8, <2>9, <3>3
    <3> QED BY <1>1, <1>2, <2>1, <2>10, <3>4, <3>5 DEF InputInv, InputType, termVars
  <2>12. Range(flip') \cup Range(cancon_inbuf') \subseteq Range(flip) \cup Range(cancon_inbuf) \cup Range(chars)
    <3>1. Range(flip') = Range(flip) \cup Range(a)
      BY <1>3, <2>8, <2>9, RangeConcatenation
    <3>2. Range(ring) = Range(a) \cup Range(b)
      BY <2>8, RangeConcatenation
    <3>3. Range(ring) = Range(cancon_inbuf) \cup Range(s)
      BY <1>3, <2>3, <2>4, RangeConcatenation
    <3>4. Range(chars) = Range(s) \cup Range(u)
      BY <2>3, RangeConcatenation
    <3> QED BY <2>9, <3>1, <3>2, <3>3, <3>4
  <2>13. SentSoFar' \subseteq SentSoFar
    BY <1>1, <1>2, <2>12 DEF SentSoFar, termVars, chars
  <2>14. InputInv'
    BY <1>2, <1>4, <2>11, <2>13, NothingTaken
  <2>15. \E x, y \in Seq(Nat) :
            /\ Head(toNode).chars = x \o y /\ (fault' = 0 => y = <<>> /\ fault = 0)
            /\ flip' \in Seq(Nat) /\ cancon_inbuf' \in Seq(Nat)
            /\ flip' \o cancon_inbuf' = flip \o (cancon_inbuf \o x)
    BY <2>3, <2>4, <2>5, <2>8, <2>9, <2>10 DEF chars
  <2> QED BY <1>1, <1>4, <2>14, <2>15
<1> QED BY <1>5, <1>6

(* It answers a break and halts. *)
LEMMA BreakKeeps ==
    ASSUME InputInv, canobj_break
    PROVE  /\ InputInv' /\ UNCHANGED <<termVars, inVars, fault>> /\ Waiting' = Waiting
           /\ toNode # <<>> /\ toNode' = Tail(toNode) /\ Head(toNode).chars = <<>>
<1>1. /\ UNCHANGED <<termVars, inVars, fault>> /\ toNode # <<>> /\ toNode' = Tail(toNode)
      /\ Head(toNode).object = "break"
  BY DEF canobj_break
<1>2. /\ toNode' \in Seq(Packet) /\ PacketsKnown' /\ Head(toNode).chars = <<>>
      /\ Carried = Range(Head(toNode).chars) \cup Carried'
  BY <1>1, PacketTaken
<1>3. InputType' /\ HistKnown'
  BY <1>1, <1>2 DEF InputInv, InputType, HistKnown, termVars, inVars
<1>4. Queued' = Queued /\ Ascending(dat') /\ UNCHANGED <<typed, done, hist>> /\ Waiting' = Waiting
  BY <1>1 DEF InputInv, QueuedInOrder, Queued, Waiting, Unsent, termVars
<1>5. SentSoFar' \subseteq SentSoFar
  BY <1>1, <1>2 DEF SentSoFar, termVars, inVars
<1> QED BY <1>1, <1>2, <1>3, <1>4, <1>5, NothingTaken

(* The tty layer reads the flip buffer. *)
LEMMA FlushKeeps ==
    ASSUME InputInv, FlushToLdisc
    PROVE  /\ InputInv' /\ UNCHANGED <<termVars, cancon_inbuf, toNode, fault>> /\ Waiting' = Waiting
           /\ received' = received \o flip /\ flip' = <<>> /\ AtNode' = AtNode
<1>1. /\ UNCHANGED <<termVars, cancon_inbuf, toNode, fault, cantty_myrefcount>>
      /\ received' = received \o flip /\ flip' = <<>>
  BY DEF FlushToLdisc, Tty, flush_to_ldisc, wireVars
<1>2. received \in Seq(Nat) /\ flip \in Seq(Nat) /\ Len(<<>>) = 0 /\ FlipRoom \in Nat
  BY TtyAssumption DEF InputInv, InputType
<1>3. /\ received \o flip \in Seq(Nat) /\ <<>> \in Seq(Nat) /\ Range(<<>>) = {}
      /\ (received \o flip) \o <<>> = received \o flip
      /\ Range(received \o flip) = Range(received) \cup Range(flip)
  <2>1. received \o flip \in Seq(Nat)
    BY <1>2, ConcatType, Zenon
  <2>2. (received \o flip) \o <<>> = received \o flip
    BY <2>1, EmptyConcat, Zenon
  <2>3. <<>> \in Seq(Nat) /\ Range(<<>>) = {}
    BY ShortSequences
  <2> QED BY <1>2, <2>1, <2>2, <2>3, RangeConcatenation
<1>4. InputType'
  <2>1. received' \in Seq(Nat) /\ flip' \in Seq(Nat) /\ Len(flip') <= FlipRoom
    BY <1>1, <1>2, <1>3
  <2> QED BY <1>1, <2>1 DEF InputInv, InputType, termVars
<1>5. HistKnown' /\ PacketsKnown' /\ Queued' = Queued /\ Ascending(dat') /\ Waiting' = Waiting
  BY <1>1 DEF InputInv, HistKnown, PacketsKnown, QueuedInOrder, Queued, Waiting, Unsent, termVars
<1>6. SentSoFar' \subseteq SentSoFar /\ UNCHANGED <<typed, done, hist>>
  BY <1>1, <1>3 DEF SentSoFar, Carried, termVars
<1>7. AtNode' = AtNode
  BY <1>1, <1>3 DEF AtNode
<1> QED BY <1>1, <1>4, <1>5, <1>6, <1>7, NothingTaken

(* Opens and closes, a hangup and a connection add nothing to what the     *)
(* node has; what they drop is a fault.                                    *)
LEMMA NodeKeeps ==
    ASSUME InputInv, Node
    PROVE  /\ InputInv' /\ UNCHANGED <<termVars, received, toNode>> /\ Waiting' = Waiting
           /\ flip' \in {flip, <<>>} /\ cancon_inbuf' \in {cancon_inbuf, <<>>}
           /\ fault' = 0 => fault = 0 /\ flip' = flip /\ cancon_inbuf' = cancon_inbuf
<1>1. /\ UNCHANGED <<termVars, received, toNode>> /\ fault' \in {0, 1}
      /\ flip' \in {flip, <<>>} /\ cancon_inbuf' \in {cancon_inbuf, <<>>}
      /\ cantty_myrefcount' \in Nat
      /\ fault' = 0 => fault = 0 /\ flip' = flip /\ cancon_inbuf' = cancon_inbuf
  <2>1. cantty_myrefcount \in Nat /\ fault \in {0, 1}
    BY DEF InputInv, InputType
  <2>2. CASE Tty(cantty_open, FALSE)
    BY <2>1, <2>2 DEF Tty, cantty_open, wireVars
  <2>3. CASE Tty(cantty_close, cantty_myrefcount = 1 /\ flip # <<>>)
    BY <2>1, <2>3 DEF Tty, cantty_close, wireVars
  <2>4. CASE Tty(cantty_hangup, TRUE)
    BY <2>1, <2>4 DEF Tty, cantty_hangup, wireVars
  <2>5. CASE Tty(canobj_connect, FALSE)
    BY <2>1, <2>5 DEF Tty, canobj_connect, wireVars
  <2> QED BY <2>2, <2>3, <2>4, <2>5 DEF Node
<1>2. Len(<<>>) = 0 /\ FlipRoom \in Nat /\ InRoom \in Nat /\ <<>> \in Seq(Nat) /\ Range(<<>>) = {}
  BY TtyAssumption, ShortSequences
<1>3. /\ flip' \in Seq(Nat) /\ Len(flip') <= FlipRoom /\ Range(flip') \subseteq Range(flip)
      /\ cancon_inbuf' \in Seq(Nat) /\ Len(cancon_inbuf') <= InRoom
      /\ Range(cancon_inbuf') \subseteq Range(cancon_inbuf)
  <2>1. flip' \in Seq(Nat) /\ Len(flip') <= FlipRoom /\ Range(flip') \subseteq Range(flip)
    <3>1. CASE flip' = flip
      BY <3>1 DEF InputInv, InputType
    <3>2. CASE flip' = <<>>
      BY <1>2, <3>2
    <3> QED BY <1>1, <3>1, <3>2
  <2>2. /\ cancon_inbuf' \in Seq(Nat) /\ Len(cancon_inbuf') <= InRoom
        /\ Range(cancon_inbuf') \subseteq Range(cancon_inbuf)
    <3>1. CASE cancon_inbuf' = cancon_inbuf
      BY <3>1 DEF InputInv, InputType
    <3>2. CASE cancon_inbuf' = <<>>
      BY <1>2, <3>2
    <3> QED BY <1>1, <3>1, <3>2
  <2> QED BY <2>1, <2>2
<1>4. InputType'
  BY <1>1, <1>3 DEF InputInv, InputType, termVars
<1>5. HistKnown' /\ PacketsKnown' /\ Queued' = Queued /\ Ascending(dat') /\ Waiting' = Waiting
  BY <1>1 DEF InputInv, HistKnown, PacketsKnown, QueuedInOrder, Queued, Waiting, Unsent, termVars
<1>6. SentSoFar' \subseteq SentSoFar /\ UNCHANGED <<typed, done, hist>>
  BY <1>1, <1>3 DEF SentSoFar, Carried, termVars
<1> QED BY <1>1, <1>4, <1>5, <1>6, NothingTaken

(* What the network loses is a fault. *)
LEMMA LoseKeeps ==
    ASSUME InputInv, Lose
    PROVE  /\ InputInv' /\ UNCHANGED <<termVars, inVars>> /\ fault' = 1
           /\ toNode' = toNode \/ (toNode # <<>> /\ toNode' = Tail(toNode))
<1>1. /\ UNCHANGED <<termVars, inVars>> /\ fault' = 1
      /\ toNode' = toNode \/ (toNode # <<>> /\ toNode' = Tail(toNode))
  BY DEF Lose
<1>2. toNode' \in Seq(Packet) /\ PacketsKnown' /\ Carried' \subseteq Carried
  <2>1. CASE toNode' = toNode
    BY <2>1 DEF InputInv, InputType, PacketsKnown, Carried
  <2>2. CASE toNode # <<>> /\ toNode' = Tail(toNode)
    BY <2>2, PacketTaken
  <2> QED BY <1>1, <2>1, <2>2
<1>3. InputType' /\ HistKnown'
  BY <1>1, <1>2 DEF InputInv, InputType, HistKnown, termVars, inVars
<1>4. Queued' = Queued /\ Ascending(dat') /\ UNCHANGED <<typed, done, hist>>
  BY <1>1 DEF InputInv, QueuedInOrder, Queued, termVars
<1>5. SentSoFar' \subseteq SentSoFar
  BY <1>1, <1>2 DEF SentSoFar, termVars, inVars
<1> QED BY <1>1, <1>2, <1>3, <1>4, <1>5, NothingTaken

(* Nothing is anywhere at first. *)
LEMMA InputInvInit == InputInit => InputInv
<1> SUFFICES ASSUME InputInit PROVE InputInv
  OBVIOUS
<1>1. /\ <<>> \in Seq(Nat) /\ <<>> \in Seq(Chars) /\ <<>> \in Seq(Packet) /\ Len(<<>>) = 0
      /\ DOMAIN <<>> = {}
  OBVIOUS
<1>2. Ascending(<<>>) /\ Range(<<>>) = {} /\ <<>> \o <<>> = <<>>
  BY <1>1, ShortSequences, EmptyConcat
<1>3. InputType
  BY <1>1, TermAssumption, TtyAssumption DEF InputInit, TermInit, TtyInit, InputType, Threads, Places
<1>4. HistKnown
  <2>1. hist = <<"cr", "cr">> /\ done = 0
    BY DEF InputInit, TermInit
  <2> QED BY <2>1 DEF HistKnown
<1>5. Queued = <<>> /\ Carried = {} /\ dat = <<>> /\ toNode = <<>>
  BY <1>1, <1>2 DEF InputInit, TermInit, TtyInit, Queued, Carried
<1>6. SentSoFar = {} /\ Range(Queued) = {}
  BY <1>2, <1>5 DEF InputInit, TtyInit, SentSoFar
<1> QED BY <1>1, <1>2, <1>3, <1>4, <1>5, <1>6 DEF InputInv, PassedOnly, QueuedInOrder, PacketsKnown

(* Every step keeps the types, the order and what is known of packets. *)
LEMMA InputInvStep == InputInv /\ [InputNext]_inputVars => InputInv'
<1> SUFFICES ASSUME InputInv, [InputNext]_inputVars PROVE InputInv'
  OBVIOUS
<1>1. CASE Read
  BY <1>1, ReadKeeps
<1>2. CASE TtyReader
  BY <1>2, ParseKeeps, SignalKeeps DEF TtyReader, Term
<1>3. CASE Writer
  BY <1>3, TakeKeeps, QuietKeeps DEF Writer, Term
<1>4. CASE reader \/ Disconnect \/ Term(SpuriousWakeup)
  BY <1>4, QuietKeeps
<1>5. CASE \E t \in Threads : Send(t) \/ Wait(t) \/ NoAnswer(t)
  BY <1>5, SendKeeps, WaitKeeps
<1>6. CASE canobj_dat \/ canobj_break
  BY <1>6, DatKeeps, BreakKeeps
<1>7. CASE FlushToLdisc \/ Node \/ Lose
  BY <1>7, FlushKeeps, NodeKeeps, LoseKeeps
<1>8. CASE UNCHANGED inputVars
  <2>1. UNCHANGED <<termVars, inVars, wireVars, fault>>
    BY <1>8 DEF inputVars
  <2>2. InputType' /\ HistKnown' /\ PacketsKnown' /\ Queued' = Queued /\ SentSoFar' = SentSoFar
    BY <2>1 DEF InputInv, InputType, HistKnown, PacketsKnown, Queued, SentSoFar, Carried, termVars,
                inVars, wireVars
  <2>3. Ascending(dat') /\ UNCHANGED <<typed, done, hist>>
    BY <2>1 DEF InputInv, QueuedInOrder, termVars
  <2> QED BY <2>2, <2>3, NothingTaken
<1> QED BY <1>1, <1>2, <1>3, <1>4, <1>5, <1>6, <1>7, <1>8 DEF InputNext

-----------------------------------------------------------------------------
(* Conserved, said of sets of places: each stage is in order, and what is  *)
(* farther was typed before.                                               *)
Precede(A, B) == \A j \in A, k \in B : j < k
InOrder ==
    /\ Ascending(AtNode) /\ Ascending(Waiting)
    /\ Precede(Range(AtNode), Carried) /\ Precede(Range(AtNode), Range(Waiting))
    /\ Precede(Carried, Range(Waiting))
    /\ \A m, n \in DOMAIN toNode :
        m < n => Precede(Range(toNode[m].chars), Range(toNode[n].chars))
AllThere == Range(AtNode) \cup Carried \cup Range(Waiting) = Meant(done)

(* What the node has are places in typed. *)
LEMMA AtNodeType ==
    ASSUME InputInv
    PROVE  /\ AtNode \in Seq(Nat) /\ AtNode = received \o (flip \o cancon_inbuf)
           /\ Range(AtNode) = Range(received) \cup Range(flip) \cup Range(cancon_inbuf)
<1>1. received \in Seq(Nat) /\ flip \in Seq(Nat) /\ cancon_inbuf \in Seq(Nat)
  BY DEF InputInv, InputType
<1>2. received \o flip \in Seq(Nat)
  BY <1>1, ConcatType, Zenon
<1>3. AtNode \in Seq(Nat)
  BY <1>1, <1>2, ConcatType, Zenon DEF AtNode
<1>4. AtNode = received \o (flip \o cancon_inbuf)
  BY <1>1, Associative, Zenon DEF AtNode
<1>5. Range(AtNode) = Range(received) \cup Range(flip) \cup Range(cancon_inbuf)
  <2>1. Range(received \o flip) = Range(received) \cup Range(flip)
    BY <1>1, RangeConcatenation
  <2> DEFINE s == received \o flip
  <2>2. s \in Seq(Nat) /\ AtNode = s \o cancon_inbuf /\ Range(s) = Range(received) \cup Range(flip)
    BY <1>2, <2>1 DEF AtNode
  <2> HIDE DEF s
  <2>3. Range(s \o cancon_inbuf) = Range(s) \cup Range(cancon_inbuf)
    BY <1>1, <2>2, RangeConcatenation
  <2> QED BY <2>2, <2>3
<1> QED BY <1>3, <1>4, <1>5

(* The stages, one by one. *)
LEMMA StagesKnown ==
    ASSUME InputInv
    PROVE  /\ Len(toNode) \in Nat /\ DOMAIN toNode = 1 .. Len(toNode)
           /\ DOMAIN Stages = 1 .. Len(toNode) + 2
           /\ Stages[1] = AtNode /\ Stages[Len(toNode) + 2] = Waiting
           /\ \A n \in DOMAIN toNode : Stages[n + 1] = toNode[n].chars
           /\ \A n \in DOMAIN toNode : toNode[n].chars \in Seq(Nat)
<1> DEFINE S == Seq(Nat)
           f == [n \in DOMAIN toNode |-> toNode[n].chars]
           a == <<AtNode>>
           w == <<Waiting>>
<1>1. Len(toNode) \in Nat /\ DOMAIN toNode = 1 .. Len(toNode) /\ toNode \in Seq(Packet)
  BY DEF InputInv, InputType
<1>2. ASSUME NEW n \in DOMAIN toNode PROVE toNode[n].chars \in S
  <2>1. toNode[n] \in Packet
    BY <1>1
  <2> QED BY <2>1 DEF Packet
<1> HIDE DEF S
<1>3. /\ f \in Seq(S) /\ Len(f) = Len(toNode)
      /\ \A n \in 1 .. Len(toNode) : f[n] = toNode[n].chars
  BY <1>1, <1>2
<1>4. AtNode \in Seq(Nat) /\ Waiting \in Seq(Nat)
  BY AtNodeType, UnsentType
<1>5. /\ a \in Seq(S) /\ Len(a) = 1 /\ a[1] = AtNode
      /\ w \in Seq(S) /\ Len(w) = 1 /\ w[1] = Waiting
  BY <1>4 DEF S
<1>6. Stages = (a \o f) \o w
  BY DEF Stages
<1> HIDE DEF f, a, w
<1> DEFINE g == a \o f
<1>7. /\ g \in Seq(S) /\ Len(g) = Len(toNode) + 1 /\ g[1] = AtNode
      /\ \A n \in 1 .. Len(toNode) : g[n + 1] = toNode[n].chars
  <2>1. /\ g \in Seq(S) /\ Len(g) = Len(a) + Len(f)
        /\ \A n \in 1 .. Len(a) : g[n] = a[n]
        /\ \A n \in 1 .. Len(f) : g[Len(a) + n] = f[n]
    <3>1. g \in Seq(S) /\ Len(g) = Len(a) + Len(f)
      BY <1>3, <1>5, ConcatProperties
    <3>2. \A n \in 1 .. Len(a) : g[n] = a[n]
      BY <1>3, <1>5, ConcatProperties
    <3>3. \A n \in 1 .. Len(f) : g[Len(a) + n] = f[n]
      <4>1. a \in Seq(S) /\ f \in Seq(S)
        BY <1>3, <1>5
      <4> QED BY <4>1, JoinedIndex
    <3> QED BY <3>1, <3>2, <3>3
  <2> HIDE DEF g
  <2>2. \A n \in 1 .. Len(toNode) : g[1 + n] = toNode[n].chars
    BY <1>1, <1>3, <1>5, <2>1
  <2> QED BY <1>1, <1>3, <1>5, <2>1, <2>2
<1>8. Stages = g \o w
  BY <1>6
<1> HIDE DEF g
<1>9. /\ Len(Stages) = Len(g) + Len(w) /\ DOMAIN Stages = 1 .. Len(Stages)
      /\ \A n \in 1 .. Len(g) : Stages[n] = g[n]
      /\ \A n \in 1 .. Len(w) : Stages[Len(g) + n] = w[n]
  <2> DEFINE h == g \o w
  <2>1. h \in Seq(S) /\ Len(h) = Len(g) + Len(w)
    BY <1>5, <1>7, ConcatProperties
  <2>2. \A n \in 1 .. Len(g) : h[n] = g[n]
    BY <1>5, <1>7, ConcatProperties
  <2>3. \A n \in 1 .. Len(w) : h[Len(g) + n] = w[n]
    BY <1>5, <1>7, ConcatProperties
  <2>4. Stages = h
    BY <1>8
  <2> HIDE DEF h
  <2>5. DOMAIN h = 1 .. Len(h)
    BY <2>1
  <2> QED BY <2>1, <2>2, <2>3, <2>4, <2>5
<1>10. Stages[Len(g) + 1] = w[1]
  BY <1>5, <1>9
<1>11. Len(g) + 1 = Len(toNode) + 2 /\ Len(g) + Len(w) = Len(toNode) + 2
  BY <1>1, <1>5, <1>7
<1>12. DOMAIN Stages = 1 .. Len(toNode) + 2 /\ Stages[Len(toNode) + 2] = Waiting
  BY <1>5, <1>9, <1>10, <1>11
<1>13. Stages[1] = AtNode /\ \A n \in 1 .. Len(toNode) : Stages[n + 1] = toNode[n].chars
  <2>1. 1 \in 1 .. Len(g) /\ \A n \in 1 .. Len(toNode) : n + 1 \in 1 .. Len(g)
    BY <1>1, <1>7
  <2> QED BY <1>7, <1>9, <2>1
<1> QED BY <1>1, <1>2, <1>12, <1>13 DEF S

(* The two ways to say it. *)
LEMMA ConservedParts ==
    ASSUME InputInv
    PROVE  Conserved <=> (fault = 0 => InOrder /\ AllThere)
<1> DEFINE End == Len(toNode) + 2
           Sorted == \A m \in DOMAIN Stages : Ascending(Stages[m])
           Ordered == \A m, n \in DOMAIN Stages : m < n => Before(Stages[m], Stages[n])
           All == UNION {Range(Stages[m]) : m \in DOMAIN Stages}
<1>1. /\ Len(toNode) \in Nat /\ DOMAIN toNode = 1 .. Len(toNode) /\ DOMAIN Stages = 1 .. End
      /\ Stages[1] = AtNode /\ Stages[End] = Waiting
      /\ \A n \in DOMAIN toNode : Stages[n + 1] = toNode[n].chars
      /\ \A n \in DOMAIN toNode : toNode[n].chars \in Seq(Nat)
  BY StagesKnown
<1>2. \A n \in DOMAIN toNode : n + 1 \in 1 .. End /\ 1 < n + 1 /\ n + 1 < End
  BY <1>1
<1>3. 1 \in 1 .. End /\ End \in 1 .. End /\ 1 < End
  BY <1>1
<1>4. \A m \in 1 .. End : m = 1 \/ m = End \/ \E n \in DOMAIN toNode : m = n + 1
  <2> SUFFICES ASSUME NEW m \in 1 .. End, m # 1, m # End PROVE \E n \in DOMAIN toNode : m = n + 1
    OBVIOUS
  <2>1. m - 1 \in DOMAIN toNode /\ m = (m - 1) + 1
    BY <1>1
  <2> QED BY <2>1
<1>5. AtNode \in Seq(Nat) /\ Waiting \in Seq(Nat)
  BY AtNodeType, UnsentType
<1>6. \A s, u \in Seq(Nat) : Before(s, u) <=> Precede(Range(s), Range(u))
  BY BeforeRange DEF Precede
<1>7. Sorted <=> Ascending(AtNode) /\ Ascending(Waiting)
  <2>1. \A n \in DOMAIN toNode : Ascending(toNode[n].chars)
    BY DEF InputInv, PacketsKnown
  <2>2. ASSUME Ascending(AtNode), Ascending(Waiting), NEW m \in DOMAIN Stages PROVE Ascending(Stages[m])
    BY <1>1, <1>4, <2>1, <2>2
  <2>3. ASSUME Sorted PROVE Ascending(AtNode) /\ Ascending(Waiting)
    BY <1>1, <1>3, <2>3
  <2> QED BY <2>2, <2>3
<1>8. All = Range(AtNode) \cup Carried \cup Range(Waiting)
  <2>1. ASSUME NEW k \in All PROVE k \in Range(AtNode) \cup Carried \cup Range(Waiting)
    <3>1. PICK m \in DOMAIN Stages : k \in Range(Stages[m])
      OBVIOUS
    <3>2. m = 1 \/ m = End \/ \E n \in DOMAIN toNode : m = n + 1
      BY <1>1, <1>4
    <3> QED BY <1>1, <3>1, <3>2 DEF Carried
  <2>2. ASSUME NEW k \in Carried PROVE k \in All
    <3>1. PICK n \in DOMAIN toNode : k \in Range(toNode[n].chars)
      BY DEF Carried
    <3>2. n + 1 \in DOMAIN Stages /\ k \in Range(Stages[n + 1])
      BY <1>1, <1>2, <3>1
    <3> QED BY <3>2
  <2>3. Range(AtNode) \subseteq All /\ Range(Waiting) \subseteq All
    <3>1. 1 \in DOMAIN Stages /\ End \in DOMAIN Stages
      BY <1>1, <1>3
    <3> QED BY <1>1, <3>1
  <2> QED BY <2>1, <2>2, <2>3
<1> DEFINE Parts ==
        /\ Precede(Range(AtNode), Carried) /\ Precede(Range(AtNode), Range(Waiting))
        /\ Precede(Carried, Range(Waiting))
        /\ \A m, n \in DOMAIN toNode :
            m < n => Precede(Range(toNode[m].chars), Range(toNode[n].chars))
<1>9. ASSUME Ordered PROVE Parts
  <2>1. Precede(Range(AtNode), Range(Waiting))
    BY <1>1, <1>3, <1>5, <1>6, <1>9
  <2>2. ASSUME NEW n \in DOMAIN toNode
        PROVE  /\ Precede(Range(AtNode), Range(toNode[n].chars))
               /\ Precede(Range(toNode[n].chars), Range(Waiting))
    <3>1. Before(Stages[1], Stages[n + 1]) /\ Before(Stages[n + 1], Stages[End])
      BY <1>1, <1>2, <1>3, <1>9
    <3> QED BY <1>1, <1>5, <1>6, <3>1
  <2>3. ASSUME NEW m \in DOMAIN toNode, NEW n \in DOMAIN toNode, m < n
        PROVE  Precede(Range(toNode[m].chars), Range(toNode[n].chars))
    <3>1. m + 1 < n + 1 /\ m + 1 \in DOMAIN Stages /\ n + 1 \in DOMAIN Stages
      BY <1>1, <1>2, <2>3
    <3>2. Before(Stages[m + 1], Stages[n + 1])
      BY <1>9, <3>1
    <3> QED BY <1>1, <1>6, <3>2
  <2>4. Precede(Range(AtNode), Carried) /\ Precede(Carried, Range(Waiting))
    BY <2>2 DEF Precede, Carried
  <2> QED BY <2>1, <2>3, <2>4
<1>10. ASSUME Parts PROVE Ordered
  <2>1. ASSUME NEW n \in DOMAIN toNode
        PROVE  Before(AtNode, toNode[n].chars) /\ Before(toNode[n].chars, Waiting)
    <3>1. Range(toNode[n].chars) \subseteq Carried
      BY DEF Carried
    <3>2. /\ Precede(Range(AtNode), Range(toNode[n].chars))
          /\ Precede(Range(toNode[n].chars), Range(Waiting))
      BY <1>10, <3>1 DEF Precede
    <3> QED BY <1>1, <1>5, <1>6, <3>2
  <2>2. Before(AtNode, Waiting)
    BY <1>5, <1>6, <1>10
  <2>3. \A m, n \in DOMAIN toNode : m < n => Before(toNode[m].chars, toNode[n].chars)
    BY <1>1, <1>6, <1>10
  <2> SUFFICES ASSUME NEW m \in 1 .. End, NEW n \in 1 .. End, m < n
               PROVE  Before(Stages[m], Stages[n])
    BY <1>1
  <2>4. CASE m = 1
    <3>1. n = End \/ \E v \in DOMAIN toNode : n = v + 1
      BY <1>4, <2>4
    <3> QED BY <1>1, <2>1, <2>2, <2>4, <3>1
  <2>5. CASE m # 1
    <3>1. m # End /\ n # 1
      BY <1>1
    <3>2. PICK v \in DOMAIN toNode : m = v + 1
      BY <1>4, <2>5, <3>1
    <3>3. CASE n = End
      BY <1>1, <2>1, <3>2, <3>3
    <3>4. CASE n # End
      <4>1. PICK x \in DOMAIN toNode : n = x + 1
        BY <1>4, <3>1, <3>4
      <4>2. v < x
        BY <1>1, <3>2, <4>1
      <4> QED BY <1>1, <2>3, <3>2, <4>1, <4>2
    <3> QED BY <3>3, <3>4
  <2> QED BY <2>4, <2>5
<1>11. Conserved <=> (fault = 0 => Sorted /\ Ordered /\ All = Meant(done))
  BY DEF Conserved
<1>12. InOrder <=> Ascending(AtNode) /\ Ascending(Waiting) /\ Parts
  BY DEF InOrder
<1> HIDE DEF Sorted, Ordered, All, Parts
<1> QED BY <1>7, <1>8, <1>9, <1>10, <1>11, <1>12 DEF AllThere

(* What is on its way was passed on. *)
LEMMA StagesPassedOn ==
    ASSUME InputInv
    PROVE  /\ Range(AtNode) \subseteq SentSoFar /\ Carried \subseteq SentSoFar
           /\ Range(Waiting) \subseteq SentSoFar \cup Range(Queued)
<1>1. Range(AtNode) \subseteq SentSoFar /\ Carried \subseteq SentSoFar
  BY AtNodeType DEF SentSoFar
<1>2. Unsent \in Seq(Nat) /\ Waiting = Unsent \o Queued /\ Queued \in Seq(Nat)
  BY UnsentType, QueueTypes
<1>3. Range(Waiting) = Range(Unsent) \cup Range(Queued)
  BY <1>2, RangeConcatenation
<1>4. Range(Unsent) \subseteq Range(dat)
  BY ShortSequences DEF Unsent
<1> QED BY <1>1, <1>3, <1>4 DEF SentSoFar

(* A character that is parsed is behind all others. *)
LEMMA ParseConserves ==
    ASSUME InputInv, Parse, UNCHANGED <<inVars, wireVars>>, InOrder, AllThere
    PROVE  InOrder' /\ AllThere'
<1> DEFINE new == PassedOn(typed[done + 1], done + 1)
<1>1. /\ new \in Seq(Nat) /\ Ascending(new) /\ Latest \in Int
      /\ \A k \in Range(new) : k \in 1 .. Latest' /\ Latest < k
      /\ Meant(done)' = Meant(done) \cup Range(new)
  BY ParsePasses
<1>2. Waiting' = Waiting \o new
  BY ParseKeeps
<1> HIDE DEF new
<1>3. AtNode' = AtNode /\ toNode' = toNode /\ Carried' = Carried
  BY DEF AtNode, Carried, inVars, wireVars
<1>4. Waiting \in Seq(Nat) /\ Ascending(Waiting)
  BY UnsentType DEF InOrder
<1>5. Range(Waiting') = Range(Waiting) \cup Range(new)
  BY <1>1, <1>2, <1>4, RangeConcatenation
<1>6. \A j \in SentSoFar \cup Range(Queued), k \in Range(new) : j < k
  <2> SUFFICES ASSUME NEW j \in SentSoFar \cup Range(Queued), NEW k \in Range(new) PROVE j < k
    OBVIOUS
  <2>1. j \in 1 .. Latest /\ Latest < k /\ k \in Int
    BY <1>1 DEF InputInv, PassedOnly
  <2> QED BY <1>1, <2>1
<1>7. \A j \in Range(AtNode) \cup Carried \cup Range(Waiting), k \in Range(new) : j < k
  BY <1>6, StagesPassedOn
<1>8. Ascending(Waiting')
  <2>1. Before(Waiting, new)
    BY <1>1, <1>4, <1>7, BeforeRange
  <2> QED BY <1>1, <1>2, <1>4, <2>1, AscendingConcat
<1>9. InOrder'
  <2>1. Ascending(AtNode') /\ Precede(Range(AtNode'), Carried')
    BY <1>3 DEF InOrder
  <2>2. Precede(Range(AtNode'), Range(Waiting')) /\ Precede(Carried', Range(Waiting'))
    BY <1>3, <1>5, <1>7 DEF InOrder, Precede
  <2>3. \A m, n \in DOMAIN toNode' :
            m < n => Precede(Range(toNode'[m].chars), Range(toNode'[n].chars))
    BY <1>3 DEF InOrder
  <2> QED BY <1>8, <2>1, <2>2, <2>3 DEF InOrder
<1>10. AllThere'
  BY <1>1, <1>3, <1>5 DEF AllThere
<1> QED BY <1>9, <1>10

(* A packet that is sent is behind the others, and before what still waits. *)
LEMMA SentConserves ==
    ASSUME InputInv, InputInv', NEW p \in Packet, toNode' = Append(toNode, p), Ascending(p.chars),
           p.object = "break" => p.chars = <<>>,
           Waiting = p.chars \o Waiting', AtNode' = AtNode, Meant(done)' = Meant(done), InOrder, AllThere
    PROVE  InOrder' /\ AllThere'
<1>1. Carried' = Carried \cup Range(p.chars)
  BY PacketAdded
<1>2. p.chars \in Seq(Nat) /\ Waiting' \in Seq(Nat)
  <2>1. Unsent' \in Seq(Nat) /\ outchars' \in Seq(Nat) /\ outbuf' \in Seq(Nat)
    BY EmptyConcat DEF InputInv, InputType, Unsent
  <2>2. Waiting' \in Seq(Nat)
    BY <2>1, ConcatType, Zenon DEF Waiting
  <2> QED BY <2>2 DEF Packet
<1>3. /\ Range(Waiting) = Range(p.chars) \cup Range(Waiting')
      /\ Ascending(Waiting') /\ Precede(Range(p.chars), Range(Waiting'))
  <2>1. Ascending(p.chars \o Waiting')
    BY DEF InOrder
  <2>2. Range(p.chars \o Waiting') = Range(p.chars) \cup Range(Waiting')
    BY <1>2, RangeConcatenation
  <2>3. Ascending(Waiting') /\ Before(p.chars, Waiting')
    BY <1>2, <2>1, AscendingConcat
  <2> QED BY <1>2, <2>2, <2>3, BeforeRange DEF Precede
<1>4. /\ Len(toNode) \in Nat /\ DOMAIN toNode = 1 .. Len(toNode)
      /\ DOMAIN toNode' = 1 .. Len(toNode) + 1
      /\ \A n \in 1 .. Len(toNode) : toNode'[n] = toNode[n]
      /\ toNode'[Len(toNode) + 1] = p
  <2>1. toNode \in Seq(Packet) /\ toNode' = Append(toNode, p)
    BY DEF InputInv, InputType
  <2> QED BY <2>1, AppendProperties
<1>5. /\ Precede(Range(AtNode'), Carried') /\ Precede(Range(AtNode'), Range(Waiting'))
      /\ Precede(Carried', Range(Waiting'))
  BY <1>1, <1>3 DEF InOrder, Precede
<1>6. ASSUME NEW m \in DOMAIN toNode', NEW n \in DOMAIN toNode', m < n
      PROVE  Precede(Range(toNode'[m].chars), Range(toNode'[n].chars))
  <2>1. m \in DOMAIN toNode /\ toNode'[m] = toNode[m]
    BY <1>4, <1>6
  <2>2. CASE n \in DOMAIN toNode
    BY <1>4, <1>6, <2>1, <2>2 DEF InOrder
  <2>3. CASE n \notin DOMAIN toNode
    <3>1. toNode'[n] = p
      BY <1>4, <2>3
    <3>2. Range(toNode[m].chars) \subseteq Carried
      BY <2>1 DEF Carried
    <3> QED BY <1>3, <2>1, <3>1, <3>2 DEF InOrder, Precede
  <2> QED BY <2>2, <2>3
<1>7. InOrder'
  BY <1>3, <1>5, <1>6 DEF InOrder
<1>8. AllThere'
  BY <1>1, <1>3 DEF AllThere
<1> QED BY <1>7, <1>8

(* The packet that arrives is the oldest, and goes behind what is there. *)
LEMMA ArrivedConserves ==
    ASSUME InputInv, toNode # <<>>, toNode' = Tail(toNode), AtNode' = AtNode \o Head(toNode).chars,
           Waiting' = Waiting, Meant(done)' = Meant(done), InOrder, AllThere
    PROVE  InOrder' /\ AllThere'
<1> DEFINE chars == Head(toNode).chars
<1>1. /\ Carried = Range(chars) \cup Carried' /\ Head(toNode) = toNode[1] /\ 1 \in DOMAIN toNode
      /\ chars \in Seq(Nat) /\ Ascending(chars)
  BY PacketTaken
<1> HIDE DEF chars
<1>2. /\ Len(toNode) \in Nat /\ DOMAIN toNode = 1 .. Len(toNode)
      /\ DOMAIN toNode' = 1 .. Len(toNode) - 1
      /\ \A n \in 1 .. Len(toNode) - 1 : toNode'[n] = toNode[n + 1]
  BY HeadTailProperties DEF InputInv, InputType
<1>3. AtNode \in Seq(Nat) /\ AtNode' = AtNode \o chars
  BY AtNodeType DEF chars
<1>4. Range(AtNode') = Range(AtNode) \cup Range(chars)
  BY <1>1, <1>3, RangeConcatenation
<1>5. Precede(Range(chars), Carried')
  <2> SUFFICES ASSUME NEW j \in Range(chars), NEW n \in DOMAIN toNode',
                      NEW k \in Range(toNode'[n].chars)
               PROVE  j < k
    BY DEF Precede, Carried
  <2>1. n + 1 \in DOMAIN toNode /\ 1 < n + 1 /\ toNode'[n] = toNode[n + 1]
    BY <1>2
  <2>2. Precede(Range(toNode[1].chars), Range(toNode[n + 1].chars))
    BY <1>1, <2>1 DEF InOrder
  <2> QED BY <1>1, <2>1, <2>2 DEF Precede, chars
<1>6. Ascending(AtNode')
  <2>1. Before(AtNode, chars)
    BY <1>1, <1>3, BeforeRange DEF InOrder, Precede
  <2> QED BY <1>1, <1>3, <2>1, AscendingConcat DEF InOrder
<1>7. /\ Precede(Range(AtNode'), Carried') /\ Precede(Range(AtNode'), Range(Waiting'))
      /\ Precede(Carried', Range(Waiting'))
  BY <1>1, <1>4, <1>5 DEF InOrder, Precede
<1>8. ASSUME NEW m \in DOMAIN toNode', NEW n \in DOMAIN toNode', m < n
      PROVE  Precede(Range(toNode'[m].chars), Range(toNode'[n].chars))
  <2>1. /\ m + 1 \in DOMAIN toNode /\ n + 1 \in DOMAIN toNode /\ m + 1 < n + 1
        /\ toNode'[m] = toNode[m + 1] /\ toNode'[n] = toNode[n + 1]
    BY <1>2, <1>8
  <2> QED BY <2>1 DEF InOrder
<1>9. Ascending(Waiting')
  BY DEF InOrder
<1>10. InOrder'
  BY <1>6, <1>7, <1>8, <1>9 DEF InOrder
<1>11. AllThere'
  BY <1>1, <1>4 DEF AllThere
<1> QED BY <1>10, <1>11

(* Nothing moves between stages. *)
LEMMA StillConserves ==
    ASSUME AtNode' = AtNode, toNode' = toNode, Waiting' = Waiting, Meant(done)' = Meant(done),
           InOrder, AllThere
    PROVE  InOrder' /\ AllThere'
<1>1. Carried' = Carried
  BY DEF Carried
<1> QED BY <1>1 DEF InOrder, AllThere


(* Every step conserves what is typed, or is a fault. *)
LEMMA ConservedStep ==
    ASSUME InputInv, Conserved, [InputNext]_inputVars
    PROVE  Conserved'
<1>1. InputInv'
  BY InputInvStep
<1>2. SUFFICES ASSUME fault' = 0 PROVE InOrder' /\ AllThere'
  <2>1. (InputInv => (Conserved <=> (fault = 0 => InOrder /\ AllThere)))'
    BY ConservedParts, PTL
  <2> QED BY <1>1, <2>1
<1>3. fault = 0 => InOrder /\ AllThere
  BY ConservedParts
<1>4. CASE Read
  <2>1. /\ UNCHANGED <<outbuf, outchars, dat, fault>> /\ UNCHANGED <<inVars, wireVars>>
        /\ at'["writer"] = at["writer"]
    BY <1>4 DEF Read, Term, Typed, Go, InputInv, InputType, Threads
  <2>2. AtNode' = AtNode /\ Waiting' = Waiting /\ toNode' = toNode
    BY <2>1 DEF AtNode, Waiting, Unsent, inVars, wireVars
  <2> QED BY <1>2, <1>3, <1>4, <2>1, <2>2, ReadKeeps, StillConserves
<1>5. CASE TtyReader
  <2>1. CASE Parse
    <3>1. fault' = fault /\ UNCHANGED <<inVars, wireVars>>
      BY <1>5, <2>1 DEF TtyReader, Term, Parse
    <3> QED BY <1>2, <1>3, <2>1, <3>1, ParseConserves
  <2>2. CASE signal_outchars
    <3>1. UNCHANGED <<inVars, wireVars>> /\ UNCHANGED <<typed, done>>
      BY <1>5, <2>2 DEF TtyReader, Term, signal_outchars
    <3>2. fault = 0
      BY <1>2, <2>2 DEF signal_outchars, InputInv, InputType
    <3>3. AtNode' = AtNode /\ toNode' = toNode
      BY <3>1 DEF AtNode, inVars, wireVars
    <3>4. Waiting' = Waiting
      BY <1>2, <2>2, <3>1, SignalKeeps
    <3> QED BY <1>3, <3>1, <3>2, <3>3, <3>4, MeantStays, StillConserves
  <2> QED BY <1>5, <2>1, <2>2 DEF TtyReader, Term
<1>6. CASE Writer /\ waitfor_outchars
  <2>1. UNCHANGED <<inVars, wireVars>> /\ UNCHANGED <<typed, done, fault>>
    BY <1>6 DEF Writer, Term, waitfor_outchars
  <2>2. AtNode' = AtNode /\ toNode' = toNode
    BY <2>1 DEF AtNode, inVars, wireVars
  <2>3. Waiting' = Waiting
    BY <1>6, <2>1, TakeKeeps
  <2> QED BY <1>2, <1>3, <2>1, <2>2, <2>3, MeantStays, StillConserves
<1>7. CASE (Writer /\ waitfor_outchars_sleep) \/ reader \/ Disconnect \/ Term(SpuriousWakeup)
  <2>1. /\ Waiting' = Waiting
        /\ UNCHANGED <<typed, done, received, flip, cancon_inbuf, toNode, fault>>
    BY <1>7, QuietKeeps DEF Writer, Term
  <2>2. AtNode' = AtNode
    BY <2>1 DEF AtNode
  <2> QED BY <1>2, <1>3, <2>1, <2>2, MeantStays, StillConserves
<1>8. ASSUME NEW t \in Threads, Send(t) PROVE InOrder' /\ AllThere'
  <2>1. /\ UNCHANGED <<typed, done, dat, received, flip, cancon_inbuf, fault>> /\ Queued' = Queued
        /\ at[t] = "send" /\ at' = [at EXCEPT ![t] = "wait"]
    BY <1>8, SendKeeps
  <2>2. PICK p \in Packet : /\ toNode' = Append(toNode, p) /\ Ascending(p.chars)
                            /\ p.chars = IF t = "writer" THEN dat ELSE <<>>
                            /\ p.object = "break" => p.chars = <<>>
    BY <1>8, SendKeeps
  <2>3. /\ Waiting = Unsent \o Queued /\ Unsent \in Seq(Nat) /\ Queued \in Seq(Nat)
        /\ Unsent' \in Seq(Nat) /\ Waiting' = Unsent' \o Queued'
    <3>1. (InputInv => Unsent \in Seq(Nat) /\ Waiting = Unsent \o Queued)'
      BY UnsentType, PTL
    <3> QED BY <1>1, <3>1, UnsentType, QueueTypes
  <2>4. Waiting = p.chars \o Waiting'
    <3>1. CASE t = "writer"
      <4>1. Unsent = dat /\ Unsent' = <<>> /\ p.chars = dat
        BY <2>1, <2>2, <3>1 DEF Unsent, InputInv, InputType
      <4>2. <<>> \o Queued = Queued
        BY <2>3, EmptyConcat, Zenon
      <4> QED BY <2>1, <2>3, <4>1, <4>2
    <3>2. CASE t # "writer"
      <4>1. Unsent' = Unsent /\ p.chars = <<>>
        BY <2>1, <2>2, <3>2 DEF Unsent, InputInv, InputType, Threads
      <4>2. Waiting' = Waiting /\ Waiting \in Seq(Nat)
        BY <2>1, <2>3, <4>1, UnsentType
      <4>3. <<>> \o Waiting = Waiting
        BY <4>2, EmptyConcat, Zenon
      <4> QED BY <4>1, <4>2, <4>3
    <3> QED BY <3>1, <3>2
  <2>5. AtNode' = AtNode
    BY <2>1 DEF AtNode
  <2> QED BY <1>1, <1>2, <1>3, <2>1, <2>2, <2>4, <2>5, MeantStays, SentConserves
<1>9. ASSUME NEW t \in Threads, Wait(t) \/ NoAnswer(t) PROVE InOrder' /\ AllThere'
  <2>1. /\ UNCHANGED <<typed, done, received, flip, cancon_inbuf, toNode>> /\ Waiting' = Waiting
        /\ fault = 0
    BY <1>2, <1>9, WaitKeeps DEF Wait, NoAnswer, Term, waitfor_acknak, waitfor_acknak_timeout
  <2>2. AtNode' = AtNode
    BY <2>1 DEF AtNode
  <2> QED BY <1>3, <2>1, <2>2, MeantStays, StillConserves
<1>10. CASE canobj_dat
  <2>1. /\ UNCHANGED <<termVars, received>> /\ Waiting' = Waiting
        /\ toNode # <<>> /\ toNode' = Tail(toNode)
    BY <1>10, DatKeeps
  <2>2. PICK s \in Seq(Nat), u \in Seq(Nat) :
            /\ Head(toNode).chars = s \o u /\ u = <<>> /\ fault = 0
            /\ flip' \in Seq(Nat) /\ cancon_inbuf' \in Seq(Nat)
            /\ flip' \o cancon_inbuf' = flip \o (cancon_inbuf \o s)
    <3>1. \E s, u \in Seq(Nat) :
            /\ Head(toNode).chars = s \o u /\ (fault' = 0 => u = <<>> /\ fault = 0)
            /\ flip' \in Seq(Nat) /\ cancon_inbuf' \in Seq(Nat)
            /\ flip' \o cancon_inbuf' = flip \o (cancon_inbuf \o s)
      <4>1. ~(UNCHANGED <<flip, cancon_inbuf>> /\ fault' = 1)
        BY <1>2
      <4> QED BY <1>10, <4>1, DatKeeps, Zenon
    <3> QED BY <1>2, <3>1, Zenon
  <2>3. Head(toNode).chars = s
    BY <2>2, EmptyConcat
  <2>4. AtNode' = AtNode \o s
    <3>1. received \in Seq(Nat) /\ flip \in Seq(Nat) /\ cancon_inbuf \in Seq(Nat)
      BY DEF InputInv, InputType
    <3>2. AtNode' = received \o (flip' \o cancon_inbuf')
      <4>1. (InputInv => AtNode = received \o (flip \o cancon_inbuf))'
        BY AtNodeType, PTL
      <4> QED BY <1>1, <2>1, <4>1
    <3>3. AtNode = received \o (flip \o cancon_inbuf)
      BY AtNodeType
    <3>4. received \o (flip \o (cancon_inbuf \o s)) = (received \o (flip \o cancon_inbuf)) \o s
      <4>1. received \in Seq(Nat) /\ flip \in Seq(Nat) /\ cancon_inbuf \in Seq(Nat) /\ s \in Seq(Nat)
        BY <3>1
      <4>2. \A x, v, w \in Seq(Nat) : received \o (x \o (v \o w)) = (received \o (x \o v)) \o w
        BY <4>1, Regroup, Zenon
      <4>3. \A v, w \in Seq(Nat) : received \o (flip \o (v \o w)) = (received \o (flip \o v)) \o w
        BY <4>1, <4>2, Zenon
      <4> QED BY <4>1, <4>3, Zenon
    <3> QED BY <2>2, <3>2, <3>3, <3>4
  <2>5. typed' = typed /\ done' = done
    BY <2>1 DEF termVars
  <2> QED BY <1>3, <2>1, <2>2, <2>3, <2>4, <2>5, MeantStays, ArrivedConserves
<1>11. CASE canobj_break
  <2>1. /\ UNCHANGED <<termVars, inVars, fault>> /\ Waiting' = Waiting
        /\ toNode # <<>> /\ toNode' = Tail(toNode) /\ Head(toNode).chars = <<>>
    BY <1>11, BreakKeeps
  <2>2. AtNode' = AtNode /\ typed' = typed /\ done' = done
    BY <2>1 DEF AtNode, termVars, inVars
  <2>3. AtNode \o <<>> = AtNode
    BY AtNodeType, EmptyConcat, Zenon
  <2> QED BY <1>2, <1>3, <2>1, <2>2, <2>3, MeantStays, ArrivedConserves
<1>12. CASE FlushToLdisc
  <2>1. UNCHANGED <<termVars, toNode, fault>> /\ Waiting' = Waiting /\ AtNode' = AtNode
    BY <1>12, FlushKeeps
  <2>2. typed' = typed /\ done' = done
    BY <2>1 DEF termVars
  <2> QED BY <1>2, <1>3, <2>1, <2>2, MeantStays, StillConserves
<1>13. CASE Node
  <2>1. /\ UNCHANGED <<termVars, received, toNode>> /\ Waiting' = Waiting
        /\ fault = 0 /\ flip' = flip /\ cancon_inbuf' = cancon_inbuf
    BY <1>2, <1>13, NodeKeeps
  <2>2. AtNode' = AtNode /\ typed' = typed /\ done' = done
    BY <2>1 DEF AtNode, termVars
  <2> QED BY <1>3, <2>1, <2>2, MeantStays, StillConserves
<1>14. CASE Lose
  BY <1>2, <1>14 DEF Lose
<1>15. CASE UNCHANGED inputVars
  <2>1. /\ AtNode' = AtNode /\ Waiting' = Waiting /\ UNCHANGED <<toNode, fault, typed, done>>
    BY <1>15 DEF inputVars, termVars, inVars, wireVars, AtNode, Waiting, Unsent
  <2> QED BY <1>2, <1>3, <2>1, MeantStays, StillConserves
<1> QED BY <1>4, <1>5, <1>6, <1>7, <1>8, <1>9, <1>10, <1>11, <1>12, <1>13, <1>14, <1>15
    DEF InputNext, Writer, Term

(* At first nothing was typed, and nothing is anywhere. *)
LEMMA ConservedInit == InputInit => Conserved
<1> SUFFICES ASSUME InputInit PROVE InOrder /\ AllThere
  BY InputInvInit, ConservedParts
<1>1. <<>> \in Seq(Nat) /\ <<>> \o <<>> = <<>> /\ Ascending(<<>>) /\ Range(<<>>) = {} /\ DOMAIN <<>> = {}
  <2>1. <<>> \in Seq(Nat) /\ DOMAIN <<>> = {}
    OBVIOUS
  <2> QED BY <2>1, EmptyConcat, ShortSequences
<1>2. AtNode = <<>> /\ Waiting = <<>> /\ toNode = <<>> /\ Carried = {} /\ done = 0
  BY <1>1 DEF InputInit, TermInit, TtyInit, AtNode, Waiting, Unsent, Carried
<1>3. Meant(done) = {}
  BY <1>2 DEF Meant
<1> QED BY <1>1, <1>2, <1>3 DEF InOrder, AllThere, Precede

(* What is typed at cancon, but for escape sequences, gets to the node     *)
(* once and in order, or is on its way there: for every mix of typing,     *)
(* sending, answering and reading, and all sizes of buffers and packets,   *)
(* as long as nothing is lost or late (cancon.c:288-337, 452-493;          *)
(* can_console.c:305-328).                                                 *)
THEOREM TypedOnceInOrder == InputSpec => []Conserved
<1>1. InputInit => InputInv /\ Conserved
  BY InputInvInit, ConservedInit
<1>2. InputInv /\ Conserved /\ [InputNext]_inputVars => InputInv' /\ Conserved'
  BY InputInvStep, ConservedStep
<1> QED BY <1>1, <1>2, PTL DEF InputSpec

-----------------------------------------------------------------------------
(* There is no copy of what is not there. *)
LEMMA CopiesNone ==
    ASSUME NEW s, NEW k, k \notin Range(s)
    PROVE  Copies(s, k) = 0
<1>1. {n \in DOMAIN s : s[n] = k} = {}
  BY DEF Range
<1>2. Cardinality({}) = 0
  BY FS_EmptySet
<1> QED BY <1>1, <1>2 DEF Copies

(* One packet carries a character or does not. *)
LEMMA CopiesOne ==
    ASSUME NEW b \in {0, 1}
    PROVE  <<b>> \in Seq(Nat) /\ Copies(<<b>>, 1) = b
<1>1. <<b>> \in Seq(Nat) /\ Ascending(<<b>>) /\ Range(<<b>>) = {b}
  BY ShortSequences
<1>2. CASE b = 0
  <2>1. 1 \notin Range(<<b>>)
    BY <1>1, <1>2
  <2> QED BY <1>1, <1>2, <2>1, CopiesNone
<1>3. CASE b = 1
  <2> DEFINE s == <<b>>
  <2>1. s \in Seq(Nat) /\ DOMAIN s = {1} /\ s[1] = 1
    BY <1>3
  <2> HIDE DEF s
  <2>2. {n \in DOMAIN s : s[n] = 1} = {1}
    BY <2>1
  <2>3. Copies(s, 1) = 1
    BY <2>2, FS_Singleton DEF Copies
  <2> QED BY <1>1, <1>3, <2>3 DEF s
<1> QED BY <1>2, <1>3

(* The numbers CopiesOf adds. *)
Countable ==
    \A k : /\ Copies(received, k) \in Nat /\ Copies(flip, k) \in Nat /\ Copies(cancon_inbuf, k) \in Nat
           /\ Carry(k) \in Seq(Nat) /\ Copies(Carry(k), 1) \in Nat
(* They are numbers. *)
LEMMA CopiesTypes == InputInv => Countable
<1> SUFFICES ASSUME InputInv, NEW k
             PROVE  /\ Copies(received, k) \in Nat /\ Copies(flip, k) \in Nat
                    /\ Copies(cancon_inbuf, k) \in Nat
                    /\ Carry(k) \in Seq(Nat) /\ Copies(Carry(k), 1) \in Nat
  BY DEF Countable
<1>1. received \in Seq(Nat) /\ flip \in Seq(Nat) /\ cancon_inbuf \in Seq(Nat)
  BY DEF InputInv, InputType
<1>2. Copies(received, k) \in Nat
  BY <1>1, CopiesNat
<1>3. Copies(flip, k) \in Nat
  BY <1>1, CopiesNat
<1>4. Copies(cancon_inbuf, k) \in Nat
  BY <1>1, CopiesNat
<1>5. Carry(k) \in Seq(Nat)
  <2>1. Len(toNode) \in Nat /\ DOMAIN toNode = 1 .. Len(toNode)
    BY DEF InputInv, InputType
  <2> QED BY <2>1 DEF Carry, Carries
<1>6. Copies(Carry(k), 1) \in Nat
  BY <1>5, CopiesNat
<1> QED BY <1>2, <1>3, <1>4, <1>5, <1>6

(* A packet more. *)
LEMMA CarryAdded ==
    ASSUME InputInv, NEW p \in Packet, toNode' = Append(toNode, p), NEW k
    PROVE  Copies(Carry(k), 1)' =
                Copies(Carry(k), 1) + Carries(p, k)
<1> DEFINE b == Carries(p, k)
           s == Carry(k)
           w == <<b>>
<1>1. /\ Len(toNode) \in Nat /\ DOMAIN toNode = 1 .. Len(toNode)
      /\ DOMAIN toNode' = 1 .. Len(toNode) + 1
      /\ \A n \in 1 .. Len(toNode) : toNode'[n] = toNode[n]
      /\ toNode'[Len(toNode) + 1] = p
  <2>1. toNode \in Seq(Packet)
    BY DEF InputInv, InputType
  <2> QED BY <2>1, AppendProperties
<1>2. w \in Seq(Nat) /\ Copies(w, 1) = b /\ b \in Nat
  <2>1. b \in {0, 1}
    BY DEF Carries
  <2> HIDE DEF b
  <2> QED BY <2>1, CopiesOne
<1>3. s \in Seq(Nat) /\ Len(s) = Len(toNode) /\ \A n \in 1 .. Len(toNode) : s[n] = Carries(toNode[n], k)
  <2>1. s \in Seq(Nat)
    BY CopiesTypes DEF Countable
  <2> QED BY <1>1, <2>1 DEF Carry
<1>4. Len(w) = 1 /\ w[1] = b
  OBVIOUS
<1> HIDE DEF s, w, b
<1>5. Carry(k)' = s \o w
  <2> DEFINE x == s \o w
  <2>1. /\ x \in Seq(Nat) /\ Len(x) = Len(s) + Len(w)
        /\ \A n \in 1 .. Len(s) : x[n] = s[n]
        /\ \A n \in 1 .. Len(w) : x[Len(s) + n] = w[n]
    <3>1. x \in Seq(Nat) /\ Len(x) = Len(s) + Len(w)
      BY <1>2, <1>3, ConcatProperties
    <3>2. \A n \in 1 .. Len(s) : x[n] = s[n]
      BY <1>2, <1>3, ConcatProperties
    <3>3. \A n \in 1 .. Len(w) : x[Len(s) + n] = w[n]
      BY <1>2, <1>3, ConcatProperties
    <3> QED BY <3>1, <3>2, <3>3
  <2> HIDE DEF x
  <2>2. Len(x) = Len(toNode) + 1 /\ DOMAIN x = 1 .. Len(toNode) + 1
    BY <1>1, <1>3, <1>4, <2>1
  <2>3. x[Len(toNode) + 1] = b
    BY <1>1, <1>3, <1>4, <2>1
  <2>4. \A n \in 1 .. Len(toNode) + 1 : x[n] = Carries(toNode'[n], k)
    <3> TAKE n \in 1 .. Len(toNode) + 1
    <3>1. CASE n \in 1 .. Len(toNode)
      BY <1>1, <1>3, <2>1, <3>1
    <3>2. CASE n = Len(toNode) + 1
      BY <1>1, <2>3, <3>2 DEF b
    <3> QED BY <1>1, <3>1, <3>2
  <2>5. Carry(k)' = [n \in 1 .. Len(toNode) + 1 |-> Carries(toNode'[n], k)]
    BY <1>1 DEF Carry
  <2>6. x = [n \in 1 .. Len(toNode) + 1 |-> x[n]]
    BY <2>1, <2>2
  <2> QED BY <2>4, <2>5, <2>6 DEF x
<1>6. Copies(s \o w, 1) = Copies(s, 1) + Copies(w, 1)
  BY <1>2, <1>3, CopiesConcat
<1>7. Copies(Carry(k), 1)' = Copies(s \o w, 1)
  BY <1>5 DEF Copies
<1> QED BY <1>2, <1>6, <1>7 DEF s, b

(* A packet less. *)
LEMMA CarryTaken ==
    ASSUME InputInv, toNode # <<>>, toNode' = Tail(toNode), NEW k
    PROVE  Copies(Carry(k), 1) =
                Copies(Carry(k), 1)' + Carries(Head(toNode), k)
<1> DEFINE b == Carries(Head(toNode), k)
           s == Carry(k)'
           w == <<b>>
<1>1. /\ Len(toNode) \in Nat /\ DOMAIN toNode = 1 .. Len(toNode) /\ Len(toNode) > 0
      /\ Len(toNode') = Len(toNode) - 1 /\ DOMAIN toNode' = 1 .. Len(toNode) - 1
      /\ \A n \in 1 .. Len(toNode) - 1 : toNode'[n] = toNode[n + 1]
      /\ Head(toNode) = toNode[1] /\ Len(toNode') \in Nat
  <2>1. toNode \in Seq(Packet)
    BY DEF InputInv, InputType
  <2> QED BY <2>1, HeadTailProperties
<1>2. w \in Seq(Nat) /\ Copies(w, 1) = b /\ b \in Nat
  <2>1. b \in {0, 1}
    BY DEF Carries
  <2> HIDE DEF b
  <2> QED BY <2>1, CopiesOne
<1>3. /\ s \in Seq(Nat) /\ Len(s) = Len(toNode) - 1
      /\ \A n \in 1 .. Len(toNode) - 1 : s[n] = Carries(toNode'[n], k)
  <2>1. s = [n \in 1 .. Len(toNode') |-> Carries(toNode'[n], k)]
    BY <1>1 DEF Carry
  <2> HIDE DEF s
  <2> QED BY <1>1, <2>1 DEF Carries
<1>4. Len(w) = 1 /\ w[1] = b
  OBVIOUS
<1> HIDE DEF s, w, b
<1>5. Carry(k) = w \o s
  <2> DEFINE x == w \o s
  <2>1. /\ x \in Seq(Nat) /\ Len(x) = Len(w) + Len(s)
        /\ \A n \in 1 .. Len(w) : x[n] = w[n]
        /\ \A n \in 1 .. Len(s) : x[Len(w) + n] = s[n]
    <3>1. x \in Seq(Nat) /\ Len(x) = Len(w) + Len(s)
      BY <1>2, <1>3, ConcatProperties
    <3>2. \A n \in 1 .. Len(w) : x[n] = w[n]
      BY <1>2, <1>3, ConcatProperties
    <3>3. \A n \in 1 .. Len(s) : x[Len(w) + n] = s[n]
      BY <1>2, <1>3, ConcatProperties
    <3> QED BY <3>1, <3>2, <3>3
  <2> HIDE DEF x
  <2>2. Len(x) = Len(toNode) /\ DOMAIN x = 1 .. Len(toNode)
    BY <1>1, <1>3, <1>4, <2>1
  <2>3. x[1] = b /\ \A n \in 1 .. Len(toNode) - 1 : x[1 + n] = s[n]
    BY <1>1, <1>3, <1>4, <2>1
  <2>4. \A n \in 1 .. Len(toNode) : x[n] = Carries(toNode[n], k)
    <3> TAKE n \in 1 .. Len(toNode)
    <3>1. CASE n = 1
      BY <1>1, <2>3, <3>1 DEF b
    <3>2. CASE n # 1
      <4>1. n - 1 \in 1 .. Len(toNode) - 1 /\ 1 + (n - 1) = n
        BY <1>1, <3>2
      <4>2. x[n] = s[n - 1] /\ toNode'[n - 1] = toNode[n]
        BY <1>1, <2>3, <4>1
      <4> QED BY <1>3, <4>1, <4>2
    <3> QED BY <3>1, <3>2
  <2>5. Carry(k) = [n \in 1 .. Len(toNode) |-> Carries(toNode[n], k)]
    BY <1>1 DEF Carry
  <2>6. x = [n \in 1 .. Len(toNode) |-> x[n]]
    BY <2>1, <2>2
  <2> QED BY <2>4, <2>5, <2>6 DEF x
<1>6. Copies(w \o s, 1) = Copies(w, 1) + Copies(s, 1)
  BY <1>2, <1>3, CopiesConcat
<1>7. Copies(s, 1) \in Nat /\ Copies(s, 1) = Copies(Carry(k), 1)'
  <2>1. Copies(s, 1) = Copies(Carry(k), 1)'
    BY DEF Copies, s
  <2> QED BY <1>3, <2>1, CopiesNat
<1>8. Copies(Carry(k), 1) = Copies(w, 1) + Copies(s, 1)
  BY <1>5, <1>6
<1>9. Copies(Carry(k), 1) = Copies(s, 1) + b
  BY <1>2, <1>7, <1>8
<1> QED BY <1>7, <1>9 DEF b

(* A step that makes no copies, and leaves writer where it is. *)
LEMMA NoCopies ==
    ASSUME RepeatInv, UNCHANGED dat, try'["writer"] = try["writer"],
           \A k \in Nat : CopiesOf(k)' <= CopiesOf(k) /\ CopiesOf(k) \in Nat /\ CopiesOf(k)' \in Nat,
           try["writer"] \in Nat,
           at'["writer"] = "send" <=> at["writer"] = "send",
           at'["writer"] \in {"send", "wait"} <=> at["writer"] \in {"send", "wait"}
    PROVE  RepeatInv'
<1>1. TriesCounted'
  BY DEF RepeatInv, TriesCounted
<1>2. CopiesBounded'
  <2> SUFFICES ASSUME NEW k \in Nat
               PROVE  CopiesOf(k)' <= IF k \in Range(dat) THEN try["writer"] ELSE MAX_RETRIES
    BY DEF CopiesBounded
  <2>1. CopiesOf(k) <= IF k \in Range(dat) THEN try["writer"] ELSE MAX_RETRIES
    BY DEF RepeatInv, CopiesBounded
  <2> QED BY <2>1, TermAssumption
<1> QED BY <1>1, <1>2 DEF RepeatInv

(* So is their sum. *)
LEMMA CopiesOfNat ==
    ASSUME InputInv
    PROVE  \A k : CopiesOf(k) \in Nat
BY CopiesTypes DEF CopiesOf, Countable

(* What the node gets of a packet is in it once. *)
LEMMA ArrivedOnce ==
    ASSUME InputInv, canobj_dat, NEW k \in Nat
    PROVE  CopiesOf(k)' <= CopiesOf(k)
<1> DEFINE b == Carries(Head(toNode), k)
<1>1. /\ InputInv' /\ UNCHANGED received /\ toNode # <<>> /\ toNode' = Tail(toNode)
  BY DatKeeps
<1>2. Copies(Carry(k), 1) = Copies(Carry(k), 1)' + b /\ b \in Nat
  <2>1. Copies(Carry(k), 1) = Copies(Carry(k), 1)' + b
    BY <1>1, CarryTaken
  <2> QED BY <2>1 DEF Carries
<1>3. /\ Copies(received, k) \in Nat /\ Copies(flip, k) \in Nat /\ Copies(cancon_inbuf, k) \in Nat
      /\ Copies(Carry(k), 1) \in Nat
  BY CopiesTypes DEF Countable
<1>4. /\ Copies(received, k)' \in Nat /\ Copies(flip, k)' \in Nat /\ Copies(cancon_inbuf, k)' \in Nat
      /\ Copies(Carry(k), 1)' \in Nat
  <2>1. (InputInv => Countable)'
    BY CopiesTypes, PTL
  <2> QED BY <1>1, <2>1 DEF Countable
<1>5. Copies(received, k)' = Copies(received, k)
  BY <1>1 DEF Copies
<1> HIDE DEF b
<1>6. CASE UNCHANGED <<flip, cancon_inbuf>>
  <2>1. Copies(flip, k)' = Copies(flip, k) /\ Copies(cancon_inbuf, k)' = Copies(cancon_inbuf, k)
    BY <1>6 DEF Copies
  <2> QED BY <1>2, <1>3, <1>4, <1>5, <2>1 DEF CopiesOf
<1>7. ASSUME NEW s \in Seq(Nat), NEW u \in Seq(Nat), Head(toNode).chars = s \o u,
             flip' \in Seq(Nat), cancon_inbuf' \in Seq(Nat),
             flip' \o cancon_inbuf' = flip \o (cancon_inbuf \o s)
      PROVE  CopiesOf(k)' <= CopiesOf(k)
  <2>1. cancon_inbuf \in Seq(Nat) /\ flip \in Seq(Nat)
    BY DEF InputInv, InputType
  <2>2. Ascending(s) /\ Range(s) \subseteq Range(Head(toNode).chars)
    <3>1. Ascending(s \o u)
      BY <1>1, <1>7, PacketTaken
    <3>2. Range(s \o u) = Range(s) \cup Range(u)
      BY RangeConcatenation
    <3> QED BY <1>7, <3>1, <3>2, AscendingConcat
  <2>3. Copies(s, k) <= b /\ Copies(s, k) \in Nat
    <3>1. Copies(s, k) <= 1 /\ (k \notin Range(s) => Copies(s, k) = 0)
      BY <2>2, CopiesAscending
    <3>2. Copies(s, k) \in Nat
      BY CopiesNat
    <3> QED BY <2>2, <3>1, <3>2 DEF b, Carries
  <2>4. Copies(flip' \o cancon_inbuf', k) = Copies(flip, k)' + Copies(cancon_inbuf, k)'
    <3>1. \A x, y \in Seq(Nat) : Copies(x \o y, k) = Copies(x, k) + Copies(y, k)
      BY CopiesConcat
    <3>2. Copies(flip' \o cancon_inbuf', k) = Copies(flip', k) + Copies(cancon_inbuf', k)
      BY <1>7, <3>1
    <3> QED BY <3>2 DEF Copies
  <2>5. Copies(flip \o (cancon_inbuf \o s), k) = Copies(flip, k) + (Copies(cancon_inbuf, k) + Copies(s, k))
    <3>1. Copies(cancon_inbuf \o s, k) = Copies(cancon_inbuf, k) + Copies(s, k)
      BY <2>1, CopiesConcat
    <3> DEFINE w == cancon_inbuf \o s
    <3>2. w \in Seq(Nat)
      BY <2>1, ConcatType, Zenon
    <3> HIDE DEF w
    <3>3. Copies(flip \o w, k) = Copies(flip, k) + Copies(w, k)
      BY <2>1, <3>2, CopiesConcat
    <3> QED BY <3>1, <3>3 DEF w
  <2>6. Copies(flip, k)' + Copies(cancon_inbuf, k)' =
            Copies(flip, k) + (Copies(cancon_inbuf, k) + Copies(s, k))
    BY <1>7, <2>4, <2>5
  <2>7. \A a, f, c, f1, c1, v1, n, m \in Nat :
            f1 + c1 = f + (c + n) /\ n <= m => a + f1 + c1 + v1 <= a + f + c + (v1 + m)
    OBVIOUS
  <2>8. Copies(received, k) + Copies(flip, k)' + Copies(cancon_inbuf, k)' + Copies(Carry(k), 1)' <=
            Copies(received, k) + Copies(flip, k) + Copies(cancon_inbuf, k) + (Copies(Carry(k), 1)' + b)
    BY <1>2, <1>3, <1>4, <2>3, <2>6, <2>7, Zenon
  <2>9. CopiesOf(k)' = Copies(received, k)' + Copies(flip, k)' + Copies(cancon_inbuf, k)' + Copies(Carry(k), 1)'
    BY DEF CopiesOf
  <2> QED BY <1>2, <1>5, <2>8, <2>9 DEF CopiesOf
<1> QED BY <1>6, <1>7, DatKeeps

(* Steps of the node and the network make no copies. *)
LEMMA NodeMakesNoCopies ==
    ASSUME InputInv, canobj_dat \/ canobj_break \/ FlushToLdisc \/ Node \/ Lose, NEW k \in Nat
    PROVE  CopiesOf(k)' <= CopiesOf(k)
<1>1. InputInv'
  BY DatKeeps, BreakKeeps, FlushKeeps, NodeKeeps, LoseKeeps
<1>2. /\ Copies(received, k) \in Nat /\ Copies(flip, k) \in Nat /\ Copies(cancon_inbuf, k) \in Nat
      /\ Copies(Carry(k), 1) \in Nat
  BY CopiesTypes DEF Countable
<1>3. /\ Copies(received, k)' \in Nat /\ Copies(flip, k)' \in Nat /\ Copies(cancon_inbuf, k)' \in Nat
      /\ Copies(Carry(k), 1)' \in Nat
  <2>1. (InputInv => Countable)'
    BY CopiesTypes, PTL
  <2> QED BY <1>1, <2>1 DEF Countable
<1>4. Copies(<<>>, k) = 0
  BY ShortSequences, CopiesNone
<1>5. toNode' = toNode \/ (toNode # <<>> /\ toNode' = Tail(toNode)) => Copies(Carry(k), 1)' <= Copies(Carry(k), 1)
  <2>1. CASE toNode' = toNode
    <3>1. Copies(Carry(k), 1)' = Copies(Carry(k), 1)
      BY <2>1 DEF Carry, Carries, Copies
    <3> QED BY <1>2, <3>1
  <2>2. CASE toNode # <<>> /\ toNode' = Tail(toNode)
    <3>1. Copies(Carry(k), 1) = Copies(Carry(k), 1)' + Carries(Head(toNode), k)
      BY <2>2, CarryTaken
    <3>2. Carries(Head(toNode), k) \in Nat
      BY DEF Carries
    <3> QED BY <1>2, <1>3, <3>1, <3>2
  <2> QED BY <2>1, <2>2
<1>6. CASE canobj_dat
  BY <1>6, ArrivedOnce
<1>7. CASE canobj_break \/ Lose
  <2>1. UNCHANGED inVars /\ (toNode' = toNode \/ (toNode # <<>> /\ toNode' = Tail(toNode)))
    BY <1>7, BreakKeeps, LoseKeeps
  <2>2. /\ Copies(received, k)' = Copies(received, k) /\ Copies(flip, k)' = Copies(flip, k)
        /\ Copies(cancon_inbuf, k)' = Copies(cancon_inbuf, k)
    BY <2>1 DEF inVars, Copies
  <2>3. Copies(Carry(k), 1)' <= Copies(Carry(k), 1)
    BY <1>5, <2>1
  <2> QED BY <1>2, <1>3, <2>2, <2>3 DEF CopiesOf
<1>8. CASE FlushToLdisc
  <2>1. /\ UNCHANGED <<cancon_inbuf, toNode>> /\ received' = received \o flip /\ flip' = <<>>
    BY <1>8, FlushKeeps
  <2>2. Copies(received \o flip, k) = Copies(received, k) + Copies(flip, k)
    BY CopiesConcat DEF InputInv, InputType
  <2>3. /\ Copies(received, k)' = Copies(received, k) + Copies(flip, k) /\ Copies(flip, k)' = 0
        /\ Copies(cancon_inbuf, k)' = Copies(cancon_inbuf, k)
    BY <1>4, <2>1, <2>2 DEF Copies
  <2>4. Copies(Carry(k), 1)' <= Copies(Carry(k), 1)
    BY <1>5, <2>1
  <2> QED BY <1>2, <1>3, <2>3, <2>4 DEF CopiesOf
<1>9. CASE Node
  <2>1. /\ UNCHANGED <<received, toNode>> /\ flip' \in {flip, <<>>}
        /\ cancon_inbuf' \in {cancon_inbuf, <<>>}
    BY <1>9, NodeKeeps
  <2>2. Copies(received, k)' = Copies(received, k)
    BY <2>1 DEF Copies
  <2>3. Copies(flip, k)' = Copies(flip, k) \/ Copies(flip, k)' = 0
    BY <1>4, <2>1 DEF Copies
  <2>4. Copies(cancon_inbuf, k)' = Copies(cancon_inbuf, k) \/ Copies(cancon_inbuf, k)' = 0
    BY <1>4, <2>1 DEF Copies
  <2>5. Copies(Carry(k), 1)' <= Copies(Carry(k), 1)
    BY <1>5, <2>1
  <2> QED BY <1>2, <1>3, <2>2, <2>3, <2>4, <2>5 DEF CopiesOf
<1> QED BY <1>6, <1>7, <1>8, <1>9

(* What was never sent is nowhere else. *)
LEMMA NeverSent ==
    ASSUME InputInv, NEW k, k \notin SentSoFar
    PROVE  CopiesOf(k) = 0
<1>1. k \notin Range(received) /\ k \notin Range(flip) /\ k \notin Range(cancon_inbuf) /\ k \notin Carried
  BY DEF SentSoFar
<1>2. Copies(received, k) = 0 /\ Copies(flip, k) = 0 /\ Copies(cancon_inbuf, k) = 0
  BY <1>1, CopiesNone
<1>3. Copies(Carry(k), 1) = 0
  <2>1. \A n \in DOMAIN toNode : k \notin Range(toNode[n].chars)
    BY <1>1 DEF Carried
  <2>2. Carry(k) = [n \in DOMAIN toNode |-> 0]
    BY <2>1 DEF Carry, Carries
  <2>3. 1 \notin Range(Carry(k))
    BY <2>2 DEF Range
  <2> QED BY <2>3, CopiesNone
<1> QED BY <1>2, <1>3 DEF CopiesOf

(* Steps that leave the node and the network alone make no copies. *)
LEMMA SameCopies ==
    ASSUME UNCHANGED <<received, flip, cancon_inbuf, toNode>>, NEW k
    PROVE  CopiesOf(k)' = CopiesOf(k)
BY DEF CopiesOf, Copies, Carry, Carries

(* A packet begins with characters that were never sent, and no tries. *)
LEMMA TakeCounts ==
    ASSUME InputInv, RepeatInv, waitfor_outchars, UNCHANGED <<inVars, wireVars>>
    PROVE  RepeatInv'
<1>1. dat' \in Seq(Nat) /\ Range(dat') \subseteq Range(Queued)
  BY TakeKeeps
<1>2. at["writer"] \notin {"send", "wait"} /\ at'["writer"] = "send" /\ try' = try
  BY DEF waitfor_outchars, Go, InputInv, InputType, Threads
<1>3. dat = <<>> /\ try["writer"] = 0 /\ MAX_RETRIES \in Nat /\ MAX_RETRIES > 0
  BY <1>2, TermAssumption DEF RepeatInv, TriesCounted
<1>4. TriesCounted'
  BY <1>2, <1>3 DEF TriesCounted
<1>5. UNCHANGED <<received, flip, cancon_inbuf, toNode>>
  BY DEF inVars, wireVars
<1>6. CopiesBounded'
  <2> SUFFICES ASSUME NEW k \in Nat
               PROVE  CopiesOf(k)' <= IF k \in Range(dat') THEN try'["writer"] ELSE MAX_RETRIES
    BY DEF CopiesBounded
  <2>1. CopiesOf(k)' = CopiesOf(k)
    BY <1>5, SameCopies
  <2>2. CASE k \in Range(dat')
    <3>1. k \notin SentSoFar
      BY <1>1, <2>2 DEF InputInv, QueuedInOrder
    <3> QED BY <1>2, <1>3, <2>1, <2>2, <3>1, NeverSent
  <2>3. CASE k \notin Range(dat')
    <3>1. k \notin Range(dat)
      BY <1>3, ShortSequences
    <3> QED BY <2>1, <2>3, <3>1 DEF RepeatInv, CopiesBounded
  <2> QED BY <2>2, <2>3
<1> QED BY <1>4, <1>6 DEF RepeatInv

(* A try puts one copy of each character of the packet into the network. *)
LEMMA SendCounts ==
    ASSUME InputInv, RepeatInv, NEW t \in Threads, Send(t)
    PROVE  RepeatInv'
<1>1. /\ UNCHANGED <<dat, received, flip, cancon_inbuf>>
      /\ at[t] = "send" /\ at' = [at EXCEPT ![t] = "wait"] /\ try' = [try EXCEPT ![t] = @ + 1]
  BY SendKeeps
<1>2. PICK p \in Packet : toNode' = Append(toNode, p) /\ p.chars = IF t = "writer" THEN dat ELSE <<>>
  BY SendKeeps
<1>3. /\ at \in [Threads -> Places] /\ try \in [Threads -> Nat] /\ try["writer"] \in Nat
      /\ MAX_RETRIES \in Nat /\ "writer" \in Threads
  BY TermAssumption DEF InputInv, InputType, Threads
<1>4. ASSUME NEW k \in Nat PROVE CopiesOf(k) \in Nat /\ CopiesOf(k)' = CopiesOf(k) + Carries(p, k)
  <2>1. Copies(Carry(k), 1)' = Copies(Carry(k), 1) + Carries(p, k)
    BY <1>2, CarryAdded
  <2>2. /\ Copies(received, k)' = Copies(received, k) /\ Copies(flip, k)' = Copies(flip, k)
        /\ Copies(cancon_inbuf, k)' = Copies(cancon_inbuf, k)
    BY <1>1 DEF Copies
  <2>3. /\ Copies(received, k) \in Nat /\ Copies(flip, k) \in Nat /\ Copies(cancon_inbuf, k) \in Nat
        /\ Copies(Carry(k), 1) \in Nat
    BY CopiesTypes DEF Countable
  <2>4. Carries(p, k) \in Nat
    BY DEF Carries
  <2>5. CopiesOf(k)' = Copies(received, k) + Copies(flip, k) + Copies(cancon_inbuf, k)
                        + (Copies(Carry(k), 1) + Carries(p, k))
    BY <2>1, <2>2 DEF CopiesOf
  <2> QED BY <2>3, <2>4, <2>5 DEF CopiesOf
<1>5. CASE t = "writer"
  <2>1. try'["writer"] = try["writer"] + 1 /\ at'["writer"] = "wait" /\ at["writer"] = "send"
    BY <1>1, <1>3, <1>5
  <2>2. try["writer"] < MAX_RETRIES
    BY <2>1 DEF RepeatInv, TriesCounted
  <2>3. TriesCounted'
    BY <1>3, <2>1, <2>2 DEF TriesCounted
  <2>4. CopiesBounded'
    <3> SUFFICES ASSUME NEW k \in Nat
                 PROVE  CopiesOf(k)' <= IF k \in Range(dat) THEN try'["writer"] ELSE MAX_RETRIES
      BY <1>1 DEF CopiesBounded
    <3>1. CopiesOf(k) <= IF k \in Range(dat) THEN try["writer"] ELSE MAX_RETRIES
      BY DEF RepeatInv, CopiesBounded
    <3>2. Carries(p, k) = IF k \in Range(dat) THEN 1 ELSE 0
      BY <1>2, <1>5 DEF Carries
    <3>3. CopiesOf(k) \in Nat /\ CopiesOf(k)' = CopiesOf(k) + Carries(p, k)
      BY <1>4
    <3> QED BY <1>3, <2>1, <3>1, <3>2, <3>3
  <2> QED BY <2>3, <2>4 DEF RepeatInv
<1>6. CASE t # "writer"
  <2>1. try'["writer"] = try["writer"] /\ at'["writer"] = at["writer"]
    BY <1>1, <1>3, <1>6
  <2>2. ASSUME NEW k \in Nat
        PROVE  CopiesOf(k)' <= CopiesOf(k) /\ CopiesOf(k) \in Nat /\ CopiesOf(k)' \in Nat
    <3>1. Carries(p, k) = 0
      BY <1>2, <1>6, ShortSequences DEF Carries
    <3> QED BY <1>4, <3>1
  <2> QED BY <1>1, <1>3, <2>1, <2>2, NoCopies
<1> QED BY <1>5, <1>6

(* A wait ends with another try, if there is one left, or with the next    *)
(* packet.                                                                 *)
LEMMA WaitCounts ==
    ASSUME InputInv, RepeatInv, NEW t \in Threads, Wait(t) \/ NoAnswer(t)
    PROVE  RepeatInv'
<1>1. UNCHANGED <<received, flip, cancon_inbuf, toNode>>
  BY WaitKeeps
<1>2. /\ at \in [Threads -> Places] /\ try \in [Threads -> Nat] /\ try["writer"] \in Nat
      /\ MAX_RETRIES \in Nat /\ "writer" \in Threads /\ MAX_RETRIES > 0
  BY TermAssumption DEF InputInv, InputType, Threads
<1>3. \A k \in Nat : CopiesOf(k)' = CopiesOf(k) /\ CopiesOf(k) \in Nat
  BY <1>1, SameCopies, CopiesOfNat
<1>4. at[t] = "wait"
  BY DEF Wait, NoAnswer, Term, waitfor_acknak, waitfor_acknak_timeout
<1>5. \/ UNCHANGED <<at, dat, try>>
      \/ Finished(t)
      \/ Go(t, "send") /\ UNCHANGED <<dat, try>> /\ MayRetry(t)
  BY DEF Wait, NoAnswer, Term, waitfor_acknak, waitfor_acknak_timeout
<1>6. CASE /\ UNCHANGED dat /\ try'["writer"] = try["writer"] /\ at'["writer"] = at["writer"]
  <2>1. \A k \in Nat : CopiesOf(k)' <= CopiesOf(k) /\ CopiesOf(k) \in Nat /\ CopiesOf(k)' \in Nat
    BY <1>3
  <2> QED BY <1>2, <1>6, <2>1, NoCopies
<1>7. CASE t # "writer"
  <2>1. UNCHANGED dat /\ try'["writer"] = try["writer"] /\ at'["writer"] = at["writer"]
    BY <1>2, <1>5, <1>7 DEF Finished, Go
  <2> QED BY <1>6, <2>1
<1>8. CASE t = "writer" /\ Finished(t)
  <2>1. dat' = <<>> /\ try'["writer"] = 0 /\ at'["writer"] = "get"
    BY <1>2, <1>8 DEF Finished, Go
  <2>2. TriesCounted'
    BY <1>2, <2>1 DEF TriesCounted
  <2>3. CopiesBounded'
    <3> SUFFICES ASSUME NEW k \in Nat PROVE CopiesOf(k)' <= MAX_RETRIES
      BY <2>1, ShortSequences DEF CopiesBounded
    <3>1. CopiesOf(k) <= IF k \in Range(dat) THEN try["writer"] ELSE MAX_RETRIES
      BY DEF RepeatInv, CopiesBounded
    <3>2. try["writer"] <= MAX_RETRIES
      BY DEF RepeatInv, TriesCounted
    <3> QED BY <1>2, <1>3, <3>1, <3>2
  <2> QED BY <2>2, <2>3 DEF RepeatInv
<1>9. CASE t = "writer" /\ Go(t, "send") /\ UNCHANGED <<dat, try>> /\ MayRetry(t)
  <2>1. try["writer"] < MAX_RETRIES /\ at'["writer"] = "send" /\ try' = try /\ dat' = dat
    BY <1>2, <1>9 DEF MayRetry, Go
  <2>2. TriesCounted'
    BY <1>2, <2>1 DEF TriesCounted
  <2>3. CopiesBounded'
    BY <1>3, <2>1 DEF RepeatInv, CopiesBounded
  <2> QED BY <2>2, <2>3 DEF RepeatInv
<1> QED BY <1>5, <1>6, <1>7, <1>8, <1>9

(* Every step keeps the copies in bounds. *)
LEMMA RepeatInvStep ==
    ASSUME InputInv, RepeatInv, [InputNext]_inputVars
    PROVE  RepeatInv'
<1>1. InputInv' /\ try["writer"] \in Nat
  BY InputInvStep DEF InputInv, InputType, Threads
<1>2. \A k \in Nat : CopiesOf(k) \in Nat /\ CopiesOf(k)' \in Nat
  <2>1. (InputInv => \A k : CopiesOf(k) \in Nat)'
    BY CopiesOfNat, PTL
  <2> QED BY <1>1, <2>1, CopiesOfNat
<1>3. ASSUME UNCHANGED <<received, flip, cancon_inbuf, toNode, dat>>, try'["writer"] = try["writer"],
             at'["writer"] = "send" <=> at["writer"] = "send",
             at'["writer"] \in {"send", "wait"} <=> at["writer"] \in {"send", "wait"}
      PROVE  RepeatInv'
  <2>1. \A k \in Nat : CopiesOf(k)' <= CopiesOf(k)
    BY <1>2, <1>3, SameCopies
  <2> QED BY <1>1, <1>2, <1>3, <2>1, NoCopies
<1>4. CASE Read \/ TtyReader
  <2>1. /\ UNCHANGED <<received, flip, cancon_inbuf, toNode, dat, try>>
        /\ at'["writer"] = "send" <=> at["writer"] = "send"
        /\ at'["writer"] \in {"send", "wait"} <=> at["writer"] \in {"send", "wait"}
    BY <1>4 DEF Read, TtyReader, Term, Typed, Parse, signal_outchars, WakeWriter, Go, inVars, wireVars,
                InputInv, InputType, Threads
  <2> QED BY <1>3, <2>1
<1>5. CASE (Writer /\ waitfor_outchars_sleep) \/ reader \/ Disconnect \/ Term(SpuriousWakeup)
  <2>1. /\ UNCHANGED <<dat, received, flip, cancon_inbuf, toNode, try>>
        /\ at'["writer"] \in {"send", "wait"} <=> at["writer"] \in {"send", "wait"}
        /\ at'["writer"] = "send" <=> at["writer"] = "send"
    BY <1>5, QuietKeeps DEF Writer, Term
  <2> QED BY <1>3, <2>1
<1>6. CASE Writer /\ waitfor_outchars
  BY <1>6, TakeCounts DEF Writer, Term
<1>7. CASE \E t \in Threads : Send(t) \/ Wait(t) \/ NoAnswer(t)
  BY <1>7, SendCounts, WaitCounts
<1>8. CASE canobj_dat \/ canobj_break \/ FlushToLdisc \/ Node \/ Lose
  <2>1. UNCHANGED termVars
    BY <1>8, DatKeeps, BreakKeeps, FlushKeeps, NodeKeeps, LoseKeeps
  <2>2. UNCHANGED <<dat, try, at>>
    BY <2>1 DEF termVars
  <2>3. \A k \in Nat : CopiesOf(k)' <= CopiesOf(k)
    BY <1>8, NodeMakesNoCopies
  <2> QED BY <1>1, <1>2, <2>2, <2>3, NoCopies
<1>9. CASE UNCHANGED inputVars
  <2>1. UNCHANGED <<received, flip, cancon_inbuf, toNode, dat, try, at>>
    BY <1>9 DEF inputVars, termVars, inVars, wireVars
  <2> QED BY <1>3, <2>1
<1> QED BY <1>4, <1>5, <1>6, <1>7, <1>8, <1>9 DEF InputNext, Writer, Term

(* There are no copies at first. *)
LEMMA RepeatInvInit == InputInit => RepeatInv
<1> SUFFICES ASSUME InputInit PROVE RepeatInv
  OBVIOUS
<1>1. InputInv
  BY InputInvInit
<1>2. Range(<<>>) = {} /\ DOMAIN <<>> = {}
  <2>1. DOMAIN <<>> = {}
    OBVIOUS
  <2> QED BY <2>1, ShortSequences
<1>3. SentSoFar = {} /\ dat = <<>>
  <2>1. Carried = {}
    BY <1>2 DEF Carried, InputInit
  <2> QED BY <1>2, <2>1 DEF SentSoFar, InputInit, TermInit, TtyInit
<1>4. TriesCounted
  BY TermAssumption DEF TriesCounted, InputInit, TermInit, Threads
<1>5. \A k : CopiesOf(k) = 0
  BY <1>1, <1>3, NeverSent
<1>6. CopiesBounded
  BY <1>2, <1>3, <1>5, TermAssumption DEF CopiesBounded
<1> QED BY <1>4, <1>6 DEF RepeatInv

(* Whatever is lost, late or answered to the wrong thread, the node sees   *)
(* no character more than MAX_RETRIES times, since a packet is sent only   *)
(* so often, and its characters are sent in no other (cancon.c:366-376);   *)
(* and it sees none of an escape sequence that was obeyed (cancon.c:       *)
(* 452-493).                                                               *)
THEOREM RepeatsLimited == InputSpec => []RepeatsBounded
<1>1. InputInit => InputInv /\ RepeatInv
  BY InputInvInit, RepeatInvInit
<1>2. InputInv /\ RepeatInv /\ [InputNext]_inputVars => InputInv' /\ RepeatInv'
  BY InputInvStep, RepeatInvStep
<1>3. InputInv /\ RepeatInv => RepeatsBounded
  <2> SUFFICES ASSUME InputInv, RepeatInv, NEW k \in 1 .. Len(typed)
               PROVE  Copies(AtNode, k) <= IF k \in Meant(done) THEN MAX_RETRIES ELSE 0
    BY DEF RepeatsBounded
  <2>1. received \in Seq(Nat) /\ flip \in Seq(Nat) /\ cancon_inbuf \in Seq(Nat) /\ k \in Nat
    BY DEF InputInv, InputType
  <2>2. Copies(AtNode, k) = Copies(received, k) + Copies(flip, k) + Copies(cancon_inbuf, k)
    <3>1. Copies(received \o flip, k) = Copies(received, k) + Copies(flip, k)
      BY <2>1, CopiesConcat
    <3> DEFINE w == received \o flip
    <3>2. w \in Seq(Nat)
      BY <2>1, ConcatType, Zenon
    <3> HIDE DEF w
    <3>3. Copies(w \o cancon_inbuf, k) = Copies(w, k) + Copies(cancon_inbuf, k)
      BY <2>1, <3>2, CopiesConcat
    <3> QED BY <3>1, <3>3 DEF w, AtNode
  <2>3. CopiesOf(k) <= MAX_RETRIES
    <3>1. CopiesOf(k) <= IF k \in Range(dat) THEN try["writer"] ELSE MAX_RETRIES
      BY <2>1 DEF RepeatInv, CopiesBounded
    <3>2. try["writer"] <= MAX_RETRIES /\ try["writer"] \in Nat /\ MAX_RETRIES \in Nat
      BY TermAssumption DEF RepeatInv, TriesCounted, InputInv, InputType, Threads
    <3>3. CopiesOf(k) \in Nat
      BY CopiesOfNat
    <3> QED BY <3>1, <3>2, <3>3
  <2>4. /\ Copies(received, k) \in Nat /\ Copies(flip, k) \in Nat /\ Copies(cancon_inbuf, k) \in Nat
        /\ Copies(Carry(k), 1) \in Nat
    BY CopiesTypes DEF Countable
  <2>5. Copies(AtNode, k) <= MAX_RETRIES
    BY <2>2, <2>3, <2>4, TermAssumption DEF CopiesOf
  <2>6. k \notin Meant(done) => Copies(AtNode, k) = 0
    <3>1. k \in Range(AtNode) => k \in SentSoFar
      BY AtNodeType DEF SentSoFar
    <3>2. k \in SentSoFar => k \in Meant(done)
      BY DEF InputInv, PassedOnly
    <3> QED BY <3>1, <3>2, CopiesNone
  <2> QED BY <2>5, <2>6
<1> QED BY <1>1, <1>2, <1>3, PTL DEF InputSpec

-----------------------------------------------------------------------------
(* What bounds the buffers of cancon and the node: a read() makes at most  *)
(* two characters of each that it returns (cancon.c:456, buf[4] and        *)
(* outbuf[8]), and outbuf is empty before the next.                        *)
Answers == {"dat", "break"}
ReadInv ==
    /\ Len(outbuf) + 2 * (upto - done) <= 2 * ReadMax
    /\ at["tty"] = "read" => done = upto /\ outbuf = <<>>
AnswersInv ==
    ackbuf \in Seq(Answers) /\ toUs \in Seq(Answers) /\ Len(ackbuf) <= ACKBUFLEN
FitInv == ReadInv /\ AnswersInv /\ Len(dat) <= DatChars

BuffersFit ==
    /\ Len(outbuf) <= 2 * ReadMax /\ Len(outchars) <= OUTCHARSLEN /\ Len(dat) <= DatChars
    /\ Len(ackbuf) <= ACKBUFLEN /\ Len(cancon_inbuf) <= InRoom /\ Len(flip) <= FlipRoom

(* Steps of others than tty_reader leave its buffer alone. *)
LEMMA ReadInvStays ==
    ASSUME ReadInv, UNCHANGED <<outbuf, upto, done>>, at'["tty"] = "read" => at["tty"] = "read"
    PROVE  ReadInv'
BY DEF ReadInv

(* tty_reader reads, parses, and hands on all of outbuf. *)
LEMMA ReadInvStep ==
    ASSUME InputInv, ReadInv, [InputNext]_inputVars
    PROVE  ReadInv'
<1>1. /\ upto \in Nat /\ done \in Nat /\ done <= upto /\ outbuf \in Seq(Nat) /\ Len(outbuf) \in Nat
      /\ ReadMax \in Nat /\ at \in [Threads -> Places] /\ "tty" \in Threads /\ Len(<<>>) = 0
  BY TermAssumption DEF InputInv, InputType, Threads
<1>2. CASE Read
  <2>1. PICK s \in UNION {[1 .. n -> Chars] : n \in 1 .. ReadMax} : Typed(s)
    BY <1>2 DEF Read, Term
  <2>2. Len(s) \in Nat /\ Len(s) <= ReadMax
    <3>1. PICK n \in 1 .. ReadMax : s \in [1 .. n -> Chars]
      OBVIOUS
    <3>2. n \in Nat /\ n <= ReadMax
      BY <1>1
    <3>3. s \in Seq(Chars) /\ Len(s) = n
      BY <3>1, <3>2
    <3> QED BY <3>2, <3>3
  <2>3. at["tty"] = "read" /\ at'["tty"] = "parse" /\ upto' = upto + Len(s) /\ UNCHANGED <<done, outbuf>>
    BY <1>1, <2>1 DEF Typed, Go
  <2>4. done = upto /\ Len(outbuf) = 0
    BY <1>1, <2>3 DEF ReadInv
  <2> QED BY <1>1, <2>2, <2>3, <2>4 DEF ReadInv
<1>3. CASE TtyReader /\ Parse
  <2> DEFINE new == PassedOn(typed[done + 1], done + 1)
  <2>1. new \in Seq(Nat)
    BY <1>3, ParsePasses
  <2>2. Len(new) <= 2
    BY DEF PassedOn
  <2>3. outbuf' = outbuf \o new /\ done' = done + 1 /\ upto' = upto /\ at'["tty"] # "read"
    BY <1>1, <1>3 DEF Parse, Go
  <2> HIDE DEF new
  <2>4. Len(outbuf \o new) = Len(outbuf) + Len(new) /\ Len(new) \in Nat
    BY <1>1, <2>1, ConcatType
  <2>5. Len(outbuf) + Len(new) + 2 * (upto - (done + 1)) <= 2 * ReadMax
    <3>1. Len(outbuf) + 2 * (upto - done) <= 2 * ReadMax
      BY DEF ReadInv
    <3> QED BY <1>1, <2>2, <2>4, <3>1
  <2> QED BY <2>3, <2>4, <2>5 DEF ReadInv
<1>4. CASE TtyReader /\ signal_outchars
  <2>1. outbuf' = <<>> /\ UNCHANGED <<upto, done>> /\ done = upto
    BY <1>4 DEF signal_outchars
  <2> QED BY <1>1, <2>1 DEF ReadInv
<1>5. CASE Writer \/ reader \/ Disconnect \/ Term(SpuriousWakeup)
  <2>1. UNCHANGED <<outbuf, upto, done>> /\ at'["tty"] = at["tty"]
    BY <1>1, <1>5 DEF Writer, reader, Disconnect, Term, SpuriousWakeup, waitfor_outchars_sleep,
                      waitfor_outchars, signal_acknak, disconnect, Go
  <2> QED BY <2>1, ReadInvStays
<1>6. ASSUME NEW t \in Threads, Send(t) \/ Wait(t) \/ NoAnswer(t) PROVE ReadInv'
  <2>1. UNCHANGED <<outbuf, upto, done>>
    BY <1>6 DEF Send, Wait, NoAnswer, Term, can_send, waitfor_acknak, waitfor_acknak_timeout
  <2>2. at'["tty"] = "read" => at["tty"] = "read"
    <3>1. \/ at' = at
          \/ \E w \in {"wait", "send", "parse", "get"} : at' = [at EXCEPT ![t] = w]
      BY <1>6 DEF Send, Wait, NoAnswer, Term, can_send, waitfor_acknak, waitfor_acknak_timeout, Finished, Go
    <3> QED BY <1>1, <3>1
  <2> QED BY <2>1, <2>2, ReadInvStays
<1>7. CASE canobj_dat \/ canobj_break \/ FlushToLdisc \/ Node \/ Lose
  <2>1. UNCHANGED termVars
    BY <1>7, DatKeeps, BreakKeeps, FlushKeeps, NodeKeeps, LoseKeeps
  <2> QED BY <2>1, ReadInvStays DEF termVars
<1>8. CASE UNCHANGED inputVars
  BY <1>8, ReadInvStays DEF inputVars, termVars
<1> QED BY <1>2, <1>3, <1>4, <1>5, <1>6, <1>7, <1>8 DEF InputNext, TtyReader, Term

(* Answers are put in ackbuf[] while there is room. *)
LEMMA AnswersInvStep ==
    ASSUME AnswersInv, [InputNext]_inputVars
    PROVE  AnswersInv'
<1>1. ackbuf \in Seq(Answers) /\ toUs \in Seq(Answers) /\ Len(ackbuf) <= ACKBUFLEN /\ ACKBUFLEN \in Nat
  BY TermAssumption DEF AnswersInv
<1>2. CASE reader
  <2>1. Head(toUs) \in Answers /\ Tail(toUs) \in Seq(Answers)
    BY <1>1, <1>2, HeadTailProperties DEF reader
  <2>2. /\ toUs' = Tail(toUs)
        /\ ackbuf' = IF Len(ackbuf) < ACKBUFLEN THEN Append(ackbuf, Head(toUs)) ELSE ackbuf
    BY <1>2 DEF reader, signal_acknak
  <2>3. Append(ackbuf, Head(toUs)) \in Seq(Answers) /\ Len(Append(ackbuf, Head(toUs))) = Len(ackbuf) + 1
    BY <1>1, <2>1, AppendProperties
  <2>4. CASE Len(ackbuf) < ACKBUFLEN
    <3>1. ackbuf' = Append(ackbuf, Head(toUs)) /\ Len(ackbuf) + 1 <= ACKBUFLEN
      BY <1>1, <2>2, <2>4
    <3> QED BY <2>1, <2>2, <2>3, <3>1 DEF AnswersInv
  <2>5. CASE ~(Len(ackbuf) < ACKBUFLEN)
    BY <1>1, <2>1, <2>2, <2>5 DEF AnswersInv
  <2> QED BY <2>4, <2>5
<1>3. CASE canobj_dat \/ canobj_break
  <2>1. ackbuf' = ackbuf /\ (toUs' = toUs \/ \E o \in Answers : toUs' = Append(toUs, o))
    BY <1>3 DEF canobj_dat, canobj_break, Answer, Answers, termVars
  <2>2. \A o \in Answers : Append(toUs, o) \in Seq(Answers)
    BY <1>1, AppendProperties
  <2> QED BY <1>1, <2>1, <2>2 DEF AnswersInv
<1>4. CASE Lose
  <2>1. ackbuf' = ackbuf /\ (toUs' = toUs \/ (toUs # <<>> /\ toUs' = Tail(toUs)))
    BY <1>4 DEF Lose, termVars
  <2>2. toUs # <<>> => Tail(toUs) \in Seq(Answers)
    BY <1>1, HeadTailProperties
  <2> QED BY <1>1, <2>1, <2>2 DEF AnswersInv
<1>5. ASSUME NEW t \in Threads, Wait(t) \/ NoAnswer(t) PROVE AnswersInv'
  <2>1. ackbuf' = <<>> /\ toUs' = toUs
    BY <1>5 DEF Wait, NoAnswer, Term, waitfor_acknak, waitfor_acknak_timeout, wireVars
  <2>2. <<>> \in Seq(Answers) /\ Len(<<>>) = 0
    OBVIOUS
  <2> QED BY <1>1, <2>1, <2>2 DEF AnswersInv
<1>6. CASE \/ Read \/ TtyReader \/ Writer \/ Disconnect \/ Term(SpuriousWakeup)
           \/ \E t \in Threads : Send(t)
  <2>1. ackbuf' = ackbuf /\ toUs' = toUs
    BY <1>6 DEF Read, TtyReader, Writer, Disconnect, Term, Send, Typed, Parse, signal_outchars,
                waitfor_outchars_sleep, waitfor_outchars, disconnect, SpuriousWakeup, can_send, wireVars
  <2> QED BY <1>1, <2>1 DEF AnswersInv
<1>7. CASE FlushToLdisc \/ Node \/ UNCHANGED inputVars
  <2>1. ackbuf' = ackbuf /\ toUs' = toUs
    BY <1>7 DEF FlushToLdisc, Node, Tty, inputVars, termVars, wireVars
  <2> QED BY <1>1, <2>1 DEF AnswersInv
<1> QED BY <1>2, <1>3, <1>4, <1>5, <1>6, <1>7 DEF InputNext

(* A packet has no more characters than fit one. *)
LEMMA DatFits ==
    ASSUME InputInv, Len(dat) <= DatChars, [InputNext]_inputVars
    PROVE  Len(dat') <= DatChars
<1>1. DatChars \in Nat /\ outchars \in Seq(Nat) /\ Len(<<>>) = 0
  BY TermAssumption DEF InputInv, InputType
<1>2. CASE Writer /\ waitfor_outchars
  <2>1. dat' = SubSeq(outchars, 1, Taken) /\ Taken \in 0 .. Len(outchars) /\ Taken <= DatChars
    BY <1>1, <1>2 DEF waitfor_outchars, Taken
  <2>2. Len(SubSeq(outchars, 1, Taken)) = Taken
    BY <1>1, <2>1, Cut
  <2> QED BY <2>1, <2>2
<1>3. ASSUME NEW t \in Threads, Wait(t) \/ NoAnswer(t) PROVE Len(dat') <= DatChars
  BY <1>1, <1>3, WaitKeeps
<1>4. CASE canobj_dat \/ canobj_break \/ FlushToLdisc \/ Node \/ Lose
  <2>1. UNCHANGED termVars
    BY <1>4, DatKeeps, BreakKeeps, FlushKeeps, NodeKeeps, LoseKeeps
  <2> QED BY <2>1 DEF termVars
<1>5. CASE \/ Read \/ TtyReader \/ (Writer /\ waitfor_outchars_sleep) \/ reader \/ Disconnect
           \/ Term(SpuriousWakeup) \/ (\E t \in Threads : Send(t)) \/ UNCHANGED inputVars
  <2>1. dat' = dat
    BY <1>5 DEF Read, TtyReader, reader, Disconnect, Term, Send, Typed, Parse, signal_outchars,
                waitfor_outchars_sleep, signal_acknak, disconnect, SpuriousWakeup, can_send, inputVars, termVars
  <2> QED BY <2>1
<1> QED BY <1>2, <1>3, <1>4, <1>5 DEF InputNext, Writer, Term

(* No buffer on the way from the keyboard to the tty is ever overrun:      *)
(* outbuf[] of tty_reader, which has no test, outchars[], the data of a    *)
(* packet and ackbuf[] of cancon (cancon.c:104-112, 191, 294, 456),        *)
(* cancon_inbuf and the flip buffer of the node (can_console.c:305-328).   *)
THEOREM BuffersNeverOverrun == InputSpec => []BuffersFit
<1>1. InputInit => InputInv /\ FitInv
  <2> SUFFICES ASSUME InputInit PROVE InputInv /\ FitInv
    OBVIOUS
  <2>1. <<>> \in Seq(Answers) /\ Len(<<>>) = 0
    OBVIOUS
  <2>2. ReadInv
    BY <2>1, TermAssumption DEF InputInit, TermInit, ReadInv
  <2>3. AnswersInv /\ Len(dat) <= DatChars
    BY <2>1, TermAssumption DEF InputInit, TermInit, AnswersInv
  <2> QED BY <2>2, <2>3, InputInvInit DEF FitInv
<1>2. InputInv /\ FitInv /\ [InputNext]_inputVars => InputInv' /\ FitInv'
  BY InputInvStep, ReadInvStep, AnswersInvStep, DatFits DEF FitInv
<1>3. InputInv /\ FitInv => BuffersFit
  <2> SUFFICES ASSUME InputInv, FitInv PROVE BuffersFit
    OBVIOUS
  <2>1. upto \in Nat /\ done \in Nat /\ done <= upto /\ Len(outbuf) \in Nat /\ ReadMax \in Nat
    BY TermAssumption DEF InputInv, InputType
  <2>2. Len(outbuf) <= 2 * ReadMax
    <3>1. Len(outbuf) + 2 * (upto - done) <= 2 * ReadMax
      BY DEF FitInv, ReadInv
    <3> QED BY <2>1, <3>1
  <2> QED BY <2>2 DEF InputInv, InputType, FitInv, AnswersInv, BuffersFit
<1> QED BY <1>1, <1>2, <1>3, PTL DEF InputSpec

(* The writer does not sleep over characters. *)
WriterAttends == at["writer"] = "asleep" => outchars = <<>>

(* Only signal_outchars adds characters, and it wakes a writer that is     *)
(* asleep.                                                                 *)
LEMMA WriterAttendsStep ==
    ASSUME InputInv, WriterAttends, [InputNext]_inputVars
    PROVE  WriterAttends'
<1>1. /\ at \in [Threads -> Places] /\ "writer" \in Threads /\ "tty" \in Threads
      /\ outchars \in Seq(Nat)
  BY DEF InputInv, InputType, Threads
<1>2. CASE Writer
  <2>1. CASE waitfor_outchars_sleep
    BY <2>1 DEF waitfor_outchars_sleep, WriterAttends
  <2>2. CASE waitfor_outchars
    BY <1>1, <2>2 DEF waitfor_outchars, Go, WriterAttends
  <2> QED BY <1>2, <2>1, <2>2 DEF Writer, Term
<1>3. CASE TtyReader
  <2>1. CASE Parse
    <3>1. outchars' = outchars /\ at'["writer"] = at["writer"]
      BY <1>1, <2>1 DEF Parse, Go
    <3> QED BY <3>1 DEF WriterAttends
  <2>2. CASE signal_outchars
    <3>1. at'["writer"] = IF at["writer"] = "asleep" /\ outchars' # outchars
                          THEN "woken" ELSE at["writer"]
      BY <1>1, <2>2 DEF signal_outchars, WakeWriter
    <3> QED BY <3>1 DEF WriterAttends
  <2> QED BY <1>3, <2>1, <2>2 DEF TtyReader, Term
<1>4. ASSUME NEW t \in Threads, Send(t) \/ Wait(t) \/ NoAnswer(t) PROVE WriterAttends'
  <2>1. /\ outchars' = outchars
        /\ \E where \in {"send", "wait", "parse", "get"} :
              at' = at \/ at' = [at EXCEPT ![t] = where]
    BY <1>4 DEF Send, Wait, NoAnswer, Term, can_send, waitfor_acknak, waitfor_acknak_timeout,
                Finished, Go
  <2>2. at'["writer"] = "asleep" => at["writer"] = "asleep"
    BY <1>1, <2>1
  <2> QED BY <2>1, <2>2 DEF WriterAttends
<1>5. CASE canobj_dat \/ canobj_break \/ FlushToLdisc \/ Node \/ Lose
  <2>1. UNCHANGED termVars
    BY <1>5, DatKeeps, BreakKeeps, FlushKeeps, NodeKeeps, LoseKeeps
  <2> QED BY <2>1 DEF termVars, WriterAttends
<1>6. CASE Read \/ reader \/ Disconnect \/ Term(SpuriousWakeup) \/ UNCHANGED inputVars
  <2>1. outchars' = outchars
    BY <1>6 DEF Read, reader, Disconnect, Term, Typed, signal_acknak, disconnect, SpuriousWakeup,
                inputVars, termVars
  <2>2. at'["writer"] \in {at["writer"], "woken"}
    BY <1>1, <1>6 DEF Read, reader, Disconnect, Term, Typed, signal_acknak, disconnect,
                SpuriousWakeup, Go, inputVars, termVars
  <2> QED BY <2>1, <2>2 DEF WriterAttends
<1> QED BY <1>2, <1>3, <1>4, <1>5, <1>6 DEF InputNext

(* No wake-up is lost: a writer thread that is asleep has nothing to send, *)
(* since waitfor_outchars tests and waits under the mutex under which      *)
(* signal_outchars adds characters and signals (cancon.c:288-337).  It is  *)
(* what InputGetsThrough would first fail for.                             *)
THEOREM NoWakeupLost == InputSpec => []WriterAttends
<1>1. InputInit => WriterAttends
  BY DEF InputInit, TermInit, WriterAttends
<1>2. InputInv /\ WriterAttends /\ [InputNext]_inputVars => WriterAttends'
  BY WriterAttendsStep
<1> QED BY <1>1, <1>2, InputInvInit, InputInvStep, PTL DEF InputSpec
=============================================================================
