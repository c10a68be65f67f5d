--------------------------- MODULE CanDataProofs ----------------------------
(***************************************************************************)
(* Proofs about the data path of the CAN driver, for any number of tasks,  *)
(* rings of any size and any number of packets on the bus.                 *)
(***************************************************************************)
EXTENDS CanData, SequenceTheorems, TLAPS

Places == {"idle", "x_take", "x_copy", "s_put", "s_copy", "s_mark", "s_return",
           "i_recv", "i_clear", "b_get", "b_deliver"}

(* TypeOK, with the functions' domains and the levels. *)
DataType ==
    /\ TypeOK
    /\ fdq \in [Readers -> Seq(Pkts)]
    /\ pc \in [Levels -> Places] /\ arg \in [Levels -> Pkts \cup {NoPkt}]
    /\ tpc \in [Tasks -> {"user", "call", "init", "presleep", "asleep"}]
    /\ cont \in {"none", "iam", "end", "req"}

(* A level that is about to put or to deliver a packet has one; what goes  *)
(* to both rings is a packet for another node.                             *)
ArgsReady ==
    \A l \in Levels :
        /\ (pc[l] \in {"s_put", "b_deliver"} => arg[l] \in Pkts)
        /\ (pc[l] = "s_copy" => arg[l] = "other")

(* Only a send_pkt of the bottom half is to be gone on from. *)
ContKnown == pc["bh"] \in {"idle", "b_get", "b_deliver"} => cont = "none"

DataInv == DataType /\ ArgsReady /\ ContKnown /\ InqAttended

(* A ring that takes a packet has room for it. *)
LEMMA PutFits ==
    ASSUME NEW q \in Seq(Pkts), NEW p \in Pkts, NEW room \in Nat, Len(q) < room
    PROVE  Append(q, p) \in Seq(Pkts) /\ Len(Append(q, p)) <= room
OBVIOUS

(* What is taken out was put in. *)
LEMMA GetKeeps ==
    ASSUME NEW q \in Seq(Pkts), NEW room \in Nat, Len(q) <= room, q # <<>>
    PROVE  Head(q) \in Pkts /\ Tail(q) \in Seq(Pkts) /\ Len(Tail(q)) <= room
OBVIOUS

(* The rings and buffers are empty, and every level is idle. *)
LEMMA DataInit == Init => DataInv
<1> SUFFICES ASSUME Init PROVE DataInv
  OBVIOUS
<1>1. /\ QRoom \in Nat /\ FdRoom \in Nat /\ 0 \in 0 .. HB_IAM_FACTOR - 1
  BY SizesAssumption
<1>a. <<>> \in Seq(Pkts) /\ Len(<<>>) = 0
  OBVIOUS
<1>b. \A r \in Readers : fdq[r] \in Seq(Pkts) /\ Len(fdq[r]) <= FdRoom
  BY <1>1, <1>a DEF Init
<1>c. /\ inq \in Seq(Pkts) /\ Len(inq) <= QRoom
      /\ outq \in Seq(Pkts) /\ Len(outq) <= QRoom
      /\ rxbuf \in Seq(Pkts) /\ Len(rxbuf) <= 2
  BY <1>1, <1>a DEF Init
<1>d. /\ hb_count \in 0 .. HB_IAM_FACTOR - 1
      /\ run \in Tasks \cup {"none"}
      /\ \A t \in Tasks : tpc[t] \in {"user", "call", "init", "presleep", "asleep"}
      /\ \A l \in Levels : arg[l] \in Pkts \cup {NoPkt}
  BY <1>1 DEF Init
<1>e. /\ bhmark \in BOOLEAN /\ xmitAvail \in BOOLEAN /\ irqpend \in BOOLEAN
      /\ inReset \in BOOLEAN /\ cutOff \in BOOLEAN
  BY DEF Init
<1>2. TypeOK
  BY <1>b, <1>c, <1>d, <1>e DEF TypeOK
<1>3. fdq \in [Readers -> Seq(Pkts)]
  BY DEF Init
<1>4. pc \in [Levels -> Places] /\ arg \in [Levels -> Pkts \cup {NoPkt}]
  BY DEF Init, Places
<1>5. ArgsReady /\ ContKnown /\ InqAttended
  BY DEF Init, ArgsReady, ContKnown, InqAttended, Levels
<1> QED
  BY <1>2, <1>3, <1>4, <1>5 DEF DataInv, DataType, Init

(* The chip: what it receives goes to a buffer, or is lost. *)
LEMMA ChipStep ==
    ASSUME DataInv, ChipSent \/ \E p \in RxPkts : ChipReceives(p)
    PROVE  DataInv'
<1> USE DEF DataInv
<1>1. UNCHANGED <<inq, outq, fdq, bhmark, hb_count, inReset, level, task>>
  BY DEF ChipSent, ChipReceives
<1>2. xmitAvail' \in BOOLEAN /\ irqpend' \in BOOLEAN /\ cutOff' \in BOOLEAN
  BY DEF ChipSent, ChipReceives, Late, DataType, TypeOK
<1>3. rxbuf' \in Seq(Pkts) /\ Len(rxbuf') <= 2
  <2>1. CASE ChipSent
    BY <2>1 DEF ChipSent, DataType, TypeOK
  <2>2. CASE \E p \in RxPkts : ChipReceives(p)
    <3>1. PICK p \in RxPkts : rxbuf' = IF Len(rxbuf) < 2 THEN Append(rxbuf, p) ELSE rxbuf
      BY <2>2 DEF ChipReceives
    <3> QED
      BY <3>1, PutFits, PktsAssumption DEF DataType, TypeOK
  <2> QED
    BY <2>1, <2>2
<1>4. DataType'
  BY <1>1, <1>2, <1>3 DEF DataType, TypeOK, level, task
<1>5. ArgsReady' /\ ContKnown' /\ InqAttended'
  BY <1>1 DEF ArgsReady, ContKnown, InqAttended, level
<1> QED
  BY <1>4, <1>5

(* try_xmit takes packets out of outq, and wakes writers. *)
LEMMA XmitKeeps ==
    ASSUME DataInv, NEW l \in Levels, XmitStep(l)
    PROVE  DataInv'
<1> USE DEF DataInv
<1>1. /\ UNCHANGED <<inq, fdq, bhmark, hb_count, rxbuf, irqpend, inReset, cutOff, arg, cont, run>>
      /\ pc[l] \in {"x_take", "x_copy"}
      /\ \E where \in {"x_take", "x_copy", "i_clear", "s_return"} :
            pc' = [pc EXCEPT ![l] = where]
  BY DEF XmitStep, try_xmit_take, try_xmit_copy, try_xmit_done, Goto, chip, task
<1>2. outq' \in Seq(Pkts) /\ Len(outq') <= QRoom
  <2>1. QRoom \in Nat /\ outq \in Seq(Pkts) /\ Len(outq) <= QRoom
    BY SizesAssumption DEF DataType, TypeOK
  <2>2. outq' = outq \/ (outq # <<>> /\ outq' = Tail(outq))
    BY DEF XmitStep, try_xmit_take, try_xmit_copy, try_xmit_done
  <2> QED
    BY <2>1, <2>2, GetKeeps
<1>3. xmitAvail' \in BOOLEAN
  BY DEF XmitStep, try_xmit_take, try_xmit_copy, try_xmit_done, chip, DataType, TypeOK
<1>4. tpc' \in [Tasks -> {"user", "call", "init", "presleep", "asleep"}]
  BY DEF XmitStep, try_xmit_take, try_xmit_copy, try_xmit_done, task, DataType
<1>5. DataType'
  BY <1>1, <1>2, <1>3, <1>4 DEF DataType, TypeOK, Places
<1>6. ArgsReady' /\ ContKnown' /\ InqAttended'
  BY <1>1 DEF ArgsReady, ContKnown, InqAttended, DataType, Levels
<1> QED
  BY <1>5, <1>6

(* send_pkt: who puts a packet into inq is at s_mark until can_bh is       *)
(* queued.                                                                 *)
LEMMA SendKeeps ==
    ASSUME DataInv, NEW l \in Levels, SendStep(l)
    PROVE  DataInv'
<1> USE DEF DataInv
<1>1. QRoom \in Nat
  BY SizesAssumption
<1>2. CASE send_pkt_put(l)
  <2>1. /\ UNCHANGED <<fdq, bhmark, hb_count, chip, arg, cont, task>> /\ pc[l] = "s_put"
        /\ inq' = inq \/ (inq' = Append(inq, arg[l]) /\ Len(inq) < QRoom)
        /\ outq' = outq \/ (outq' = Append(outq, arg[l]) /\ Len(outq) < QRoom)
    BY <1>2 DEF send_pkt_put, HasRoom
  <2>2. \E where \in {"s_mark", "s_copy", "s_return"} :
            /\ pc' = [pc EXCEPT ![l] = where] /\ (inq' = inq \/ where = "s_mark")
            /\ where = "s_copy" => ~IS_MYPACKET(arg[l])
    BY <1>2 DEF send_pkt_put, Goto
  <2>3. arg[l] \in Pkts
    BY <1>1, <2>1 DEF ArgsReady
  <2>4. inq' \in Seq(Pkts) /\ Len(inq') <= QRoom /\ outq' \in Seq(Pkts) /\ Len(outq') <= QRoom
    BY <1>1, <2>1, <2>3, PutFits DEF DataType, TypeOK
  <2>5. DataType'
    BY <1>1, <2>1, <2>2, <2>4 DEF DataType, TypeOK, Places, chip, task
  <2>6. ArgsReady' /\ ContKnown'
    BY <2>1, <2>2, <2>3 DEF ArgsReady, ContKnown, DataType, Levels, Pkts, IS_MYPACKET
  <2>7. InqAttended'
    BY <1>1, <2>1, <2>2 DEF InqAttended, DataType, Levels
  <2> QED
    BY <2>5, <2>6, <2>7
<1>a. CASE send_pkt_copy(l)
  <2>1. /\ UNCHANGED <<outq, fdq, bhmark, hb_count, chip, arg, cont, task>> /\ pc[l] = "s_copy"
        /\ \E where \in {"s_mark", "x_take"} :
             /\ pc' = [pc EXCEPT ![l] = where]
             /\ inq' = inq \/ (where = "s_mark" /\ inq' = Append(inq, arg[l]) /\ Len(inq) < QRoom)
    BY <1>a DEF send_pkt_copy, HasRoom, Goto
  <2>2. arg[l] \in Pkts
    BY <2>1 DEF ArgsReady, Pkts
  <2>3. inq' \in Seq(Pkts) /\ Len(inq') <= QRoom
    BY <1>1, <2>1, <2>2, PutFits DEF DataType, TypeOK
  <2>4. DataType'
    BY <2>1, <2>3 DEF DataType, TypeOK, Places, chip, task
  <2>5. ArgsReady' /\ ContKnown'
    BY <2>1 DEF ArgsReady, ContKnown, DataType, Levels
  <2>6. InqAttended'
    BY <2>1 DEF InqAttended, DataType, Levels
  <2> QED
    BY <2>4, <2>5, <2>6
<1>3. CASE send_pkt_mark(l)
  <2>1. /\ UNCHANGED <<inq, outq, fdq, hb_count, chip, arg, cont, task>> /\ pc[l] = "s_mark"
        /\ bhmark' = TRUE
        /\ \E where \in {"x_take", "s_return"} : pc' = [pc EXCEPT ![l] = where]
    BY <1>3 DEF send_pkt_mark, Goto, Marked
  <2>2. DataType'
    BY <1>1, <2>1 DEF DataType, TypeOK, Places, chip, task
  <2>3. ArgsReady' /\ ContKnown' /\ InqAttended'
    BY <1>1, <2>1 DEF ArgsReady, ContKnown, InqAttended, DataType, Levels
  <2> QED
    BY <2>2, <2>3
<1> QED
  BY <1>2, <1>a, <1>3, XmitKeeps DEF SendStep

(* The interrupt handler queues can_bh for what it puts into inq. *)
LEMMA IrqKeeps ==
    ASSUME DataInv, IrqStep
    PROVE  DataInv'
<1> USE DEF DataInv
<1>1. "irq" \in Levels /\ QRoom \in Nat
  BY SizesAssumption DEF Levels
<1>2. CASE can_intr \/ can_intr_printed \/ can_intr_clear
  <2>1. /\ UNCHANGED <<inq, outq, fdq, bhmark, hb_count, xmitAvail, rxbuf, inReset, cont, task>>
        /\ pc["irq"] \in {"idle", "i_clear", "s_return"}
        /\ \/ \E where \in {"i_recv", "idle"} : pc' = [pc EXCEPT !["irq"] = where]
           \/ /\ pc' = [pc EXCEPT !["irq"] = "s_put"]
              /\ arg' = [arg EXCEPT !["irq"] = "other"]
        /\ arg' = arg \/ \E p \in {"other", NoPkt} : arg' = [arg EXCEPT !["irq"] = p]
    BY <1>2 DEF can_intr, can_intr_printed, can_intr_clear, Begins, Goto, chip
  <2>a. irqpend' \in BOOLEAN /\ cutOff' \in BOOLEAN
    BY <1>2 DEF can_intr, can_intr_printed, can_intr_clear, chip, DataType, TypeOK
  <2>2. DataType'
    BY <1>1, <2>1, <2>a DEF DataType, TypeOK, Places, Pkts, task
  <2>3. ArgsReady' /\ ContKnown' /\ InqAttended'
    BY <1>1, <2>1 DEF ArgsReady, ContKnown, InqAttended, DataType, Levels, Pkts
  <2> QED
    BY <2>2, <2>3
<1>3. CASE try_recv
  <2>1. /\ UNCHANGED <<outq, fdq, hb_count, xmitAvail, irqpend, inReset, cutOff, arg, cont, task>>
        /\ pc["irq"] = "i_recv"
    BY <1>3 DEF try_recv
  <2>2. CASE rxbuf = <<>>
    <3>1. pc' = [pc EXCEPT !["irq"] = "x_take"] /\ UNCHANGED <<inq, rxbuf, bhmark>>
      BY <1>3, <2>2 DEF try_recv, Goto, AfterRecv
    <3>2. DataType'
      BY <1>1, <2>1, <3>1 DEF DataType, TypeOK, Places, task
    <3>3. ArgsReady' /\ ContKnown' /\ InqAttended'
      BY <1>1, <2>1, <3>1 DEF ArgsReady, ContKnown, InqAttended, DataType, Levels
    <3> QED
      BY <3>2, <3>3
  <2>3. CASE rxbuf # <<>>
    <3>1. /\ inq' = IF Len(inq) < QRoom THEN Append(inq, Head(rxbuf)) ELSE inq
          /\ rxbuf' = Tail(rxbuf) /\ bhmark' = TRUE /\ pc' = pc
      BY <1>3, <2>3 DEF try_recv, Released, HasRoom
    <3>2. Head(rxbuf) \in Pkts /\ rxbuf' \in Seq(Pkts) /\ Len(rxbuf') <= 2
      BY <2>3, <3>1, GetKeeps DEF DataType, TypeOK
    <3>3. inq' \in Seq(Pkts) /\ Len(inq') <= QRoom
      BY <1>1, <3>1, <3>2, PutFits DEF DataType, TypeOK
    <3>4. DataType'
      BY <2>1, <3>1, <3>2, <3>3 DEF DataType, TypeOK, task
    <3>5. ArgsReady' /\ ContKnown' /\ InqAttended'
      BY <2>1, <3>1 DEF ArgsReady, ContKnown, InqAttended
    <3> QED
      BY <3>4, <3>5
  <2> QED
    BY <2>2, <2>3
<1> QED
  BY <1>1, <1>2, <1>3, SendKeeps DEF IrqStep

(* deliver_pkt fills no ring of a file beyond its room. *)
LEMMA DeliverKeeps ==
    ASSUME DataInv, deliver_pkt
    PROVE  DataInv'
<1> USE DEF DataInv
<1>1. "bh" \in Levels /\ FdRoom \in Nat
  BY SizesAssumption DEF Levels
<1> DEFINE p == arg["bh"]
<1>2. /\ UNCHANGED <<inq, outq, bhmark, hb_count, chip, cont, run>> /\ pc["bh"] = "b_deliver"
      /\ fdq' = [r \in Readers |-> IF r \in Delivered(p) THEN Append(fdq[r], p) ELSE fdq[r]]
      /\ tpc' = [t \in Tasks |->
                    IF t \in Delivered(p) /\ tpc[t] = "asleep" THEN "call" ELSE tpc[t]]
      /\ arg' = [arg EXCEPT !["bh"] = NoPkt] /\ pc' = [pc EXCEPT !["bh"] = "b_get"]
  BY DEF deliver_pkt, Goto
<1>3. p \in Pkts
  BY <1>1, <1>2 DEF ArgsReady
<1>4. \A r \in Readers : fdq'[r] \in Seq(Pkts) /\ Len(fdq'[r]) <= FdRoom
  <2> SUFFICES ASSUME NEW r \in Readers
               PROVE  fdq'[r] \in Seq(Pkts) /\ Len(fdq'[r]) <= FdRoom
    OBVIOUS
  <2>1. fdq[r] \in Seq(Pkts) /\ Len(fdq[r]) <= FdRoom
    BY DEF DataType, TypeOK
  <2>2. CASE r \in Delivered(p)
    BY <1>1, <1>2, <1>3, <2>1, <2>2, PutFits DEF Delivered
  <2>3. CASE r \notin Delivered(p)
    BY <1>2, <2>1, <2>3
  <2> QED
    BY <2>2, <2>3
<1>5. fdq' \in [Readers -> Seq(Pkts)]
  BY <1>2, <1>4
<1>6. tpc' \in [Tasks -> {"user", "call", "init", "presleep", "asleep"}]
  BY <1>2 DEF DataType
<1>7. DataType'
  BY <1>1, <1>2, <1>4, <1>5, <1>6 DEF DataType, TypeOK, Places, chip
<1>8. ArgsReady' /\ ContKnown' /\ InqAttended'
  BY <1>1, <1>2 DEF ArgsReady, ContKnown, InqAttended, DataType, Levels
<1> QED
  BY <1>7, <1>8

(* The bottom half stays until inq is empty, except for the heartbeat.     *)
LEMMA BhKeeps ==
    ASSUME DataInv, can_bh \/ canobj_send_heartbeat \/ BhStep
    PROVE  DataInv'
<1> USE DEF DataInv
<1>1. "bh" \in Levels /\ QRoom \in Nat
  BY SizesAssumption DEF Levels
<1>2. CASE can_bh
  <2>1. /\ UNCHANGED <<inq, outq, fdq, hb_count, chip, arg, cont, task>>
        /\ pc["bh"] = "idle" /\ bhmark' = FALSE /\ pc' = [pc EXCEPT !["bh"] = "b_get"]
    BY <1>2 DEF can_bh, Goto
  <2>2. DataType'
    BY <1>1, <2>1 DEF DataType, TypeOK, Places, chip, task
  <2>3. ArgsReady' /\ ContKnown' /\ InqAttended'
    BY <1>1, <2>1 DEF ArgsReady, ContKnown, InqAttended, DataType, Levels
  <2> QED
    BY <2>2, <2>3
<1>3. CASE canobj_send_heartbeat
  <2>1. /\ UNCHANGED <<inq, outq, fdq, bhmark, chip, task>>
        /\ pc["bh"] = "idle" /\ cont' \in {"iam", "end"}
        /\ arg' = [arg EXCEPT !["bh"] = "other"] /\ pc' = [pc EXCEPT !["bh"] = "s_put"]
        /\ hb_count' = (hb_count + 1) % HB_IAM_FACTOR
    BY <1>3 DEF canobj_send_heartbeat, Begins, Goto
  <2>2. hb_count' \in 0 .. HB_IAM_FACTOR - 1
    <3>1. hb_count + 1 \in Int /\ HB_IAM_FACTOR \in Nat /\ HB_IAM_FACTOR > 0
      BY SizesAssumption DEF DataType, TypeOK
    <3> QED
      BY <2>1, <3>1
  <2>3. DataType'
    BY <1>1, <2>1, <2>2 DEF DataType, TypeOK, Places, Pkts, chip, task
  <2>4. ArgsReady' /\ ContKnown'
    BY <1>1, <2>1 DEF ArgsReady, ContKnown, DataType, Levels, Pkts
  <2>5. InqAttended'
    BY <1>1, <2>1 DEF ContKnown, InqAttended, DataType, Levels
  <2> QED
    BY <2>3, <2>4, <2>5
<1>4. CASE can_bh_get
  <2>1. UNCHANGED <<outq, fdq, bhmark, hb_count, chip, task>> /\ pc["bh"] = "b_get"
    BY <1>4 DEF can_bh_get
  <2>2. CASE inq = <<>>
    <3>1. UNCHANGED <<inq, arg, cont>> /\ pc' = [pc EXCEPT !["bh"] = "idle"]
      BY <1>4, <2>2 DEF can_bh_get, Goto
    <3>2. DataType'
      BY <1>1, <2>1, <3>1 DEF DataType, TypeOK, Places, chip, task
    <3>3. ArgsReady' /\ ContKnown' /\ InqAttended'
      BY <1>1, <2>1, <2>2, <3>1 DEF ArgsReady, ContKnown, InqAttended, DataType, Levels
    <3> QED
      BY <3>2, <3>3
  <2>3. CASE inq # <<>>
    <3>1. /\ inq' = Tail(inq)
          /\ \/ /\ arg' = [arg EXCEPT !["bh"] = "other"] /\ pc' = [pc EXCEPT !["bh"] = "s_put"]
                /\ cont' = "req"
             \/ /\ arg' = [arg EXCEPT !["bh"] = Head(inq)]
                /\ pc' = [pc EXCEPT !["bh"] = "b_deliver"] /\ cont' = cont
      BY <1>4, <2>3 DEF can_bh_get, Begins, Goto
    <3>2. Head(inq) \in Pkts /\ inq' \in Seq(Pkts) /\ Len(inq') <= QRoom
      BY <1>1, <2>3, <3>1, GetKeeps DEF DataType, TypeOK
    <3>3. DataType'
      BY <1>1, <2>1, <3>1, <3>2 DEF DataType, TypeOK, Places, Pkts, chip, task
    <3>4. ArgsReady' /\ ContKnown'
      BY <1>1, <2>1, <3>1, <3>2 DEF ArgsReady, ContKnown, DataType, Levels, Pkts
    <3>5. InqAttended'
      BY <1>1, <3>1 DEF InqAttended, DataType, Levels
    <3> QED
      BY <3>3, <3>4, <3>5
  <2> QED
    BY <2>2, <2>3
<1>5. CASE bh_send_returns
  <2>1. /\ UNCHANGED <<inq, outq, fdq, bhmark, hb_count, chip, task>> /\ pc["bh"] = "s_return"
        /\ \/ /\ cont = "iam" /\ cont' = "end"
              /\ arg' = [arg EXCEPT !["bh"] = "other"] /\ pc' = [pc EXCEPT !["bh"] = "s_put"]
           \/ /\ cont = "end" /\ cont' = "none"
              /\ arg' = [arg EXCEPT !["bh"] = NoPkt] /\ pc' = [pc EXCEPT !["bh"] = "idle"]
           \/ /\ cont = "req" /\ cont' = "none"
              /\ arg' = [arg EXCEPT !["bh"] = "req"] /\ pc' = [pc EXCEPT !["bh"] = "b_deliver"]
    BY <1>5 DEF bh_send_returns, Begins, Goto
  <2>2. DataType'
    BY <1>1, <2>1 DEF DataType, TypeOK, Places, Pkts, chip, task
  <2>3. ArgsReady' /\ ContKnown'
    BY <1>1, <2>1 DEF ArgsReady, ContKnown, DataType, Levels, Pkts
  <2>4. InqAttended'
    BY <1>1, <2>1 DEF InqAttended, DataType, Levels
  <2> QED
    BY <2>2, <2>3, <2>4
<1> QED
  BY <1>1, <1>2, <1>3, <1>4, <1>5, DeliverKeeps, SendKeeps DEF BhStep

(* Tasks: a system call begins, goes on with the next packet, or ends. *)
LEMMA TaskKeeps ==
    ASSUME DataInv, NEW t \in Tasks, KernelStep(t) \/ UserStep(t)
    PROVE  DataInv'
<1> USE DEF DataInv
<1>1. "task" \in Levels /\ FdRoom \in Nat
  BY SizesAssumption DEF Levels
<1> DEFINE Kept == UNCHANGED <<inq, outq, bhmark, hb_count, cont>>
           ChipKept == UNCHANGED <<xmitAvail, rxbuf, irqpend, inReset, cutOff>>
           TaskMoves == /\ \E where \in {"user", "call", "init", "presleep", "asleep"} :
                             tpc' = tpc \/ tpc' = [tpc EXCEPT ![t] = where]
                        /\ run' \in {run, t, "none"}
<1>2. CASE UNCHANGED level /\ Kept /\ ChipKept /\ UNCHANGED fdq /\ TaskMoves
  <2>1. DataType'
    BY <1>2 DEF DataType, TypeOK, level
  <2>2. ArgsReady' /\ ContKnown' /\ InqAttended'
    BY <1>2 DEF ArgsReady, ContKnown, InqAttended, level
  <2> QED
    BY <2>1, <2>2
<1>3. CASE \/ UserStep(t) \/ sleep_on(t) \/ can_init_82c200_end(t) \/ can_write_zero(t)
           \/ user_to_outq_efault(t)
  <2>1. CASE can_init_82c200(t) \/ can_init_82c200_end(t)
    <3>1. Kept /\ TaskMoves /\ UNCHANGED <<fdq, level>>
      BY <2>1 DEF can_init_82c200, can_init_82c200_end, level
    <3>2. /\ xmitAvail' \in BOOLEAN /\ irqpend' \in BOOLEAN
          /\ inReset' \in BOOLEAN /\ cutOff' \in BOOLEAN
      BY <2>1 DEF can_init_82c200, can_init_82c200_end, DataType, TypeOK
    <3>a. rxbuf' \in Seq(Pkts) /\ Len(rxbuf') <= 2
      <4>1. rxbuf' = <<>> \/ rxbuf' = rxbuf
        BY <2>1 DEF can_init_82c200, can_init_82c200_end
      <4>2. <<>> \in Seq(Pkts) /\ Len(<<>>) <= 2
        OBVIOUS
      <4> QED
        BY <4>1, <4>2 DEF DataType, TypeOK
    <3>3. DataType'
      BY <3>1, <3>2, <3>a DEF DataType, TypeOK, level
    <3>4. ArgsReady' /\ ContKnown' /\ InqAttended'
      BY <3>1 DEF ArgsReady, ContKnown, InqAttended, level
    <3> QED
      BY <3>3, <3>4
  <2>2. CASE \/ \E n \in Counts : can_write(t, n)
             \/ can_read(t) \/ signal(t) \/ sleep_on(t) \/ can_write_zero(t)
             \/ user_to_outq_efault(t)
    <3>1. UNCHANGED level /\ Kept /\ ChipKept /\ UNCHANGED fdq
      BY <2>2 DEF can_write, can_read, signal, sleep_on, can_write_zero, user_to_outq_efault,
                  level, chip
    <3>2. TaskMoves
      BY <2>2 DEF can_write, can_read, signal, sleep_on, can_write_zero, user_to_outq_efault,
                  AfterLoop
    <3> QED
      BY <1>2, <3>1, <3>2
  <2> QED
    BY <1>3, <2>1, <2>2 DEF UserStep
<1>4. CASE ring_to_user(t)
  <2>1. Kept /\ ChipKept /\ UNCHANGED level /\ TaskMoves
    BY <1>4 DEF ring_to_user, AfterLoop, chip, level
  <2>2. /\ \A r \in Readers : fdq'[r] \in Seq(Pkts) /\ Len(fdq'[r]) <= FdRoom
        /\ fdq' \in [Readers -> Seq(Pkts)]
    <3>1. CASE fdq' = fdq
      BY <3>1 DEF DataType, TypeOK
    <3>2. CASE t \in Readers /\ \E n \in 1 .. Len(fdq[t]) :
                    fdq' = [fdq EXCEPT ![t] = SubSeq(@, n + 1, Len(@))]
      <4>1. PICK n \in 1 .. Len(fdq[t]) : fdq' = [fdq EXCEPT ![t] = SubSeq(@, n + 1, Len(@))]
        BY <3>2
      <4>2. fdq[t] \in Seq(Pkts) /\ Len(fdq[t]) <= FdRoom /\ Len(fdq[t]) \in Nat
        BY <3>2 DEF DataType, TypeOK
      <4> DEFINE left == SubSeq(fdq[t], n + 1, Len(fdq[t]))
      <4>3. left \in Seq(Pkts) /\ Len(left) <= FdRoom
        BY <1>1, <4>2
      <4> HIDE DEF left
      <4>4. fdq' = [fdq EXCEPT ![t] = left]
        BY <4>1 DEF left
      <4> QED
        BY <4>3, <4>4 DEF DataType, TypeOK
    <3> QED
      BY <1>4, <3>1, <3>2 DEF ring_to_user
  <2>3. DataType'
    BY <2>1, <2>2 DEF DataType, TypeOK, level
  <2>4. ArgsReady' /\ ContKnown' /\ InqAttended'
    BY <2>1 DEF ArgsReady, ContKnown, InqAttended, level
  <2> QED
    BY <2>3, <2>4
<1>5. CASE \/ \E p \in WritePkts : user_to_outq(t, p)
           \/ write_send_returns(t)
  <2>1. Kept /\ ChipKept /\ UNCHANGED fdq /\ pc["task"] \in {"idle", "s_return"}
    BY <1>5 DEF user_to_outq, write_send_returns, chip, TaskMayRun
  <2>2. TaskMoves
    BY <1>5 DEF user_to_outq, write_send_returns, AfterLoop
  <2>3. \/ \E p \in Pkts : /\ arg' = [arg EXCEPT !["task"] = p]
                           /\ pc' = [pc EXCEPT !["task"] = "s_put"]
        \/ /\ arg' = [arg EXCEPT !["task"] = NoPkt]
           /\ pc' = [pc EXCEPT !["task"] = "idle"]
    BY <1>5, PktsAssumption DEF user_to_outq, write_send_returns, Begins, Goto
  <2>4. DataType'
    <3>1. pc' \in [Levels -> Places]
      BY <1>1, <2>3 DEF DataType, Places
    <3>a. arg' \in [Levels -> Pkts \cup {NoPkt}]
      BY <1>1, <2>3 DEF DataType
    <3>2. tpc' \in [Tasks -> {"user", "call", "init", "presleep", "asleep"}]
      BY <2>2 DEF DataType
    <3> QED
      BY <2>1, <2>2, <3>1, <3>a, <3>2 DEF DataType, TypeOK
  <2>5. ArgsReady' /\ ContKnown'
    BY <1>1, <2>1, <2>3 DEF ArgsReady, ContKnown, DataType, Levels
  <2>6. InqAttended'
    BY <1>1, <2>1, <2>3 DEF InqAttended, DataType, Levels
  <2> QED
    BY <2>4, <2>5, <2>6
<1> QED
  BY <1>1, <1>3, <1>4, <1>5, SendKeeps DEF KernelStep

(* The invariant is inductive. *)
LEMMA DataStep == DataInv /\ [Next]_vars => DataInv'
<1> SUFFICES ASSUME DataInv, [Next]_vars
             PROVE  DataInv'
  OBVIOUS
<1>1. CASE UNCHANGED vars
  BY <1>1 DEF DataInv, DataType, TypeOK, ArgsReady, ContKnown, InqAttended,
              vars, chip, level, task
<1>2. CASE Next
  BY <1>2, ChipStep, IrqKeeps, BhKeeps, TaskKeeps DEF Next
<1> QED
  BY <1>1, <1>2

(* On whatever level packets are put into the rings and the receive        *)
(* buffers, none holds more than fits (send_pkt, try_recv, deliver_pkt).   *)
THEOREM RingsBounded == Spec => []TypeOK
<1>1. DataInv => TypeOK
  BY DEF DataInv, DataType
<1> QED
  BY <1>1, DataInit, DataStep, PTL DEF Spec

(* No packet stays in inq with nobody to take it out: between the put of   *)
(* send_pkt or try_recv and the queue_task of can_bh, and while can_bh     *)
(* answers a request, the one who is to go on is known.                    *)
THEOREM NothingLeftInInq == Spec => []InqAttended
<1>1. DataInv => InqAttended
  BY DEF DataInv
<1> QED
  BY <1>1, DataInit, DataStep, PTL DEF Spec

-----------------------------------------------------------------------------
(* Somebody is to go on with outq, and with the receive buffers: a         *)
(* try_xmit is under way, or the interrupt handler will run.               *)
XmitAttended ==
    outq # <<>> /\ xmitAvail => irqpend \/ cutOff \/ \E l \in Levels : Transmits(l)
RecvAttended == rxbuf # <<>> => irqpend \/ cutOff

(* What the interrupt handler has left behind it, when nothing came late.  *)
HandlerInv ==
    /\ pc["irq"] \in {"idle", "i_recv", "s_put", "s_copy", "s_mark", "s_return",
                      "x_take", "x_copy", "i_clear"}
    /\ pc["irq"] # "idle" => irqpend
    /\ pc["irq"] \in {"idle", "i_recv", "i_clear"} => arg["irq"] = NoPkt
    /\ pc["irq"] \in {"s_put", "s_copy", "s_mark"} => arg["irq"] # NoPkt
    /\ ~cutOff =>
        /\ (pc["irq"] \in {"x_take", "x_copy"} /\ arg["irq"] = NoPkt => rxbuf = <<>>)
        /\ (pc["irq"] = "i_clear" => rxbuf = <<>> /\ (outq = <<>> \/ ~xmitAvail))

AttendInv == XmitAttended /\ RecvAttended /\ HandlerInv

(* Who transmits is not changed by a step of another level. *)
LEMMA OthersTransmit ==
    ASSUME DataInv, NEW l \in Levels,
           \A m \in Levels \ {l} : pc'[m] = pc[m] /\ arg'[m] = arg[m],
           Transmits(l) => Transmits(l)',
           \E m \in Levels : Transmits(m)
    PROVE  \E m \in Levels : Transmits(m)'
BY DEF Transmits, IS_MYPACKET

(* The chip raises an interrupt with whatever it does; what it does while  *)
(* the handler runs is remembered.                                         *)
LEMMA ChipAttended ==
    ASSUME DataInv, AttendInv, ChipSent \/ \E p \in RxPkts : ChipReceives(p)
    PROVE  AttendInv'
<1>1. /\ irqpend' = TRUE /\ pc' = pc /\ arg' = arg
      /\ pc["irq"] # "idle" => cutOff' = TRUE
  BY DEF ChipSent, ChipReceives, Late, level, DataInv, DataType, TypeOK
<1> QED
  BY <1>1 DEF AttendInv, XmitAttended, RecvAttended, HandlerInv

(* try_xmit ends only when outq is empty or the chip is busy. *)
LEMMA XmitAttends ==
    ASSUME DataInv, AttendInv, NEW l \in Levels, XmitStep(l)
    PROVE  AttendInv'
<1>1. /\ UNCHANGED <<rxbuf, irqpend, cutOff, arg>>
      /\ pc \in [Levels -> Places] /\ (l # "irq" => pc["irq"] = "idle")
      /\ pc[l] \in {"x_take", "x_copy"}
  BY DEF XmitStep, try_xmit_take, try_xmit_copy, try_xmit_done, chip, Runs, DataInv, DataType
<1>2. CASE \/ pc' = [pc EXCEPT ![l] = "x_take"]
           \/ pc' = [pc EXCEPT ![l] = "x_copy"]
  <2>1. pc'[l] \in {"x_take", "x_copy"}
    BY <1>1, <1>2
  <2>2. \E m \in Levels : Transmits(m)'
    BY <2>1 DEF Transmits
  <2>3. HandlerInv'
    BY <1>1, <1>2 DEF HandlerInv, AttendInv, Levels
  <2> QED
    BY <1>1, <2>2, <2>3 DEF AttendInv, XmitAttended, RecvAttended
<1>3. CASE try_xmit_done(l)
  <2>1. /\ UNCHANGED <<outq, xmitAvail>> /\ (~xmitAvail \/ outq = <<>>) /\ pc[l] = "x_take"
        /\ pc' = [pc EXCEPT ![l] = IF l = "irq" /\ arg[l] = NoPkt THEN "i_clear" ELSE "s_return"]
    BY <1>3 DEF try_xmit_done, chip, Goto
  <2>2. HandlerInv'
    BY <1>1, <2>1 DEF HandlerInv, AttendInv, Levels
  <2> QED
    BY <1>1, <2>1, <2>2 DEF AttendInv, XmitAttended, RecvAttended
<1> QED
  BY <1>2, <1>3 DEF XmitStep, try_xmit_take, try_xmit_copy, Goto

(* send_pkt: who has put a packet into outq goes on to try_xmit. *)
LEMMA SendAttends ==
    ASSUME DataInv, AttendInv, NEW l \in Levels, SendStep(l)
    PROVE  AttendInv'
<1>1. /\ "irq" \in Levels /\ pc \in [Levels -> Places] /\ arg[l] \in Pkts \cup {NoPkt}
  BY DEF Levels, DataInv, DataType
<1>2. CASE send_pkt_put(l)
  <2>1. /\ UNCHANGED <<xmitAvail, rxbuf, irqpend, cutOff, arg>> /\ pc[l] = "s_put"
        /\ \E where \in {"s_mark", "s_copy", "s_return"} :
              pc' = [pc EXCEPT ![l] = where] /\ (outq' = outq \/ where = "s_copy")
        /\ l # "irq" => pc["irq"] = "idle"
    BY <1>2 DEF send_pkt_put, Goto, chip, Runs
  <2>2. HandlerInv' /\ RecvAttended'
    BY <1>1, <2>1 DEF HandlerInv, RecvAttended, AttendInv
  <2>3. CASE outq' = outq
    <3>1. ~Transmits(l)
      BY <2>1 DEF Transmits
    <3>2. \A m \in Levels \ {l} : pc'[m] = pc[m] /\ arg'[m] = arg[m]
      BY <1>1, <2>1
    <3>3. (\E m \in Levels : Transmits(m)) => \E m \in Levels : Transmits(m)'
      BY <3>1, <3>2, OthersTransmit
    <3> QED
      BY <2>1, <2>2, <2>3, <3>3 DEF AttendInv, XmitAttended
  <2>4. CASE outq' # outq
    <3>1. Transmits(l)'
      BY <1>1, <2>1, <2>4 DEF Transmits
    <3> QED
      BY <2>2, <3>1 DEF AttendInv, XmitAttended
  <2> QED
    BY <2>3, <2>4
<1>3. CASE send_pkt_copy(l) \/ send_pkt_mark(l)
  <2>1. /\ UNCHANGED <<outq, xmitAvail, rxbuf, irqpend, cutOff, arg>>
        /\ l # "irq" => pc["irq"] = "idle"
        /\ \/ /\ pc[l] = "s_copy"
              /\ \E where \in {"s_mark", "x_take"} : pc' = [pc EXCEPT ![l] = where]
           \/ /\ pc[l] = "s_mark"
              /\ pc' = [pc EXCEPT ![l] = IF IS_MYPACKET(arg[l]) THEN "s_return" ELSE "x_take"]
    BY <1>3 DEF send_pkt_copy, send_pkt_mark, Goto, chip, Runs
  <2>2. Transmits(l) => Transmits(l)'
    BY <1>1, <2>1 DEF Transmits, IS_MYPACKET, DataInv, ArgsReady
  <2>3. \A m \in Levels \ {l} : pc'[m] = pc[m] /\ arg'[m] = arg[m]
    BY <1>1, <2>1
  <2>4. (\E m \in Levels : Transmits(m)) => \E m \in Levels : Transmits(m)'
    BY <2>2, <2>3, OthersTransmit
  <2>5. HandlerInv'
    BY <1>1, <2>1 DEF AttendInv, HandlerInv
  <2> QED
    BY <2>1, <2>4, <2>5 DEF AttendInv, XmitAttended, RecvAttended
<1> QED
  BY <1>2, <1>3, XmitAttends DEF SendStep

(* The rest of the handler: it leaves no packet it has seen. *)
LEMMA IrqAttends ==
    ASSUME DataInv, AttendInv, IrqStep
    PROVE  AttendInv'
<1>1. /\ "irq" \in Levels /\ pc \in [Levels -> Places]
      /\ arg \in [Levels -> Pkts \cup {NoPkt}]
  BY DEF Levels, DataInv, DataType
<1>2. CASE can_intr
  <2>1. /\ UNCHANGED <<outq, xmitAvail, rxbuf, irqpend>> /\ irqpend = TRUE
        /\ pc["irq"] = "idle"
        /\ \/ /\ pc' = [pc EXCEPT !["irq"] = "i_recv"] /\ arg' = arg
           \/ /\ pc' = [pc EXCEPT !["irq"] = "s_put"]
              /\ arg' = [arg EXCEPT !["irq"] = "other"]
    BY <1>2 DEF can_intr, Begins, Goto, DataInv, DataType, TypeOK
  <2>2. HandlerInv'
    BY <1>1, <2>1 DEF AttendInv, HandlerInv, NoPkt
  <2> QED
    BY <2>1, <2>2 DEF AttendInv, XmitAttended, RecvAttended
<1>3. CASE can_intr_printed
  <2>1. /\ UNCHANGED <<outq, xmitAvail, rxbuf, irqpend, cutOff>> /\ irqpend
        /\ pc["irq"] = "s_return"
        /\ pc' = [pc EXCEPT !["irq"] = "i_recv"]
        /\ arg' = [arg EXCEPT !["irq"] = NoPkt]
    BY <1>3 DEF can_intr_printed, Goto, chip, AttendInv, HandlerInv
  <2> QED
    BY <1>1, <2>1 DEF AttendInv, XmitAttended, RecvAttended, HandlerInv
<1>4. CASE try_recv
  <2>1. /\ UNCHANGED <<outq, xmitAvail, irqpend, cutOff, arg>> /\ pc["irq"] = "i_recv" /\ irqpend
        /\ \/ pc' = pc
           \/ pc' = [pc EXCEPT !["irq"] = "x_take"] /\ rxbuf = <<>> /\ rxbuf' = rxbuf
    BY <1>4 DEF try_recv, Goto, AfterRecv, AttendInv, HandlerInv
  <2> QED
    BY <1>1, <2>1 DEF AttendInv, XmitAttended, RecvAttended, HandlerInv
<1>5. CASE can_intr_clear
  <2>1. /\ UNCHANGED <<outq, xmitAvail, rxbuf, cutOff, arg>> /\ pc["irq"] = "i_clear"
        /\ pc' = [pc EXCEPT !["irq"] = "idle"]
    BY <1>5 DEF can_intr_clear, Goto
  <2>2. cutOff \/ (rxbuf = <<>> /\ (outq = <<>> \/ ~xmitAvail))
    BY <2>1 DEF AttendInv, HandlerInv
  <2> QED
    BY <1>1, <2>1, <2>2 DEF AttendInv, XmitAttended, RecvAttended, HandlerInv
<1> QED
  BY <1>1, <1>2, <1>3, <1>4, <1>5, SendAttends DEF IrqStep

(* A step of the bottom half or of a task that neither sends nor resets    *)
(* the chip, and which did not transmit before.                            *)
LEMMA ElseAttends ==
    ASSUME DataInv, AttendInv, NEW l \in {"task", "bh"}, ~Transmits(l),
           UNCHANGED <<outq, xmitAvail, rxbuf, irqpend, cutOff>>,
           \A m \in Levels \ {l} : pc'[m] = pc[m] /\ arg'[m] = arg[m]
    PROVE  AttendInv'
<1>1. l \in Levels /\ "irq" \in Levels \ {l}
  BY DEF Levels
<1>2. (\E m \in Levels : Transmits(m)) => \E m \in Levels : Transmits(m)'
  BY <1>1, OthersTransmit
<1>3. pc'["irq"] = pc["irq"] /\ arg'["irq"] = arg["irq"]
  BY <1>1
<1> QED
  BY <1>2, <1>3 DEF AttendInv, XmitAttended, RecvAttended, HandlerInv

(* The bottom half. *)
LEMMA BhAttends ==
    ASSUME DataInv, AttendInv, can_bh \/ canobj_send_heartbeat \/ BhStep
    PROVE  AttendInv'
<1>1. CASE can_bh \/ canobj_send_heartbeat \/ can_bh_get \/ deliver_pkt \/ bh_send_returns
  <2>1. /\ UNCHANGED <<outq, xmitAvail, rxbuf, irqpend, cutOff>>
        /\ pc["bh"] \in {"idle", "b_get", "b_deliver", "s_return"}
        /\ \E where \in Places : pc' = [pc EXCEPT !["bh"] = where]
        /\ \E p \in Pkts \cup {NoPkt} : arg' = arg \/ arg' = [arg EXCEPT !["bh"] = p]
    <3>1. UNCHANGED <<outq, chip>> /\ pc["bh"] \in {"idle", "b_get", "b_deliver", "s_return"}
      BY <1>1 DEF can_bh, canobj_send_heartbeat, can_bh_get, deliver_pkt, bh_send_returns
    <3>2. \E where \in Places : pc' = [pc EXCEPT !["bh"] = where]
      BY <1>1 DEF can_bh, canobj_send_heartbeat, can_bh_get, deliver_pkt, bh_send_returns,
                  Begins, Goto, Places
    <3>3. \E p \in Pkts \cup {NoPkt} : arg' = arg \/ arg' = [arg EXCEPT !["bh"] = p]
      <4>1. CASE can_bh_get /\ inq # <<>>
        <5>1. Head(inq) \in Pkts
          BY <4>1 DEF DataInv, DataType, TypeOK
        <5> QED
          BY <4>1, <5>1 DEF can_bh_get, Begins, Pkts
      <4>2. CASE ~can_bh_get \/ inq = <<>>
        BY <1>1, <4>2 DEF can_bh, canobj_send_heartbeat, can_bh_get, deliver_pkt, bh_send_returns,
                    Begins, Pkts
      <4> QED
        BY <4>1, <4>2
    <3> QED
      BY <3>1, <3>2, <3>3 DEF chip
  <2>2. ~Transmits("bh")
    BY <2>1 DEF Transmits
  <2>3. \A m \in Levels \ {"bh"} : pc'[m] = pc[m] /\ arg'[m] = arg[m]
    BY <2>1 DEF DataInv, DataType
  <2> QED
    BY <2>1, <2>2, <2>3, ElseAttends
<1>2. "bh" \in Levels
  BY DEF Levels
<1> QED
  BY <1>1, <1>2, SendAttends DEF BhStep

(* Tasks: a reset of the chip takes an interrupt away, which is            *)
(* remembered until the next one.                                          *)
LEMMA TaskAttends ==
    ASSUME DataInv, AttendInv, NEW t \in Tasks, KernelStep(t) \/ UserStep(t)
    PROVE  AttendInv'
<1>1. CASE can_init_82c200(t)
  <2>1. /\ rxbuf' = <<>> /\ cutOff' = TRUE /\ UNCHANGED <<outq, pc, arg>> /\ pc["irq"] = "idle"
    BY <1>1 DEF can_init_82c200, TaskMayRun, Runs, level
  <2> QED
    BY <2>1 DEF AttendInv, XmitAttended, RecvAttended, HandlerInv
<1>2. CASE \/ can_init_82c200_end(t) \/ sleep_on(t) \/ ring_to_user(t) \/ can_write_zero(t)
           \/ user_to_outq_efault(t) \/ (\E n \in Counts : can_write(t, n))
           \/ can_read(t) \/ signal(t)
  <2>1. UNCHANGED <<outq, xmitAvail, rxbuf, irqpend, cutOff, pc, arg>>
    BY <1>2 DEF can_init_82c200_end, sleep_on, ring_to_user, can_write_zero, user_to_outq_efault,
                can_write, can_read, signal, chip, level
  <2> QED
    BY <2>1 DEF AttendInv, XmitAttended, RecvAttended, HandlerInv, Transmits
<1>3. CASE write_send_returns(t) \/ \E p \in WritePkts : user_to_outq(t, p)
  <2>1. /\ UNCHANGED <<outq, xmitAvail, rxbuf, irqpend, cutOff>>
        /\ pc["task"] \in {"idle", "s_return"}
        /\ \E where \in {"idle", "s_put"} : pc' = [pc EXCEPT !["task"] = where]
        /\ \E p \in WritePkts \cup {NoPkt} : arg' = [arg EXCEPT !["task"] = p]
    BY <1>3 DEF write_send_returns, user_to_outq, TaskMayRun, Begins, Goto, chip
  <2>2. ~Transmits("task")
    BY <2>1 DEF Transmits
  <2>3. \A m \in Levels \ {"task"} : pc'[m] = pc[m] /\ arg'[m] = arg[m]
    BY <2>1 DEF DataInv, DataType
  <2> QED
    BY <2>1, <2>2, <2>3, ElseAttends
<1>4. "task" \in Levels
  BY DEF Levels
<1> QED
  BY <1>1, <1>2, <1>3, <1>4, SendAttends DEF KernelStep, UserStep

(* An idle transmitter with packets in outq, and a receive buffer with a   *)
(* frame in it, are somebody's to go on with: try_xmit of whoever put the  *)
(* packet, or the handler of an interrupt that is still pending (can_intr  *)
(* clears it only behind both, can_main.c:147-175, 523-580).  The only     *)
(* way out is known to have been taken: since the last interrupt the chip  *)
(* was reset, or it finished a frame while can_intr ran.  Whatever the     *)
(* chip does, and when, with any number of tasks and rings of any size.    *)
(* What is behind XmitProgress and RecvProgress.                           *)
THEOREM ChipAttendedTo == Spec => [](XmitAttended /\ RecvAttended)
<1>1. Init => AttendInv
  BY DEF Init, AttendInv, XmitAttended, RecvAttended, HandlerInv, Levels
<1>2. DataInv /\ AttendInv /\ [Next]_vars => AttendInv'
  <2> SUFFICES ASSUME DataInv, AttendInv, [Next]_vars PROVE AttendInv'
    OBVIOUS
  <2>1. CASE UNCHANGED vars
    BY <2>1 DEF AttendInv, XmitAttended, RecvAttended, HandlerInv, Transmits, vars, chip, level
  <2>2. CASE Next
    BY <2>2, ChipAttended, IrqAttends, BhAttends, TaskAttends DEF Next
  <2> QED
    BY <2>1, <2>2
<1>3. AttendInv => XmitAttended /\ RecvAttended
  BY DEF AttendInv
<1> QED
  BY <1>1, <1>2, <1>3, DataInit, DataStep, PTL DEF Spec
=============================================================================
