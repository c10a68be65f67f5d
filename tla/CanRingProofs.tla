--------------------------- MODULE CanRingProofs ---------------------------
(***************************************************************************)
(* What is proved of the CAN driver's ring buffer for every ring size,     *)
(* every set of packets and every set of contexts.                         *)
(***************************************************************************)
EXTENDS CanRing, SequenceTheorems, TLAPS

(* RING_NEXT without the modulo: add one, wrap to 0 at the end of the ring. *)
LEMMA RingNextValue ==
    \A n \in Slots : RING_NEXT(n) = IF n = MAXRING - 1 THEN 0 ELSE n + 1
  <1> SUFFICES ASSUME NEW n \in Slots
      PROVE  RING_NEXT(n) = IF n = MAXRING - 1 THEN 0 ELSE n + 1
    OBVIOUS
  <1>1. CASE n = MAXRING - 1
    BY <1>1, MAXRINGAssumption DEF RING_NEXT, Slots
  <1>2. CASE n # MAXRING - 1
    BY <1>2, MAXRINGAssumption DEF RING_NEXT, Slots
  <1> QED
    BY <1>1, <1>2

(* An index that moves stays inside the ring ... *)
LEMMA RingNextType == \A n \in Slots : RING_NEXT(n) \in Slots
  BY RingNextValue, MAXRINGAssumption DEF Slots

(* ... in which it starts. *)
LEMMA ZeroIsSlot == 0 \in Slots
  BY MAXRINGAssumption DEF Slots

(* The macros agree with each other on every pair of indices: RING_ROOM    *)
(* is what RING_SIZE leaves of the MAXRING - 1 usable slots, RING_FULL     *)
(* and RING_EMPTY are the two ends of RING_SIZE.                           *)
THEOREM MacrosAgree ==
    \A h, t \in Slots :
        /\ RING_SIZE(h, t) \in 0 .. MAXRING - 1
        /\ RING_SIZE(h, t) + RING_ROOM(h, t) = MAXRING - 1
        /\ RING_FULL(h, t) <=> RING_SIZE(h, t) = MAXRING - 1
        /\ RING_EMPTY(h, t) <=> RING_SIZE(h, t) = 0
  BY RingNextValue, MAXRINGAssumption
     DEF Slots, RING_SIZE, RING_ROOM, RING_FULL, RING_EMPTY

-----------------------------------------------------------------------------
(* A context that is about to store holds a packet. *)
HoldsPacket == \A c \in Ctx : pc[c] = "put_store" => val[c] \in Pkt

(* Every step of every context preserves the types, race or no race. *)
LEMMA TypeStep ==
    ASSUME TypeOK, HoldsPacket, [Next]_vars
    PROVE  (TypeOK /\ HoldsPacket)'
  <1> USE DEF TypeOK, HoldsPacket, PutPc, GetPc, Ctx
  <1>1. ASSUME NEW p \in Producers, PutFull(p)
        PROVE  (TypeOK /\ HoldsPacket)'
    BY <1>1, ZeroIsSlot DEF PutFull, Return
  <1>2. ASSUME NEW p \in Producers, NEW x \in Pkt, PutTest(p, x)
        PROVE  (TypeOK /\ HoldsPacket)'
    BY <1>2 DEF PutTest
  <1>3. ASSUME NEW p \in Producers, PutStore(p)
        PROVE  (TypeOK /\ HoldsPacket)'
    BY <1>3 DEF PutStore
  <1>4. ASSUME NEW p \in Producers, PutBump(p)
        PROVE  (TypeOK /\ HoldsPacket)'
    BY <1>4, ZeroIsSlot, RingNextType DEF PutBump, Return
  <1>5. ASSUME NEW c \in Consumers, GetEmpty(c)
        PROVE  (TypeOK /\ HoldsPacket)'
    BY <1>5, ZeroIsSlot DEF GetEmpty, Return
  <1>6. ASSUME NEW c \in Consumers, GetTest(c)
        PROVE  (TypeOK /\ HoldsPacket)'
    BY <1>6 DEF GetTest
  <1>7. ASSUME NEW c \in Consumers, GetLoad(c)
        PROVE  (TypeOK /\ HoldsPacket)'
    BY <1>7 DEF GetLoad
  <1>8. ASSUME NEW c \in Consumers, GetBump(c)
        PROVE  (TypeOK /\ HoldsPacket)'
    BY <1>8, ZeroIsSlot, RingNextType DEF GetBump, Return
  <1>9. CASE UNCHANGED vars
    BY <1>9 DEF vars
  <1> QED
    BY <1>1, <1>2, <1>3, <1>4, <1>5, <1>6, <1>7, <1>8, <1>9 DEF Next

(* Whatever contexts race with each other, locks or no locks, the indices  *)
(* stay inside the ring and nothing but packets is ever in its slots.      *)
THEOREM TypeCorrect == Spec => []TypeOK
  <1>1. Init => TypeOK /\ HoldsPacket
    BY MAXRINGAssumption DEF Init, TypeOK, HoldsPacket, Slots
  <1>2. TypeOK /\ HoldsPacket /\ [Next]_vars => (TypeOK /\ HoldsPacket)'
    BY TypeStep
  <1> QED
    BY <1>1, <1>2, PTL DEF Spec

-----------------------------------------------------------------------------
(* The two ends of the ring belong to the context that is inside a call:   *)
(* with serialised producers and serialised consumers RingInv is           *)
(* inductive, although a producer and a consumer interleave freely.        *)
LEMMA RingInvStep ==
    ASSUME Serialised, RingInv, [Next]_vars
    PROVE  RingInv'
  <1> DEFINE Own == ProducerOwnsHead /\ ConsumerOwnsTail
  <1> DEFINE One == OneProducer /\ OneConsumer
  <1>0. TypeOK /\ Roles /\ One /\ Own
    BY DEF RingInv
  <1>t. TypeOK /\ HoldsPacket
    <2>1. \A c \in Ctx : pc[c] = "put_store" => c \in Producers
      BY <1>0 DEF PutPc, Roles
    <2> QED
      BY <1>0, <2>1 DEF ProducerOwnsHead, HoldsPacket, PutPc
  <1>r. \A p \in Producers : CanRun(p) =>
          \A a \in Producers : pc[a] \in PutPc => a = p
    BY DEF Serialised, CanRun, Ctx, PutPc
  <1>s. \A c \in Consumers : CanRun(c) =>
          \A a \in Consumers : pc[a] \in GetPc => a = c
    BY DEF Serialised, CanRun, Ctx, GetPc
  <1> USE DEF PutPc, GetPc, Ctx, Roles
  <1>1. ASSUME NEW p \in Producers, PutFull(p)
        PROVE  (Roles /\ One /\ Own)'
    BY <1>1, <1>0, <1>r DEF PutFull, Return, TypeOK, OneProducer, OneConsumer,
                            ProducerOwnsHead, ConsumerOwnsTail
  <1>2. ASSUME NEW p \in Producers, NEW x \in Pkt, PutTest(p, x)
        PROVE  (Roles /\ One /\ Own)'
    BY <1>2, <1>0, <1>r DEF PutTest, TypeOK, OneProducer, OneConsumer,
                            ProducerOwnsHead, ConsumerOwnsTail
  <1>3. ASSUME NEW p \in Producers, PutStore(p)
        PROVE  (Roles /\ One /\ Own)'
    <2>1. buf' = [buf EXCEPT ![head] = val[p]] /\ head \in Slots
      BY <1>3, <1>0 DEF PutStore, ProducerOwnsHead, TypeOK
    <2>2. (Roles /\ One)'
      BY <1>3, <1>0, <1>r DEF PutStore, TypeOK, OneProducer, OneConsumer
    <2>3. ProducerOwnsHead'
      BY <1>3, <1>0, <1>r, <2>1 DEF PutStore, TypeOK, ProducerOwnsHead
    <2>4. ConsumerOwnsTail'
      BY <1>3, <1>0, <2>1 DEF PutStore, TypeOK, ConsumerOwnsTail, RING_EMPTY
    <2> QED
      BY <2>2, <2>3, <2>4
  <1>4. ASSUME NEW p \in Producers, PutBump(p)
        PROVE  (Roles /\ One /\ Own)'
    <2>1. head' = RING_NEXT(head) /\ ~RING_FULL(head, tail)
      BY <1>4, <1>0 DEF PutBump, ProducerOwnsHead
    <2>2. (Roles /\ One)'
      BY <1>4, <1>0, <1>r DEF PutBump, Return, TypeOK, OneProducer, OneConsumer
    <2>3. ProducerOwnsHead'
      BY <1>4, <1>0, <1>r DEF PutBump, Return, TypeOK, ProducerOwnsHead
    <2>4. ConsumerOwnsTail'
      BY <1>4, <1>0, <2>1 DEF PutBump, Return, TypeOK, ConsumerOwnsTail,
                              RING_EMPTY, RING_FULL
    <2> QED
      BY <2>2, <2>3, <2>4
  <1>5. ASSUME NEW c \in Consumers, GetEmpty(c)
        PROVE  (Roles /\ One /\ Own)'
    BY <1>5, <1>0, <1>s DEF GetEmpty, Return, TypeOK, OneProducer, OneConsumer,
                            ProducerOwnsHead, ConsumerOwnsTail
  <1>6. ASSUME NEW c \in Consumers, GetTest(c)
        PROVE  (Roles /\ One /\ Own)'
    BY <1>6, <1>0, <1>s DEF GetTest, TypeOK, OneProducer, OneConsumer,
                            ProducerOwnsHead, ConsumerOwnsTail
  <1>7. ASSUME NEW c \in Consumers, GetLoad(c)
        PROVE  (Roles /\ One /\ Own)'
    BY <1>7, <1>0, <1>s DEF GetLoad, TypeOK, OneProducer, OneConsumer,
                            ProducerOwnsHead, ConsumerOwnsTail
  <1>8. ASSUME NEW c \in Consumers, GetBump(c)
        PROVE  (Roles /\ One /\ Own)'
    <2>1. tail' = RING_NEXT(tail) /\ ~RING_EMPTY(head, tail)
      BY <1>8, <1>0 DEF GetBump, ConsumerOwnsTail
    <2>2. (Roles /\ One)'
      BY <1>8, <1>0, <1>s DEF GetBump, Return, TypeOK, OneProducer, OneConsumer
    <2>3. ~RING_FULL(head, tail')
      BY <2>1, <1>0, RingNextValue, MAXRINGAssumption
         DEF TypeOK, RING_FULL, RING_EMPTY, Slots
    <2>4. ProducerOwnsHead'
      BY <1>8, <1>0, <2>3 DEF GetBump, Return, TypeOK, ProducerOwnsHead
    <2>5. ConsumerOwnsTail'
      BY <1>8, <1>0, <1>s DEF GetBump, Return, TypeOK, ConsumerOwnsTail
    <2> QED
      BY <2>2, <2>4, <2>5
  <1>9. ASSUME UNCHANGED vars
        PROVE  (Roles /\ One /\ Own)'
    BY <1>9, <1>0 DEF vars, OneProducer, OneConsumer, ProducerOwnsHead,
                      ConsumerOwnsTail, RING_FULL, RING_EMPTY
  <1>10. (Roles /\ One /\ Own)'
    BY <1>1, <1>2, <1>3, <1>4, <1>5, <1>6, <1>7, <1>8, <1>9 DEF Next
  <1>11. TypeOK'
    BY <1>t, TypeStep
  <1> QED
    BY <1>10, <1>11 DEF RingInv

(* With serialised producers and serialised consumers the inductive        *)
(* invariant holds: a context between its test and its bump owns its end   *)
(* of the ring, whatever the other side does meanwhile.                    *)
THEOREM RingInvariant ==
    ASSUME Serialised
    PROVE  Spec => []RingInv
  <1>1. Init => RingInv
    <2> SUFFICES ASSUME Init PROVE RingInv
      OBVIOUS
    <2>1. TypeOK
      BY ZeroIsSlot DEF Init, TypeOK
    <2>2. \A c \in Ctx : pc[c] \notin PutPc /\ pc[c] \notin GetPc
      BY DEF Init, PutPc, GetPc
    <2> QED
      BY <2>1, <2>2 DEF RingInv, Roles, OneProducer, OneConsumer,
                        ProducerOwnsHead, ConsumerOwnsTail, Ctx
  <1>2. RingInv /\ [Next]_vars => RingInv'
    BY RingInvStep
  <1> QED
    BY <1>1, <1>2, PTL DEF Spec

-----------------------------------------------------------------------------
(* The queue that indices h and t select in the slots b. *)
QueueOf(h, t, b) == [i \in 1 .. RING_SIZE(h, t) |-> b[(t + i - 1) % MAXRING]]

(* Where the i-th element is, without the modulo. *)
LEMMA SlotValue ==
    ASSUME NEW t \in Slots, NEW i \in 1 .. MAXRING
    PROVE  /\ (t + i - 1) % MAXRING =
                IF t + i - 1 < MAXRING THEN t + i - 1 ELSE t + i - 1 - MAXRING
           /\ (t + i - 1) % MAXRING \in Slots
  <1>1. CASE t + i - 1 < MAXRING
    BY <1>1, MAXRINGAssumption DEF Slots
  <1>2. CASE t + i - 1 >= MAXRING
    <2>1. PICK r \in 0 .. MAXRING - 1 : t + i - 1 = r + MAXRING
      <3>1. t + i - 1 - MAXRING \in 0 .. MAXRING - 1
        BY <1>2, MAXRINGAssumption DEF Slots
      <3>2. t + i - 1 = (t + i - 1 - MAXRING) + MAXRING
        BY MAXRINGAssumption DEF Slots
      <3> QED
        BY <3>1, <3>2
    <2>2. (r + MAXRING) % MAXRING = r
      BY <2>1, MAXRINGAssumption
    <2>3. (t + i - 1) % MAXRING = r
      BY <2>1, <2>2
    <2> QED
      BY <1>2, <2>1, <2>3, MAXRINGAssumption DEF Slots
  <1> QED
    BY <1>1, <1>2, MAXRINGAssumption DEF Slots

(* The queue of a ring is a sequence of packets of length RING_SIZE. *)
LEMMA QueueIsSeq ==
    ASSUME NEW h \in Slots, NEW t \in Slots, NEW b \in [Slots -> Pkt]
    PROVE  /\ QueueOf(h, t, b) \in Seq(Pkt)
           /\ Len(QueueOf(h, t, b)) = RING_SIZE(h, t)
           /\ RING_SIZE(h, t) \in 0 .. MAXRING - 1
  <1>1. RING_SIZE(h, t) \in 0 .. MAXRING - 1
    BY MacrosAgree
  <1>2. \A i \in 1 .. RING_SIZE(h, t) : b[(t + i - 1) % MAXRING] \in Pkt
    <2> TAKE i \in 1 .. RING_SIZE(h, t)
    <2>1. i \in 1 .. MAXRING
      BY <1>1, MAXRINGAssumption
    <2> QED
      BY <2>1, SlotValue
  <1>3. QueueOf(h, t, b) \in [1 .. RING_SIZE(h, t) -> Pkt]
    BY <1>2 DEF QueueOf
  <1> HIDE DEF QueueOf
  <1> QED
    BY <1>1, <1>3, MAXRINGAssumption

(* Storing at head, which no queued element occupies, changes nothing. *)
LEMMA QueueStore ==
    ASSUME NEW h \in Slots, NEW t \in Slots, NEW b \in [Slots -> Pkt],
           NEW x \in Pkt
    PROVE  QueueOf(h, t, [b EXCEPT ![h] = x]) = QueueOf(h, t, b)
  <1>1. ASSUME NEW i \in 1 .. RING_SIZE(h, t)
        PROVE  (t + i - 1) % MAXRING # h
    <2>1. i \in 1 .. MAXRING
      BY MacrosAgree, MAXRINGAssumption
    <2> QED
      BY <2>1, SlotValue, MAXRINGAssumption DEF RING_SIZE, Slots
  <1> QED
    BY <1>1 DEF QueueOf

(* Advancing head appends what the slot at head holds. *)
LEMMA QueuePut ==
    ASSUME NEW h \in Slots, NEW t \in Slots, NEW b \in [Slots -> Pkt],
           ~RING_FULL(h, t)
    PROVE  QueueOf(RING_NEXT(h), t, b) = Append(QueueOf(h, t, b), b[h])
  <1> DEFINE q0 == QueueOf(h, t, b)
             q1 == QueueOf(RING_NEXT(h), t, b)
             n  == RING_SIZE(h, t)
  <1>1. RING_SIZE(RING_NEXT(h), t) = n + 1 /\ n \in Nat /\ n + 1 \in 1 .. MAXRING
    BY RingNextValue, MAXRINGAssumption DEF RING_SIZE, RING_FULL, Slots
  <1>2. (t + (n + 1) - 1) % MAXRING = h
    BY <1>1, SlotValue, MAXRINGAssumption DEF RING_SIZE, Slots
  <1>3. q0 \in Seq(Pkt) /\ Len(q0) = n
    BY QueueIsSeq
  <1>4. q1 \in Seq(Pkt) /\ Len(q1) = n + 1
    BY <1>1, RingNextType, QueueIsSeq
  <1>5. Append(q0, b[h]) \in Seq(Pkt) /\ Len(Append(q0, b[h])) = n + 1
    BY <1>3, AppendProperties
  <1>6. ASSUME NEW i \in 1 .. n + 1
        PROVE  q1[i] = Append(q0, b[h])[i]
    <2>1. q1[i] = b[(t + i - 1) % MAXRING]
      BY <1>1 DEF QueueOf
    <2>2. CASE i = n + 1
      BY <2>1, <2>2, <1>2, <1>3, AppendProperties
    <2>3. CASE i # n + 1
      <3>1. i \in 1 .. n
        BY <2>3, <1>1
      <3>2. Append(q0, b[h])[i] = q0[i]
        BY <3>1, <1>3, AppendProperties
      <3>3. q0[i] = b[(t + i - 1) % MAXRING]
        BY <3>1 DEF QueueOf
      <3> QED
        BY <2>1, <3>2, <3>3
    <2> QED
      BY <2>2, <2>3
  <1>7. q1 = Append(q0, b[h])
    <2> HIDE DEF q0, q1, n
    <2> QED
      BY <1>4, <1>5, <1>6, SeqEqual
  <1> QED
    BY <1>7

(* Advancing tail drops the oldest element, which the slot at tail holds. *)
LEMMA QueueGet ==
    ASSUME NEW h \in Slots, NEW t \in Slots, NEW b \in [Slots -> Pkt],
           ~RING_EMPTY(h, t)
    PROVE  /\ QueueOf(h, t, b) # <<>>
           /\ Head(QueueOf(h, t, b)) = b[t]
           /\ QueueOf(h, RING_NEXT(t), b) = Tail(QueueOf(h, t, b))
  <1> DEFINE q0 == QueueOf(h, t, b)
             q1 == QueueOf(h, RING_NEXT(t), b)
             n  == RING_SIZE(h, t)
  <1>1. n \in 1 .. MAXRING - 1 /\ RING_SIZE(h, RING_NEXT(t)) = n - 1
    BY RingNextValue, MAXRINGAssumption DEF RING_SIZE, RING_EMPTY, Slots
  <1>2. q0 \in Seq(Pkt) /\ Len(q0) = n
    BY QueueIsSeq
  <1>3. q1 \in Seq(Pkt) /\ Len(q1) = n - 1
    BY <1>1, RingNextType, QueueIsSeq
  <1>4. q0 # <<>>
    BY <1>1, <1>2, MAXRINGAssumption
  <1>5. q0[1] = b[t]
    <2>1. q0[1] = b[(t + 1 - 1) % MAXRING]
      BY <1>1, MAXRINGAssumption DEF QueueOf
    <2>2. (t + 1 - 1) % MAXRING = t
      BY SlotValue, MAXRINGAssumption DEF Slots
    <2> QED
      BY <2>1, <2>2
  <1>6. Tail(q0) \in Seq(Pkt) /\ Len(Tail(q0)) = n - 1
    BY <1>2, <1>4, HeadTailProperties
  <1>7. ASSUME NEW i \in 1 .. n - 1
        PROVE  q1[i] = Tail(q0)[i]
    <2>1. i \in 1 .. MAXRING /\ i + 1 \in 1 .. MAXRING /\ i + 1 \in 1 .. n
      BY <1>1, MAXRINGAssumption
    <2>2. q1[i] = b[(RING_NEXT(t) + i - 1) % MAXRING]
      BY <1>1 DEF QueueOf
    <2>3. Tail(q0)[i] = q0[i + 1]
      BY <1>2, <1>4, <1>6, HeadTailProperties
    <2>4. q0[i + 1] = b[(t + (i + 1) - 1) % MAXRING]
      BY <2>1 DEF QueueOf
    <2>5. (RING_NEXT(t) + i - 1) % MAXRING = (t + (i + 1) - 1) % MAXRING
      <3>1. CASE t = MAXRING - 1
        <4>1. (RING_NEXT(t) + i - 1) % MAXRING = i - 1
          <5>1. RING_NEXT(t) = 0
            BY <3>1, RingNextValue
          <5>2. (0 + i - 1) % MAXRING = i - 1
            BY <2>1, <1>1, ZeroIsSlot, SlotValue, MAXRINGAssumption
          <5> QED
            BY <5>1, <5>2
        <4>2. (t + (i + 1) - 1) % MAXRING = i - 1
          BY <3>1, <2>1, <1>1, SlotValue, MAXRINGAssumption DEF Slots
        <4> QED
          BY <4>1, <4>2
      <3>2. CASE t # MAXRING - 1
        <4>1. RING_NEXT(t) + i - 1 = t + (i + 1) - 1
          BY <3>2, RingNextValue, MAXRINGAssumption DEF Slots
        <4> QED
          BY <4>1
      <3> QED
        BY <3>1, <3>2
    <2> QED
      BY <2>2, <2>3, <2>4, <2>5
  <1>8. q1 = Tail(q0)
    <2> HIDE DEF q0, q1, n
    <2> QED
      BY <1>3, <1>6, <1>7, SeqEqual
  <1>9. Head(q0) = q0[1]
    BY <1>2, <1>4
  <1> QED
    BY <1>4, <1>5, <1>8, <1>9

-----------------------------------------------------------------------------
(* The ring implements the queue: with producers serialised among          *)
(* themselves and consumers among themselves, pkt_to_ring and ring_to_pkt  *)
(* are a bounded FIFO although the two sides interleave at every memory    *)
(* access and no lock is taken.                                            *)
THEOREM RingImplementsFifo ==
    ASSUME Serialised
    PROVE  Spec => FifoSpec
  <1> USE DEF Fifo!Init, Fifo!Next, Fifo!vars, Fifo!Ctx
  <1>q. Queue = QueueOf(head, tail, buf)
    BY DEF Queue, QueueOf, Slot
  <1>1. Init => Fifo!Init
    <2> SUFFICES ASSUME Init PROVE Fifo!Init
      OBVIOUS
    <2>1. Queue = <<>>
      <3>1. RING_SIZE(head, tail) = 0
        BY DEF Init, RING_SIZE
      <3>2. Queue \in Seq(Pkt) /\ Len(Queue) = 0
        BY <1>q, <3>1, ZeroIsSlot, QueueIsSeq DEF Init
      <3> QED
        BY <3>2
    <2> QED
      BY <2>1 DEF Init, Ctx
  <1>2. RingInv /\ [Next]_vars => [Fifo!Next]_(Fifo!vars)
    <2> SUFFICES ASSUME RingInv, [Next]_vars
        PROVE  Fifo!Next \/ UNCHANGED <<Queue, ret>>
      OBVIOUS
    <2>t. TypeOK
      BY DEF RingInv
    <2>s. /\ Queue \in Seq(Pkt) /\ Len(Queue) = RING_SIZE(head, tail)
          /\ RING_SIZE(head, tail) \in 0 .. MAXRING - 1
      BY <1>q, <2>t, QueueIsSeq DEF TypeOK
    <2>p. Queue' = QueueOf(head', tail', buf')
      BY DEF Queue, QueueOf, Slot, RING_SIZE
    <2>1. ASSUME NEW p \in Producers, PutFull(p)
          PROVE  Fifo!PutFull(p)
      <3>1. Len(Queue) = MAXRING - 1
        BY <2>1, <2>s, <2>t, MacrosAgree DEF PutFull, TypeOK
      <3>2. Queue' = Queue
        BY <2>1, <2>p, <1>q DEF PutFull
      <3> QED
        BY <2>1, <3>1, <3>2 DEF PutFull, Return, Fifo!PutFull
    <2>2. ASSUME NEW p \in Producers, NEW x \in Pkt, PutTest(p, x)
          PROVE  UNCHANGED <<Queue, ret>>
      BY <2>2, <2>p, <1>q DEF PutTest
    <2>3. ASSUME NEW p \in Producers, PutStore(p)
          PROVE  UNCHANGED <<Queue, ret>>
      <3>1. idx[p] = head /\ val[p] \in Pkt
        BY <2>3 DEF PutStore, RingInv, ProducerOwnsHead, PutPc
      <3>2. buf' = [buf EXCEPT ![head] = val[p]]
        BY <2>3, <3>1 DEF PutStore
      <3>3. QueueOf(head, tail, buf') = QueueOf(head, tail, buf)
        BY <3>1, <3>2, <2>t, QueueStore DEF TypeOK
      <3> QED
        BY <2>3, <3>3, <2>p, <1>q DEF PutStore
    <2>4. ASSUME NEW p \in Producers, PutBump(p)
          PROVE  \E x \in Pkt : Fifo!Put(p, x)
      <3>1. /\ idx[p] = head /\ ~RING_FULL(head, tail)
            /\ val[p] \in Pkt /\ buf[head] = val[p]
        BY <2>4 DEF PutBump, RingInv, ProducerOwnsHead, PutPc
      <3>2. head' = RING_NEXT(head) /\ tail' = tail /\ buf' = buf
        BY <2>4, <3>1 DEF PutBump
      <3>3. Queue' = Append(Queue, val[p])
        BY <3>1, <3>2, <2>p, <1>q, <2>t, QueuePut DEF TypeOK
      <3>4. Len(Queue) < MAXRING - 1
        BY <3>1, <2>s, <2>t, MacrosAgree, MAXRINGAssumption DEF TypeOK
      <3> QED
        BY <2>4, <3>1, <3>3, <3>4 DEF PutBump, Return, Fifo!Put
    <2>5. ASSUME NEW c \in Consumers, GetEmpty(c)
          PROVE  Fifo!GetEmpty(c)
      <3>1. Len(Queue) = 0
        BY <2>5, <2>s, <2>t, MacrosAgree DEF GetEmpty, TypeOK
      <3>2. Queue = <<>>
        BY <3>1, <2>s
      <3>3. Queue' = Queue
        BY <2>5, <2>p, <1>q DEF GetEmpty
      <3> QED
        BY <2>5, <3>2, <3>3 DEF GetEmpty, Return, Fifo!GetEmpty
    <2>6. ASSUME NEW c \in Consumers, GetTest(c)
          PROVE  UNCHANGED <<Queue, ret>>
      BY <2>6, <2>p, <1>q DEF GetTest
    <2>7. ASSUME NEW c \in Consumers, GetLoad(c)
          PROVE  UNCHANGED <<Queue, ret>>
      BY <2>7, <2>p, <1>q DEF GetLoad
    <2>8. ASSUME NEW c \in Consumers, GetBump(c)
          PROVE  Fifo!Get(c)
      <3>1. /\ idx[c] = tail /\ ~RING_EMPTY(head, tail) /\ val[c] = buf[tail]
        BY <2>8 DEF GetBump, RingInv, ConsumerOwnsTail, GetPc
      <3>2. tail' = RING_NEXT(tail) /\ head' = head /\ buf' = buf
        BY <2>8, <3>1 DEF GetBump
      <3>3. Queue # <<>> /\ Head(Queue) = val[c] /\ Queue' = Tail(Queue)
        BY <3>1, <3>2, <2>p, <1>q, <2>t, QueueGet DEF TypeOK
      <3> QED
        BY <2>8, <3>3 DEF GetBump, Return, Fifo!Get
    <2>9. CASE UNCHANGED vars
      BY <2>9, <2>p, <1>q DEF vars
    <2> QED
      BY <2>1, <2>2, <2>3, <2>4, <2>5, <2>6, <2>7, <2>8, <2>9 DEF Next
  <1> QED
    BY <1>1, <1>2, RingInvariant, PTL DEF Spec, FifoSpec, Fifo!Spec

=============================================================================
