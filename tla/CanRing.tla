------------------------------ MODULE CanRing ------------------------------
(***************************************************************************)
(* The ring buffer of the CAN driver, at the granularity at which contexts *)
(* of the kernel really interleave: the RING_* macros of can.h and the     *)
(* functions built on them, pkt_to_ring and ring_to_pkt of can_main.c and  *)
(* char_to_ring and ring_to_char of can_console.c (the same code over a    *)
(* ring of characters).  Their spinlocks are compiled out (#if 0), so a    *)
(* call is three separate memory accesses: test, copy, bump the index.     *)
(*                                                                         *)
(* The contexts are system calls, bottom halves, timers and interrupt      *)
(* handlers.  Which of them may run while another is in the middle of a    *)
(* call is the constant Excludes: on one processor an interrupt runs on    *)
(* top of a system call, which is then stopped until the interrupt is      *)
(* done; with Excludes empty all contexts interleave freely, as on two     *)
(* processors.                                                             *)
(***************************************************************************)
EXTENDS Integers, Sequences

CONSTANTS
    MAXRING,    \* number of slots
    Pkt,        \* what is queued
    NoPkt,      \* the result field of a call that delivers nothing
    Producers,  \* contexts that put
    Consumers,  \* contexts that get
    Excludes    \* <<d, c>>: c takes no step while d is in the middle of a call

Ctx == Producers \cup Consumers

ASSUME MAXRINGAssumption == MAXRING \in Nat /\ MAXRING >= 2
ASSUME ExcludesAssumption == Excludes \subseteq Ctx \X Ctx
ASSUME NoPktAssumption == NoPkt \notin Pkt

VARIABLES
    head, tail, \* the indices of the ring
    buf,        \* its slots
    pc,         \* pc[c]: where context c is in pkt_to_ring or ring_to_pkt
    idx,        \* idx[c]: the index (head or tail) c read in its test
    val,        \* val[c]: the element c is putting, or has copied out
    ret         \* ret[c]: what the last completed call of c returned

vars == <<head, tail, buf, pc, idx, val, ret>>

Slots == 0 .. MAXRING - 1
PutPc == {"put_store", "put_bump"}
GetPc == {"get_load", "get_bump"}

-----------------------------------------------------------------------------
(* The macros of can.h. *)

RING_NEXT_NoWrap(n) == n + 1          \* mutant: the modulo is forgotten
RING_NEXT(n) == (n + 1) % MAXRING
RING_FULL_Dropped(h, t) == FALSE      \* mutant: the test is forgotten
RING_FULL(h, t) == RING_NEXT(h) = t
RING_EMPTY(h, t) == h = t
RING_ROOM(h, t) == IF t - h <= 0 THEN MAXRING - h + t - 1 ELSE t - h - 1
RING_SIZE(h, t) == IF h - t >= 0 THEN h - t ELSE MAXRING - t + h

-----------------------------------------------------------------------------
Init ==
    /\ head = 0 /\ tail = 0
    /\ buf \in [Slots -> Pkt]
    /\ pc = [c \in Ctx |-> "idle"]
    /\ idx = [c \in Ctx |-> 0]
    /\ val = [c \in Ctx |-> NoPkt]
    /\ ret = [c \in Ctx |-> [retval |-> 0, pkt |-> NoPkt]]

CanRun(c) == \A d \in Ctx \ {c} : pc[d] # "idle" => <<d, c>> \notin Excludes

(* A call ends: its return value, and registers that are dead from now on. *)
Return(c, retval, pkt) ==
    /\ ret' = [ret EXCEPT ![c] = [retval |-> retval, pkt |-> pkt]]
    /\ pc' = [pc EXCEPT ![c] = "idle"]
    /\ idx' = [idx EXCEPT ![c] = 0]
    /\ val' = [val EXCEPT ![c] = NoPkt]

(* pkt_to_ring: if (RING_FULL) retval = 0; *)
PutFull(p) ==
    /\ CanRun(p) /\ pc[p] = "idle"
    /\ RING_FULL(head, tail)
    /\ Return(p, 0, NoPkt)
    /\ UNCHANGED <<head, tail, buf>>

(* Mutant: the slot is claimed before it is filled. *)
PutTest_BumpFirst(p, x) ==
    /\ CanRun(p) /\ pc[p] = "idle"
    /\ ~RING_FULL(head, tail)
    /\ head' = RING_NEXT(head)
    /\ pc' = [pc EXCEPT ![p] = "put_store"]
    /\ idx' = [idx EXCEPT ![p] = head]
    /\ val' = [val EXCEPT ![p] = x]
    /\ UNCHANGED <<tail, buf, ret>>

PutTest(p, x) ==
    /\ CanRun(p) /\ pc[p] = "idle"
    /\ ~RING_FULL(head, tail)
    /\ pc' = [pc EXCEPT ![p] = "put_store"]
    /\ idx' = [idx EXCEPT ![p] = head]
    /\ val' = [val EXCEPT ![p] = x]
    /\ UNCHANGED <<head, tail, buf, ret>>

(* RING_IN: RING_HEAD(rb) = x.  head is not volatile: the compiler may use *)
(* the value it loaded for the test or load it again.                      *)
PutStore(p) ==
    /\ CanRun(p) /\ pc[p] = "put_store"
    /\ \E h \in {idx[p], head} : buf' = [buf EXCEPT ![h] = val[p]]
    /\ pc' = [pc EXCEPT ![p] = "put_bump"]
    /\ UNCHANGED <<head, tail, idx, val, ret>>

(* RING_IN: RING_HEADPP(rb), and the call returns 1. *)
PutBump(p) ==
    /\ CanRun(p) /\ pc[p] = "put_bump"
    /\ \E h \in {idx[p], head} : head' = RING_NEXT(h)
    /\ Return(p, 1, NoPkt)
    /\ UNCHANGED <<tail, buf>>

(* ring_to_pkt: if (RING_EMPTY) retval = 0; *)
GetEmpty(c) ==
    /\ CanRun(c) /\ pc[c] = "idle"
    /\ RING_EMPTY(head, tail)
    /\ Return(c, 0, NoPkt)
    /\ UNCHANGED <<head, tail, buf>>

GetTest(c) ==
    /\ CanRun(c) /\ pc[c] = "idle"
    /\ ~RING_EMPTY(head, tail)
    /\ pc' = [pc EXCEPT ![c] = "get_load"]
    /\ idx' = [idx EXCEPT ![c] = tail]
    /\ UNCHANGED <<head, tail, buf, val, ret>>

(* RING_OUT: x = RING_TAIL(rb) *)
GetLoad(c) ==
    /\ CanRun(c) /\ pc[c] = "get_load"
    /\ \E t \in {idx[c], tail} : val' = [val EXCEPT ![c] = buf[t]]
    /\ pc' = [pc EXCEPT ![c] = "get_bump"]
    /\ UNCHANGED <<head, tail, buf, idx, ret>>

(* RING_OUT: RING_TAILPP(rb), and the call returns 1 with the element. *)
GetBump(c) ==
    /\ CanRun(c) /\ pc[c] = "get_bump"
    /\ \E t \in {idx[c], tail} : tail' = RING_NEXT(t)
    /\ Return(c, 1, val[c])
    /\ UNCHANGED <<head, buf>>

Next ==
    \/ \E p \in Producers :
        \/ PutFull(p)
        \/ \E x \in Pkt : PutTest(p, x)
        \/ PutStore(p)
        \/ PutBump(p)
    \/ \E c \in Consumers :
        \/ GetEmpty(c)
        \/ GetTest(c)
        \/ GetLoad(c)
        \/ GetBump(c)

Spec == Init /\ [][Next]_vars

-----------------------------------------------------------------------------
(* Type correctness: both indices stay inside the ring, and what a context *)
(* holds is a packet exactly while it is between the test and the return.  *)
TypeOK ==
    /\ head \in Slots /\ tail \in Slots
    /\ buf \in [Slots -> Pkt]
    /\ pc \in [Ctx -> {"idle"} \cup PutPc \cup GetPc]
    /\ idx \in [Ctx -> Slots]
    /\ val \in [Ctx -> Pkt \cup {NoPkt}]
    /\ ret \in [Ctx -> [retval : {0, 1}, pkt : Pkt \cup {NoPkt}]]

(* The queue a ring stands for: RING_SIZE slots from tail on, wrapping. *)
Slot(i) == (tail + i - 1) % MAXRING
Queue == [i \in 1 .. RING_SIZE(head, tail) |-> buf[Slot(i)]]

Fifo == INSTANCE CanFifo WITH q <- Queue, Cap <- MAXRING - 1

(* The ring implements the bounded queue: a put that returns 1 appends its *)
(* packet, a get that returns 1 delivers the oldest one, 0 is returned     *)
(* only by a full, resp. empty, queue, and no call of another context      *)
(* loses, repeats, reorders or damages a packet (pkt_to_ring, ring_to_pkt).*)
FifoSpec == Fifo!Spec

(* What the comment in can_main.c relies on: of the contexts that put, and *)
(* of those that get, one at a time is inside a call.                      *)
Serialised ==
    /\ \A a, b \in Producers : a # b => <<a, b>> \in Excludes
    /\ \A a, b \in Consumers : a # b => <<a, b>> \in Excludes

(* A producer between its test and its bump owns the slot at head: head    *)
(* has not moved since the test, the ring is still not full, and what it   *)
(* stored is what head will expose.                                        *)
ProducerOwnsHead ==
    \A p \in Producers : pc[p] \in PutPc =>
        /\ idx[p] = head
        /\ ~RING_FULL(head, tail)
        /\ val[p] \in Pkt
        /\ pc[p] = "put_bump" => buf[head] = val[p]

(* A consumer between its test and its bump owns the slot at tail: the     *)
(* producer does not reuse it before tail moves past it.                   *)
ConsumerOwnsTail ==
    \A c \in Consumers : pc[c] \in GetPc =>
        /\ idx[c] = tail
        /\ ~RING_EMPTY(head, tail)
        /\ pc[c] = "get_bump" => val[c] = buf[tail]

OneProducer == \A a, b \in Producers : pc[a] \in PutPc /\ pc[b] \in PutPc => a = b
OneConsumer == \A a, b \in Consumers : pc[a] \in GetPc /\ pc[b] \in GetPc => a = b

(* Only producers are inside pkt_to_ring, only consumers inside ring_to_pkt. *)
Roles ==
    \A c \in Ctx :
        /\ (pc[c] \in PutPc => c \in Producers)
        /\ (pc[c] \in GetPc => c \in Consumers)

(* The inductive invariant of a ring whose producers are serialised and    *)
(* whose consumers are.                                                    *)
RingInv ==
    /\ TypeOK /\ Roles
    /\ OneProducer /\ OneConsumer
    /\ ProducerOwnsHead /\ ConsumerOwnsTail

=============================================================================
