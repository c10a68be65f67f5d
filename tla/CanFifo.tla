------------------------------ MODULE CanFifo ------------------------------
(***************************************************************************)
(* What the CAN driver's ring buffers promise to the contexts that use     *)
(* them (kernel/include/asm-sparc/meiko/can.h, "Ringbuf data structure"):  *)
(* a bounded first-in first-out queue.  A put returns 1 and appends, or    *)
(* returns 0 because the queue is full; a get returns 1 and the oldest     *)
(* element, or returns 0 because the queue is empty.  Each call is one     *)
(* step here.                                                              *)
(***************************************************************************)
EXTENDS Integers, Sequences

CONSTANTS
    Pkt,        \* what is queued: CAN packets, or characters
    NoPkt,      \* the result field of a call that delivers nothing
    Producers,  \* contexts that call pkt_to_ring / char_to_ring
    Consumers,  \* contexts that call ring_to_pkt / ring_to_char
    Cap         \* the number of elements the queue holds

VARIABLES
    q,          \* the queue, oldest element first
    ret         \* ret[c]: what the last completed call of context c returned

vars == <<q, ret>>

Ctx == Producers \cup Consumers

Result == [retval : {0, 1}, pkt : Pkt \cup {NoPkt}]

Init ==
    /\ q = <<>>
    /\ ret = [c \in Ctx |-> [retval |-> 0, pkt |-> NoPkt]]

Put(p, x) ==
    /\ Len(q) < Cap
    /\ q' = Append(q, x)
    /\ ret' = [ret EXCEPT ![p] = [retval |-> 1, pkt |-> NoPkt]]

PutFull(p) ==
    /\ Len(q) = Cap
    /\ ret' = [ret EXCEPT ![p] = [retval |-> 0, pkt |-> NoPkt]]
    /\ UNCHANGED q

Get(c) ==
    /\ q # <<>>
    /\ q' = Tail(q)
    /\ ret' = [ret EXCEPT ![c] = [retval |-> 1, pkt |-> Head(q)]]

GetEmpty(c) ==
    /\ q = <<>>
    /\ ret' = [ret EXCEPT ![c] = [retval |-> 0, pkt |-> NoPkt]]
    /\ UNCHANGED q

Next ==
    \/ \E p \in Producers : PutFull(p) \/ \E x \in Pkt : Put(p, x)
    \/ \E c \in Consumers : Get(c) \/ GetEmpty(c)

Spec == Init /\ [][Next]_vars

=============================================================================
