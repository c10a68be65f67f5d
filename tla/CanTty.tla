------------------------------- MODULE CanTty -------------------------------
(***************************************************************************)
(* The input side of the CAN console (can_console.c, canobj_dat in         *)
(* can_obj.c): characters of data packets collect in cancon_inbuf and move *)
(* on to the flip buffer of the tty, if the tty is open.  All of it runs   *)
(* in the bottom half; open and close are system calls.                    *)
(***************************************************************************)
EXTENDS Integers, Sequences

CONSTANTS
    InRoom,         \* characters that fit cancon_inbuf
    FlipRoom,       \* TTY_FLIPBUF_SIZE
    MaxOpens        \* bound on cantty_myrefcount

ASSUME TtyAssumption == InRoom \in Nat \ {0} /\ FlipRoom \in Nat \ {0} /\ MaxOpens \in Nat

VARIABLES
    attached,           \* 0 when CANCON_UNCONNECTED(cancon_rmt)
    cancon_inbuf,
    cantty_myrefcount,  \* ttyp is NULL when it is 0
    flip,               \* the flip buffer of ttyp
    received            \* what the tty layer has taken from there

inVars == <<attached, cancon_inbuf, cantty_myrefcount, flip, received>>

TtyInit ==
    /\ attached = 1 /\ cancon_inbuf = <<>> /\ cantty_myrefcount = 0
    /\ flip = <<>> /\ received = <<>>

(* char_to_ring for all of s: what does not fit is dropped. *)
Stored(s) ==
    LET room == InRoom - Len(cancon_inbuf)
    IN  cancon_inbuf \o (IF Len(s) <= room THEN s ELSE SubSeq(s, 1, room))

(* How many characters cantty_recv_push moves from a ring that holds ring. *)
Pushed(ring) ==
    IF cantty_myrefcount = 0 THEN 0
    ELSE LET room == FlipRoom - Len(flip) IN IF Len(ring) < room THEN Len(ring) ELSE room

(* What it leaves there. *)
Left(ring) == SubSeq(ring, Pushed(ring) + 1, Len(ring))

(* cantty_recv_dat(s); canobj_dat has ACKed the packet before. *)
cantty_recv_dat(s) ==
    LET ring == Stored(s)
    IN  /\ flip' = flip \o SubSeq(ring, 1, Pushed(ring))
        /\ cancon_inbuf' = Left(ring)
        /\ UNCHANGED <<attached, cantty_myrefcount, received>>

(* flush_to_ldisc of the tty layer (external), which tty_flip_buffer_push  *)
(* calls for.                                                              *)
flush_to_ldisc ==
    /\ flip # <<>>
    /\ received' = received \o flip
    /\ flip' = <<>>
    /\ UNCHANGED <<attached, cancon_inbuf, cantty_myrefcount>>

cantty_open ==
    /\ cantty_myrefcount < MaxOpens
    /\ cantty_myrefcount' = cantty_myrefcount + 1
    /\ UNCHANGED <<attached, cancon_inbuf, flip, received>>

(* With the last close the tty and its flip buffer are gone. *)
cantty_close ==
    /\ cantty_myrefcount > 0
    /\ cantty_myrefcount' = cantty_myrefcount - 1
    /\ flip' = IF cantty_myrefcount = 1 THEN <<>> ELSE flip
    /\ UNCHANGED <<attached, cancon_inbuf, received>>

(* canobj_disconnect, whose cantty_hangup clears the ring.  The closes that *)
(* the tty layer's hangup makes the users do are steps of their own.       *)
cantty_hangup ==
    /\ attached = 1
    /\ attached' = 0
    /\ cancon_inbuf' = <<>>
    /\ UNCHANGED <<cantty_myrefcount, flip, received>>

canobj_connect ==
    /\ attached = 0
    /\ attached' = 1
    /\ UNCHANGED <<cancon_inbuf, cantty_myrefcount, flip, received>>
=============================================================================
