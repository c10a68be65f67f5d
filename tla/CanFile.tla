------------------------------ MODULE CanFile ------------------------------
(***************************************************************************)
(* The open files of /dev/can (kernel/drivers/meiko/can_main.c): the table *)
(* openfd[], the console object allocator behind CAN_GET_CONSOBJ, and the  *)
(* promiscuous mode that the files share in the 82C200's accept mask.      *)
(*                                                                         *)
(* The kernel is not preemptive: a system call runs to its end unless it   *)
(* sleeps, and the one place where these calls sleep is kmalloc in         *)
(* can_alloc_openfd, so opening a file is two steps and everything else is *)
(* one.  A struct file_state is identified with the file it belongs to.    *)
(***************************************************************************)
EXTENDS Integers, FiniteSets

CONSTANTS
    Files,              \* struct files that processes open and close
    NULL,               \* an unused slot of openfd[]
    CAN_MAX_USECOUNT,   \* slots of openfd[]
    COSIZE,             \* console objects that can be reserved
    CANOBJ_CONSMIN,     \* the object number of the first one
    MaxUse              \* bound on |promiscuous_usecount|

ASSUME SizeAssumption ==
    /\ CAN_MAX_USECOUNT \in Nat \ {0}
    /\ COSIZE \in Nat \ {0}
    /\ CANOBJ_CONSMIN \in Nat
    /\ MaxUse \in Nat
ASSUME NullAssumption == NULL \notin Files
ASSUME FilesAssumption == IsFiniteSet(Files)

VARIABLES
    openfd,             \* openfd[i]: whose file_state slot i points to
    pc,                 \* pc[f]: "closed", in "kmalloc", "open", or "oops"
    slot,               \* slot[f]: the i that can_alloc_openfd found for f
    promiscuous,        \* promiscuous[f], snoopy[f]: the flags of the file
    snoopy,
    consobj,            \* consobj[f]: its console object, or -1
    consobj_reserved,   \* the reservation map of the allocator
    promiscuous_usecount,
    can_usecount,
    accept_mask,        \* the chip's accept mask, 0xff or 0x83
    raced,              \* (history) files whose can_alloc_openfd found a slot that
                        \* another one, asleep in kmalloc, had found as well
    lost,               \* (history) the console objects and uses of the promiscuous
                        \* mode that were not given back by an "internal error"
    misused             \* (history) "untidy": a file has set a bit that was set or
                        \* cleared one that was not; "reset": the chip was reset by
                        \* an ioctl and not set up since

vars == <<openfd, pc, slot, promiscuous, snoopy, consobj, consobj_reserved,
          promiscuous_usecount, can_usecount, accept_mask, raced, lost, misused>>

fileVars == <<openfd, pc, slot, can_usecount>>
promiscVars == <<promiscuous, promiscuous_usecount, accept_mask, misused>>
consVars == <<consobj, consobj_reserved>>

Slots == 0 .. CAN_MAX_USECOUNT - 1
MaskAll == 255      \* 0xff: every packet on the bus is received
MaskMine == 131     \* 0x83: only packets for this node
ConsSlots == 0 .. COSIZE - 1
Consobjs == CANOBJ_CONSMIN .. CANOBJ_CONSMIN + COSIZE - 1

-----------------------------------------------------------------------------
Init ==
    /\ openfd = [i \in Slots |-> NULL]
    /\ pc = [f \in Files |-> "closed"]
    /\ slot = [f \in Files |-> 0]
    /\ promiscuous = [f \in Files |-> 0]
    /\ snoopy = [f \in Files |-> 0]
    /\ consobj = [f \in Files |-> -1]
    /\ consobj_reserved = [i \in ConsSlots |-> 0]
    /\ promiscuous_usecount = 0
    /\ can_usecount = 0
    /\ accept_mask = MaskMine
    /\ raced = {} /\ lost = [objs |-> {}, uses |-> 0] /\ misused = {}

(* can_init_82c200(p): the part of the chip's setup that files share. *)
can_init_82c200(promisc) ==
    accept_mask' = IF promisc = 1 THEN MaskAll ELSE MaskMine

(* The misuses known of when the chip is set up (init) and f was untidy. *)
Misuses(init, untidy) ==
    (IF init THEN misused \ {"reset"} ELSE misused) \cup (IF untidy THEN {"untidy"} ELSE {})

(* if (--promiscuous_usecount == 0) can_init_82c200(0), for n bits taken back. *)
DropPromiscuous_KeepChip(n, untidy) ==          \* mutant: the chip stays as it is
    /\ promiscuous_usecount' = promiscuous_usecount - n
    /\ misused' = Misuses(n = 1 /\ promiscuous_usecount = 1, untidy)
    /\ UNCHANGED accept_mask
DropPromiscuous(n, untidy) ==
    LET init == n = 1 /\ promiscuous_usecount = 1
    IN  /\ promiscuous_usecount' = promiscuous_usecount - n
        /\ IF init THEN can_init_82c200(0) ELSE UNCHANGED accept_mask
        /\ misused' = Misuses(init, untidy)

-----------------------------------------------------------------------------
Unused_Any(i) == TRUE                           \* mutant: slots are not tested
Unused(i) == openfd[i] = NULL

(* The files whose open sleeps in kmalloc with slot i in hand. *)
Rivals(i) == {g \in Files : pc[g] = "kmalloc" /\ slot[g] = i}

(* can_open, can_alloc_openfd up to the call of kmalloc: the first free slot. *)
can_alloc_openfd_scan(f) ==
    /\ pc[f] = "closed"
    /\ \E i \in Slots :
        /\ Unused(i)
        /\ \A j \in 0 .. i - 1 : ~Unused(j)
        /\ slot' = [slot EXCEPT ![f] = i]
        /\ raced' = IF Rivals(i) = {} THEN raced ELSE raced \cup Rivals(i) \cup {f}
    /\ pc' = [pc EXCEPT ![f] = "kmalloc"]
    /\ UNCHANGED <<openfd, can_usecount, snoopy, promiscVars, consVars, lost>>

(* kmalloc returns: openfd[i] is set, the file_state is initialised.       *)
can_open(f) ==
    /\ pc[f] = "kmalloc"
    /\ openfd' = [openfd EXCEPT ![slot[f]] = f]
    /\ consobj' = [consobj EXCEPT ![f] = -1]
    /\ promiscuous' = [promiscuous EXCEPT ![f] = 0]
    /\ snoopy' = [snoopy EXCEPT ![f] = 0]
    /\ can_usecount' = can_usecount + 1
    /\ pc' = [pc EXCEPT ![f] = "open"]
    /\ UNCHANGED <<slot, promiscuous_usecount, accept_mask, consobj_reserved,
                   raced, lost, misused>>

(* kmalloc returns NULL, which is not tested: the slot is cleared and the  *)
(* store to openfd[i]->consobj kills the process in the kernel.            *)
can_open_nomem(f) ==
    /\ pc[f] = "kmalloc"
    /\ openfd' = [openfd EXCEPT ![slot[f]] = NULL]
    /\ pc' = [pc EXCEPT ![f] = "oops"]
    /\ UNCHANGED <<slot, can_usecount, snoopy, promiscVars, consVars, raced, lost>>

-----------------------------------------------------------------------------
(* can_free_consobj: the map with the object o released. *)
can_free_consobj_MinusOne(o, map) ==            \* mutant: marked -1, "no object"
    [map EXCEPT ![o - CANOBJ_CONSMIN] = -1]
can_free_consobj_Shifted(o, map) ==             \* mutant: wrong offset
    [map EXCEPT ![(o - CANOBJ_CONSMIN + 1) % COSIZE] = 0]
can_free_consobj(o, map) ==
    [map EXCEPT ![o - CANOBJ_CONSMIN] = 0]

Freed(f) ==
    IF consobj[f] # -1 THEN can_free_consobj(consobj[f], consobj_reserved)
    ELSE consobj_reserved

(* The reservation of the object in place i. *)
Reserve_Nothing(i, map) == map                  \* mutant: it is not recorded
Reserve(i, map) == [map EXCEPT ![i] = 1]

(* can_alloc_consobj: from jiffies % COSIZE on, the first object that is   *)
(* not reserved; -1 when all are.                                          *)
can_alloc_consobj(f, map) ==
    \/ \E jiffies, count \in ConsSlots :
        LET at(n) == (jiffies + n) % COSIZE
        IN  /\ \A n \in 0 .. count - 1 : map[at(n)] = 1
            /\ map[at(count)] = 0
            /\ consobj_reserved' = Reserve(at(count), map)
            /\ consobj' = [consobj EXCEPT ![f] = at(count) + CANOBJ_CONSMIN]
    \/ /\ \A i \in ConsSlots : map[i] = 1
       /\ consobj_reserved' = map
       /\ consobj' = [consobj EXCEPT ![f] = -1]

(* The branches of can_ioctl that change this state. *)
ioctl_set_promiscuous(f) ==
    /\ pc[f] = "open"
    /\ promiscuous_usecount < MaxUse
    /\ promiscuous' = [promiscuous EXCEPT ![f] = 1]
    /\ promiscuous_usecount' = promiscuous_usecount + 1
    /\ IF promiscuous_usecount = 0 THEN can_init_82c200(1) ELSE UNCHANGED accept_mask
    /\ misused' = Misuses(promiscuous_usecount = 0, promiscuous[f] = 1)
    /\ UNCHANGED <<fileVars, snoopy, consVars, raced, lost>>

ioctl_clr_promiscuous(f) ==
    /\ pc[f] = "open"
    /\ promiscuous_usecount > -MaxUse
    /\ promiscuous' = [promiscuous EXCEPT ![f] = 0]
    /\ DropPromiscuous(1, promiscuous[f] = 0)
    /\ UNCHANGED <<fileVars, snoopy, consVars, raced, lost>>

ioctl_snoopy(f) ==
    /\ pc[f] = "open"
    /\ \E bit \in {0, 1} : snoopy' = [snoopy EXCEPT ![f] = bit]
    /\ UNCHANGED <<fileVars, promiscVars, consVars, raced, lost>>

ioctl_get_consobj(f) ==
    /\ pc[f] = "open"
    /\ can_alloc_consobj(f, Freed(f))
    /\ UNCHANGED <<fileVars, promiscVars, snoopy, raced, lost>>

ioctl_set_reset(f) ==
    /\ pc[f] = "open"
    /\ can_init_82c200(0)
    /\ misused' = misused \cup {"reset"}
    /\ UNCHANGED <<fileVars, promiscuous, promiscuous_usecount, snoopy, consVars, raced, lost>>

-----------------------------------------------------------------------------
(* can_release, can_release_openfd: the slot that holds the file is found, *)
(* its console object freed, its promiscuous bit taken back.               *)
can_release(f) ==
    /\ pc[f] = "open"
    /\ promiscuous_usecount > -MaxUse
    /\ \E i \in Slots :
        /\ openfd[i] = f
        /\ \A j \in 0 .. i - 1 : openfd[j] # f
        /\ openfd' = [openfd EXCEPT ![i] = NULL]
    /\ consobj_reserved' = Freed(f)
    /\ DropPromiscuous(promiscuous[f], FALSE)
    /\ pc' = [pc EXCEPT ![f] = "closed"]
    /\ can_usecount' = can_usecount - 1
    /\ consobj' = [consobj EXCEPT ![f] = -1]        \* the file_state is gone
    /\ promiscuous' = [promiscuous EXCEPT ![f] = 0]
    /\ snoopy' = [snoopy EXCEPT ![f] = 0]
    /\ raced' = raced \ {f}
    /\ UNCHANGED <<slot, lost>>

(* "can_release_openfd internal error": no slot holds the file.  Nothing   *)
(* is freed, yet the file is closed.                                       *)
can_release_internal_error(f) ==
    /\ pc[f] = "open"
    /\ \A i \in Slots : openfd[i] # f
    /\ pc' = [pc EXCEPT ![f] = "closed"]
    /\ can_usecount' = can_usecount - 1
    /\ consobj' = [consobj EXCEPT ![f] = -1]        \* lost, still reserved
    /\ promiscuous' = [promiscuous EXCEPT ![f] = 0]
    /\ snoopy' = [snoopy EXCEPT ![f] = 0]
    /\ raced' = raced \ {f}
    /\ lost' = [objs |-> lost.objs \cup ({consobj[f]} \ {-1}),
                uses |-> IF "untidy" \in misused THEN lost.uses
                         ELSE lost.uses + promiscuous[f]]
    /\ UNCHANGED <<openfd, slot, consobj_reserved,
                   promiscuous_usecount, accept_mask, misused>>

Next == \E f \in Files :
    \/ can_alloc_openfd_scan(f)
    \/ can_open(f)
    \/ can_open_nomem(f)
    \/ ioctl_set_promiscuous(f)
    \/ ioctl_clr_promiscuous(f)
    \/ ioctl_snoopy(f)
    \/ ioctl_get_consobj(f)
    \/ ioctl_set_reset(f)
    \/ can_release(f)
    \/ can_release_internal_error(f)

Spec == Init /\ [][Next]_vars

-----------------------------------------------------------------------------
(* Type correctness: a file holds no console object or one of the range    *)
(* CANOBJ_CONSMIN.., a reservation is 0 or 1, the mask one of two values.  *)
TypeOK ==
    /\ openfd \in [Slots -> Files \cup {NULL}]
    /\ pc \in [Files -> {"closed", "kmalloc", "open", "oops"}]
    /\ slot \in [Files -> Slots]
    /\ promiscuous \in [Files -> {0, 1}]
    /\ snoopy \in [Files -> {0, 1}]
    /\ consobj \in [Files -> Consobjs \cup {-1}]
    /\ consobj_reserved \in [ConsSlots -> {0, 1}]
    /\ promiscuous_usecount \in Int
    /\ can_usecount \in Int
    /\ accept_mask \in {MaskAll, MaskMine}
    /\ raced \subseteq Files /\ misused \subseteq {"untidy", "reset"}
    /\ lost.objs \subseteq Consobjs /\ lost.uses \in Nat

Open == {f \in Files : pc[f] = "open"}

(* CAN_GET_CONSOBJ "returns a unique console object id": no two open files *)
(* hold the same console object, whatever races there are, because an      *)
(* object stays reserved for as long as a file holds it.                   *)
ConsobjUnique ==
    /\ \A f, g \in Open : f # g /\ consobj[f] # -1 => consobj[f] # consobj[g]
    /\ \A f \in Open : consobj[f] # -1 =>
            consobj_reserved[consobj[f] - CANOBJ_CONSMIN] = 1

(* "(free on close)": a reserved object belongs to an open file, so that   *)
(* no sequence of opens and closes runs the allocator dry, and FORCE_DISCONN *)
(* is answered for a cancon that is gone (can_inuse_consobj); except what  *)
(* a file held that was closed with an "internal error".                   *)
ConsobjNotLeaked ==
    \A i \in ConsSlots : consobj_reserved[i] = 1 =>
        \/ i + CANOBJ_CONSMIN \in lost.objs
        \/ \E f \in Open : consobj[f] = i + CANOBJ_CONSMIN

(* The driver finds every open file in openfd[], so that deliver_pkt       *)
(* reaches it and can_release_openfd does not meet its "internal error",   *)
(* except those whose own open found the slot of another one that slept in *)
(* kmalloc (can_main.c:393-399): such a race harms nobody else, however    *)
(* long the sleep and whatever is opened and closed meanwhile.             *)
OpenInTable == \A f \in Open \ raced : \E i \in Slots : openfd[i] = f

(* The chip's promiscuous mode is on exactly when it is in use, but for a  *)
(* CAN_SET_RESET, which nobody undoes; and while files set only clear bits *)
(* and clear only set ones, it is in use by the open files whose bit is    *)
(* set and by those that were closed with an "internal error".             *)
PromiscuousAgrees ==
    /\ accept_mask = MaskAll <=> promiscuous_usecount > 0 /\ "reset" \notin misused
    /\ "untidy" \notin misused =>
        promiscuous_usecount = Cardinality({f \in Open : promiscuous[f] = 1}) + lost.uses

=============================================================================
