------------------------------ MODULE Bargraph ------------------------------
(***************************************************************************)
(* The driver of the bargraph (kernel/drivers/meiko/bargraph.c): a pattern *)
(* that a timer keeps going while nobody has the device open.  Only who    *)
(* wrote the LEDs last is of interest, and how far the pattern is.         *)
(***************************************************************************)
EXTENDS Integers

CONSTANTS
    HZ_DELAY,       \* ticks between two steps of the pattern
    Patterns,       \* length of patterns[]
    Parallel        \* whether a timer may run on one processor while a system
                    \* call runs on another

ASSUME BargraphAssumption ==
    HZ_DELAY \in Nat \ {0} /\ Patterns \in Nat \ {0} /\ Parallel \in BOOLEAN

VARIABLES
    reg,            \* "null", "mapped", or "unmapped": it still has the address
    registered,     \* 1 while misc_register has the driver's operations
    bg_usecount,
    bg_timer,       \* Off, or the ticks until it expires
    running,        \* 1 while the timer list runs bg_update_pattern
    leds,           \* "off", "pattern" or "user", by who wrote them last
    next

bgVars == <<reg, registered, bg_usecount, bg_timer, running, leds, next>>

Off == -1

BgInit ==
    /\ reg = "null" /\ registered = 0 /\ bg_usecount = 0 /\ bg_timer = Off
    /\ running = 0 /\ leds = "off" /\ next = 0

(* A system call runs on the processor of the timer only if that is idle.  *)
SysCall == Parallel \/ running = 0

(* bg_init: no bargraph, or no minor number to be had, or all is well. *)
init_module ==
    /\ SysCall /\ registered = 0
    /\ \/ reg' = "null" /\ UNCHANGED <<registered, bg_timer>>
       \/ reg' = "unmapped" /\ UNCHANGED <<registered, bg_timer>>
       \/ reg' = "mapped" /\ registered' = 1 /\ bg_timer' = HZ_DELAY
    /\ UNCHANGED <<bg_usecount, running, leds, next>>

(* bg_stop_pattern: del_timer, and the LEDs go out. *)
bg_stop_pattern_OnlyLeds == leds' = "off" /\ UNCHANGED bg_timer     \* mutant: no del_timer
bg_stop_pattern == leds' = "off" /\ bg_timer' = Off

(* cleanup_module, which is not called while the use count is positive. *)
cleanup_module ==
    /\ SysCall /\ registered = 1 /\ bg_usecount = 0
    /\ bg_stop_pattern
    /\ reg' = "unmapped" /\ registered' = 0
    /\ UNCHANGED <<bg_usecount, running, next>>

(* EBUSY and ENXIO change nothing. *)
bg_open ==
    /\ SysCall /\ registered = 1
    /\ bg_usecount = 0 /\ reg # "null"
    /\ bg_stop_pattern
    /\ bg_usecount' = 1
    /\ UNCHANGED <<reg, registered, running, next>>

Restart_Not == UNCHANGED bg_timer           \* mutant: release does not start it
Restart == bg_timer' = HZ_DELAY

bg_release ==
    /\ SysCall /\ bg_usecount = 1
    /\ Restart
    /\ bg_usecount' = 0
    /\ UNCHANGED <<reg, registered, running, leds, next>>

(* BGSET, or a store through a mapping of the page: the file is open. *)
bg_ioctl ==
    /\ SysCall /\ bg_usecount = 1
    /\ leds' = "user"
    /\ UNCHANGED <<reg, registered, bg_usecount, bg_timer, running, next>>

(* The kernel's timers (external): a tick goes by; an expired timer is     *)
(* taken off the list before its function is called.                       *)
Age == bg_timer' = IF bg_timer > 0 THEN bg_timer - 1 ELSE bg_timer

run_timer_list ==
    /\ IF bg_timer = 0 THEN bg_timer' = Off /\ running' = 1
       ELSE UNCHANGED <<bg_timer, running>>
    /\ UNCHANGED <<reg, registered, bg_usecount, leds, next>>

bg_update_pattern ==
    /\ running = 1
    /\ running' = 0
    /\ IF reg = "null" THEN UNCHANGED <<leds, next, bg_timer>>
       ELSE /\ leds' = "pattern"
            /\ next' = IF next + 1 = Patterns THEN 0 ELSE next + 1
            /\ bg_timer' = HZ_DELAY
    /\ UNCHANGED <<reg, registered, bg_usecount>>

-----------------------------------------------------------------------------
(* Who has the device open has it alone: no timer is armed or runs that    *)
(* would overwrite the LEDs; nor does one write them once the page is      *)
(* unmapped.                                                               *)
UserUndisturbed ==
    bg_usecount = 1 \/ reg # "mapped" => bg_timer = Off /\ running = 0 /\ leds # "pattern"

(* "The driver keeps a default pattern going on the bargraph as long as no *)
(* processes have the special file open": it moves on again and again.     *)
PatternGoesOn ==
    \A n \in 0 .. Patterns - 1 :
        next = n /\ registered = 1 /\ bg_usecount = 0
            ~> next # n \/ bg_usecount = 1 \/ registered = 0
=============================================================================
