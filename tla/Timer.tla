------------------------------- MODULE Timer --------------------------------
(***************************************************************************)
(* Time of day (kernel/arch/sparc/meiko/timer.c, elan.h).  The level 10    *)
(* timer interrupts every 1/HZ seconds; the interrupt handler of the       *)
(* kernel counts a tick, its bottom half adds it to xtime.  In between,    *)
(* gettimeofday adds what the elan's clock has advanced since the last     *)
(* tick was recorded.                                                      *)
(*                                                                         *)
(* Time is counted in fractions of a tick, modulo Wrap: only differences   *)
(* matter.  wall is the time it really is, so far as anybody told us.      *)
(***************************************************************************)
EXTENDS Integers

CONSTANTS
    Tick,           \* 1000000/HZ: units from tick to tick
    MaxDelay,       \* units an interrupt may be kept waiting
    MaxLost,        \* bound on the ticks counted before the bottom half runs
    Jumps,          \* by how much settimeofday moves the clock
    Wrap

ASSUME TimerAssumption ==
    /\ Tick \in Nat \ {0} /\ MaxDelay \in 0 .. Tick - 1 /\ MaxLost \in Nat \ {0}
    /\ Jumps \subseteq Nat /\ Wrap \in Nat \ {0}

VARIABLES
    clock,              \* elan_getclock
    phase, latched,     \* since the last pulse of the L10 timer; its latch in the PAL
    xtime, lost_ticks,  \* of the kernel
    xtime_lasttick, elan_lasttick,
    wall,
    missed,             \* (history) ticks still to be added when the last was recorded
    stale               \* 1 until the first tick after xtime was set

timeVars == <<clock, phase, latched, xtime, lost_ticks, xtime_lasttick,
              elan_lasttick, wall, missed, stale>>

Plus(a, b) == (a + b) % Wrap

(* elan_lasttick = 0 stands for "no tick yet". *)
NoTick == -1

(* dino1_init_timers loads the counter of the L10 timer and enables level 10. *)
TimerInit ==
    /\ clock = 0 /\ phase = 0 /\ latched = 0
    /\ xtime = 0 /\ lost_ticks = 0
    /\ xtime_lasttick = 0 /\ elan_lasttick = NoTick
    /\ wall = 0 /\ missed = 0 /\ stale = 1

(* Time passes (external).  The timer's pulse is latched; the interrupt is *)
(* not kept waiting for longer than MaxDelay.                              *)
Elapse ==
    /\ latched = 1 => phase < MaxDelay
    /\ clock' = Plus(clock, 1) /\ wall' = Plus(wall, 1)
    /\ phase' = (phase + 1) % Tick
    /\ latched' = IF phase' = 0 THEN 1 ELSE latched
    /\ UNCHANGED <<xtime, lost_ticks, xtime_lasttick, elan_lasttick, missed, stale>>

(* dino1_timer_intr records what xtime will be once the tick is added, and *)
(* when that is.                                                           *)
xtime_next_NotAdded == xtime        \* mutant: the tick to come is forgotten
xtime_next == Plus(xtime, Tick)

(* timer_interrupt of the kernel (external) clears the latch, counts the   *)
(* tick and calls dino1_timer_intr, also if the bottom half of the ticks   *)
(* before has not run (for at most MaxLost of them here).                  *)
timer_interrupt ==
    /\ latched = 1 /\ lost_ticks < MaxLost
    /\ latched' = 0
    /\ lost_ticks' = lost_ticks + 1
    /\ xtime_lasttick' = xtime_next
    /\ elan_lasttick' = clock
    /\ missed' = lost_ticks /\ stale' = 0
    /\ UNCHANGED <<clock, phase, xtime, wall>>

(* timer_bh of the kernel (external) adds the ticks to xtime. *)
timer_bh ==
    /\ lost_ticks > 0
    /\ xtime' = Plus(xtime, lost_ticks * Tick)
    /\ lost_ticks' = 0
    /\ UNCHANGED <<clock, phase, latched, xtime_lasttick, elan_lasttick, wall, missed, stale>>

(* do_settimeofday of the kernel (external), a system call, which does not *)
(* come between a tick and its bottom half; dino1_gettimeoffset is 0, and  *)
(* xtime_lasttick stays as it is.                                          *)
settimeofday(jump) ==
    /\ lost_ticks = 0
    /\ xtime' = Plus(wall, jump) /\ wall' = Plus(wall, jump)
    /\ stale' = 1
    /\ UNCHANGED <<clock, phase, latched, lost_ticks, xtime_lasttick, elan_lasttick, missed>>

(* What dino1_gettimeofday returns. *)
dino1_gettimeofday ==
    IF elan_lasttick # NoTick THEN Plus(xtime_lasttick, clock - elan_lasttick) ELSE xtime

-----------------------------------------------------------------------------
(* gettimeofday is behind the true time by the ticks whose bottom half had *)
(* not run when the last one was recorded (timer.c:99-112 adds only one),  *)
(* but never by more than these and what an interrupt is late, and never   *)
(* ahead by more than that and the tick that was under way when the time   *)
(* was set; except after settimeofday, until the next tick.  The error is  *)
(* gone with the next tick: it does not add up, however ticks, bottom      *)
(* halves and settings interleave.                                         *)
TimeAccurate ==
    stale = 0 =>
        Plus(dino1_gettimeofday + missed * Tick - wall, MaxDelay) <= Tick + 2 * MaxDelay

(* Time does not go back: it does if interrupts are late, or if two ticks  *)
(* come before the bottom half of the first.                               *)
TimeForward ==
    [][stale = 0 /\ stale' = 0 =>
         Plus(dino1_gettimeofday' - dino1_gettimeofday, 0) \in {0, 1}]_timeVars
=============================================================================
