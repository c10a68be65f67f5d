------------------------------- MODULE Board --------------------------------
(***************************************************************************)
(* Timer and bargraph together: a tick makes the bargraph's timer older,   *)
(* and the bottom half that adds ticks to xtime also runs what expired.    *)
(***************************************************************************)
EXTENDS Timer, Bargraph

vars == <<timeVars, bgVars>>

Init == TimerInit /\ BgInit

(* The bottom half of a tick is not begun again before it is done. *)
Interrupt == timer_interrupt /\ Age /\ UNCHANGED <<reg, registered, bg_usecount, running, leds, next>>
BottomHalf == running = 0 /\ timer_bh /\ run_timer_list
Update == bg_update_pattern /\ UNCHANGED timeVars
SystemCall ==
    \/ /\ init_module \/ cleanup_module \/ bg_open \/ bg_release \/ bg_ioctl
       /\ UNCHANGED timeVars
    \/ running = 0 /\ (\E jump \in Jumps : settimeofday(jump)) /\ UNCHANGED bgVars

Next ==
    \/ Elapse /\ UNCHANGED bgVars
    \/ Interrupt \/ BottomHalf \/ Update \/ SystemCall

Spec == Init /\ [][Next]_vars

(* Time passes, and interrupts, bottom halves and expired timers run. *)
Fairness ==
    /\ WF_vars(Elapse /\ UNCHANGED bgVars) /\ WF_vars(Interrupt)
    /\ WF_vars(BottomHalf) /\ WF_vars(Update)
FairSpec == Spec /\ Fairness
=============================================================================
