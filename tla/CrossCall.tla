----------------------------- MODULE CrossCall ------------------------------
(***************************************************************************)
(* What smp_cross_call promises its callers (the kernel's cache and TLB    *)
(* flushes, which are not correct with less): by the time it returns, the  *)
(* function has run once, and only once, on every processor that runs the  *)
(* kernel.  Processors may join at any time; they flush for themselves.    *)
(***************************************************************************)
CONSTANT Cpus

VARIABLES
    up,         \* processors that run the kernel
    calling,    \* those in the middle of a cross call
    ran         \* ran[c]: where c's function has run

vars == <<up, calling, ran>>

Init == up \subseteq Cpus /\ calling = {} /\ ran = [c \in Cpus |-> {}]

Join(d) ==
    /\ d \notin up
    /\ up' = up \cup {d}
    /\ UNCHANGED <<calling, ran>>

Call(c) ==
    /\ c \in up \ calling
    /\ calling' = calling \cup {c}
    /\ ran' = [ran EXCEPT ![c] = {}]
    /\ UNCHANGED up

Run(c, d) ==
    /\ c \in calling /\ d \notin ran[c]
    /\ ran' = [ran EXCEPT ![c] = @ \cup {d}]
    /\ UNCHANGED <<up, calling>>

Return(c) ==
    /\ c \in calling /\ up \subseteq ran[c]
    /\ calling' = calling \ {c}
    /\ UNCHANGED <<up, ran>>

Next ==
    \E c \in Cpus :
        Join(c) \/ Call(c) \/ Return(c) \/ \E d \in Cpus : Run(c, d)

Spec == Init /\ [][Next]_vars
=============================================================================
