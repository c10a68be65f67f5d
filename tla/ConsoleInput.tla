---------------------------- MODULE ConsoleInput ----------------------------
(***************************************************************************)
(* What is typed at cancon (CanconTerm) on its way to the tty of the node  *)
(* (CanTty), over a network that may lose packets and answers and keeps    *)
(* their order.                                                            *)
(***************************************************************************)
EXTENDS CanconTerm, CanTty

CONSTANT MaxNet     \* bound on the packets in the network, each way

ASSUME NetAssumption == MaxNet \in Nat \ {0}

VARIABLES
    toNode,         \* packets on their way: their object and characters
    toUs,           \* ACKs on their way: the objects answered
    halted          \* 1 once the node has executed machine_halt

wireVars == <<toNode, toUs, halted>>
inputVars == <<termVars, inVars, wireVars, fault>>

InputInit ==
    /\ TermInit /\ TtyInit
    /\ toNode = <<>> /\ toUs = <<>> /\ halted = 0

-----------------------------------------------------------------------------
(* The threads of cancon. *)
Term(A) == A /\ UNCHANGED <<inVars, wireVars>>

Read == Term(\E s \in UNION {[1 .. n -> Chars] : n \in 1 .. ReadMax} : Typed(s))

Send(t) ==
    /\ can_send(t)
    /\ Len(toNode) < MaxNet
    /\ toNode' = Append(toNode, [object |-> Object[t],
                                 chars  |-> IF t = "writer" THEN dat ELSE <<>>])
    /\ UNCHANGED <<inVars, toUs, halted>>

reader ==
    /\ toUs # <<>>
    /\ signal_acknak(Head(toUs))
    /\ toUs' = Tail(toUs)
    /\ UNCHANGED <<inVars, toNode, halted>>

Wait(t) == Term(waitfor_acknak(t))
NoAnswer(t) == Term(waitfor_acknak_timeout(t))
TtyReader == Term(Parse \/ signal_outchars)
Writer == Term(waitfor_outchars_sleep \/ waitfor_outchars)
Disconnect == Term(disconnect)

-----------------------------------------------------------------------------
(* The node. *)
Answer(o) == toUs' = Append(toUs, o)

canobj_dat ==
    /\ toNode # <<>> /\ Head(toNode).object = "dat" /\ halted = 0
    /\ Len(toUs) < MaxNet
    /\ toNode' = Tail(toNode)
    /\ IF attached = 1
       THEN /\ Answer("dat")
            /\ cantty_recv_dat(Head(toNode).chars)
            /\ fault' = IF Len(Head(toNode).chars) > InRoom - Len(cancon_inbuf)
                        THEN 1 ELSE fault
       ELSE /\ fault' = 1
            /\ UNCHANGED <<inVars, toUs>>
    /\ UNCHANGED <<termVars, halted>>

(* canobj_break; or the H8 of the board answers and resets the node. *)
canobj_break ==
    /\ toNode # <<>> /\ Head(toNode).object = "break" /\ halted = 0
    /\ Len(toUs) < MaxNet
    /\ toNode' = Tail(toNode)
    /\ Answer("break")
    /\ halted' = 1
    /\ UNCHANGED <<termVars, inVars, fault>>

Tty(A, lossy) ==
    /\ halted = 0
    /\ A
    /\ fault' = IF lossy THEN 1 ELSE fault
    /\ UNCHANGED <<termVars, wireVars>>

FlushToLdisc == Tty(flush_to_ldisc, FALSE)
Node ==
    \/ Tty(cantty_open, FALSE)
    \/ Tty(cantty_close, cantty_myrefcount = 1 /\ flip # <<>>)
    \/ Tty(cantty_hangup, TRUE)
    \/ Tty(canobj_connect, FALSE)

(* The network loses a packet (or brings it to a node that is down) or an  *)
(* answer.                                                                 *)
Lose ==
    /\ \/ toNode # <<>> /\ toNode' = Tail(toNode) /\ UNCHANGED toUs
       \/ toUs # <<>> /\ toUs' = Tail(toUs) /\ UNCHANGED toNode
    /\ fault' = 1
    /\ UNCHANGED <<termVars, inVars, halted>>

InputNext ==
    \/ Read \/ TtyReader \/ Writer \/ reader \/ Disconnect \/ Term(SpuriousWakeup)
    \/ \E t \in Threads : Send(t) \/ Wait(t) \/ NoAnswer(t)
    \/ canobj_dat \/ canobj_break \/ FlushToLdisc \/ Node \/ Lose

InputSpec == InputInit /\ [][InputNext]_inputVars

(* The threads of cancon run while there is something to do, the network   *)
(* and the node handle what arrives, and a wait for an answer times out.   *)
InputFairSpec ==
    /\ InputSpec
    /\ WF_inputVars(TtyReader) /\ WF_inputVars(Writer) /\ WF_inputVars(reader)
    /\ \A t \in Threads :
        WF_inputVars(Send(t)) /\ WF_inputVars(Wait(t)) /\ WF_inputVars(NoAnswer(t))
    /\ WF_inputVars(canobj_dat) /\ WF_inputVars(canobj_break) /\ WF_inputVars(FlushToLdisc)
    /\ WF_inputVars(halted = 1 /\ Lose)

-----------------------------------------------------------------------------
(* Where characters are, beginning with those that have come farthest: at  *)
(* the node, in packets, and with cancon's threads.                        *)
AtNode == received \o flip \o cancon_inbuf
Unsent == IF at["writer"] = "send" THEN dat ELSE <<>>
Waiting == Unsent \o outchars \o outbuf
Stages == <<AtNode>> \o [n \in DOMAIN toNode |-> toNode[n].chars] \o <<Waiting>>
OnTheWay == UNION {Range(toNode[n].chars) : n \in DOMAIN toNode} \cup Range(Waiting)

Ascending(s) == \A m, n \in DOMAIN s : m < n => s[m] < s[n]
Before(s, u) == \A m \in DOMAIN s, n \in DOMAIN u : s[m] < u[n]

(* As long as no packet or answer is lost or late, no buffer overflows and *)
(* nobody hangs up, the node gets what was typed without the escape        *)
(* sequences, each character once and in order, however typing, sending    *)
(* and reading interleave (cancon.c:288-337, 452-493; can_console.c:       *)
(* 305-328).                                                               *)
Conserved ==
    fault = 0 =>
        /\ \A m \in DOMAIN Stages : Ascending(Stages[m])
        /\ \A m, n \in DOMAIN Stages : m < n => Before(Stages[m], Stages[n])
        /\ UNION {Range(Stages[m]) : m \in DOMAIN Stages} = Meant(done)

(* Whatever is lost: a packet that is sent again because its answer was    *)
(* lost or late (or thrown away by the other thread that waits) may arrive *)
(* again, but a character is not seen more than MAX_RETRIES times          *)
(* (cancon.c:366-376), and nothing of an escape sequence that was obeyed   *)
(* is seen at all (cancon.c:452-493).                                      *)
Copies(s, k) == Cardinality({n \in DOMAIN s : s[n] = k})
RepeatsBounded ==
    \A k \in 1 .. Len(typed) : Copies(AtNode, k) <= IF k \in Meant(done) THEN MAX_RETRIES ELSE 0

(* Characters that wait in outchars[] or in a packet reach the node, or    *)
(* there was a fault or a disconnect: the writer never sleeps over them    *)
(* (cancon.c:288-322, condition signalled and tested under the mutex).     *)
InputGetsThrough == OnTheWay # {} ~> OnTheWay = {} \/ fault = 1 \/ gone > 0

(* And they go on to the tty, if it stays open.  Not so: what does not fit *)
(* the flip buffer, or came before the open, waits in cancon_inbuf for the *)
(* next packet (can_console.c:310-319).                                    *)
InputGetsToTty ==
    cancon_inbuf # <<>> /\ cantty_myrefcount > 0
        ~> cancon_inbuf = <<>> \/ cantty_myrefcount = 0 \/ halted = 1
=============================================================================
