------------------------------ MODULE CanTools ------------------------------
(***************************************************************************)
(* The tools that ask the objects of a node (CanObj) something: canping,   *)
(* which writes numbers to TESTRW for ever, and canctrl, which sends one   *)
(* packet (cmd/can.c, canping.c, canctrl.c).  Tools run on nodes; a packet *)
(* for a node is put in the queue of every tool that runs there, and a     *)
(* tool takes an answer for its own by the object (all ask the same node). *)
(* The network keeps the order of the packets of a node and may lose any.  *)
(***************************************************************************)
EXTENDS CanObj

CONSTANTS
    Pingers, Ctrls, \* the processes that run canping and canctrl
    At,             \* the node a tool runs on
    Asks,           \* what a canctrl may be called with: type, object, data
    MaxPings,       \* bound on a canping, as given with -c
    MaxNet          \* bound on the packets in the network, for a node each way

Tools == Pingers \cup Ctrls
Nodes == {At[t] : t \in Tools}

ASSUME ToolsAssumption ==
    /\ MaxPings \in Nat /\ MaxNet \in Nat \ {0}
    /\ Pingers \cap Ctrls = {} /\ DOMAIN At = Tools /\ DOMAIN Asks = Ctrls

VARIABLES
    pc,
    alarm,          \* 1 while the alarm of a tool is set
    seq,            \* send_seq of a canping
    request,        \* what a tool awaits the answer to
    inq,            \* the queue of its file
    got,            \* the answer it took last, NoAnswer before
    requests,       \* on their way from a node
    answers         \* on their way to a node

toolVars == <<pc, alarm, seq, request, inq, got, requests, answers>>
vars == <<objVars, toolVars>>

None == -1          \* no data was given
NoAnswer == [type |-> "none", dat |-> 0, to |-> <<>>, at |-> 0]
NoRequest == [object |-> "none", type |-> "none", dat |-> 0, given |-> None, by |-> <<>>]

Init ==
    /\ ObjInit
    /\ pc = [t \in Tools |-> "start"]
    /\ alarm = [t \in Tools |-> 0]
    /\ seq = [t \in Pingers |-> 0]
    /\ request = [t \in Tools |-> NoRequest]
    /\ inq = [t \in Tools |-> <<>>]
    /\ got = [t \in Tools |-> NoAnswer]
    /\ requests = [n \in Nodes |-> <<>>] /\ answers = [n \in Nodes |-> <<>>]

Opened(t) == pc[t] \in {"send", "recv"}

-----------------------------------------------------------------------------
(* can_send *)
can_send(t, req) ==
    /\ Len(requests[At[t]]) < MaxNet
    /\ requests' = [requests EXCEPT ![At[t]] = Append(@, req)]
    /\ request' = [request EXCEPT ![t] = req]
    /\ alarm' = [alarm EXCEPT ![t] = 1]

(* can_recv_ack takes the first packet that it takes for the answer to its *)
(* request and skips others.                                               *)
Matches(pkt, req) == pkt.object = req.object

can_recv_ack_skip(t) ==
    /\ pc[t] = "recv" /\ inq[t] # <<>> /\ ~Matches(Head(inq[t]), request[t])
    /\ inq' = [inq EXCEPT ![t] = Tail(@)]
    /\ UNCHANGED <<objVars, pc, alarm, seq, request, got, requests, answers>>

Takes(t) ==
    /\ pc[t] = "recv" /\ inq[t] # <<>> /\ Matches(Head(inq[t]), request[t])
    /\ alarm' = [alarm EXCEPT ![t] = 0]
    /\ LET pkt == Head(inq[t])
       IN  got' = [got EXCEPT ![t] = [type |-> pkt.type, to |-> pkt.to,
                                      dat |-> IF t \in Pingers THEN pkt.dat ELSE 0,
                                      at |-> IF t \in Pingers THEN seq[t] ELSE 0]]

(* The alarm goes off in read(), which returns EINTR, or, while the tool   *)
(* looks at a packet, without effect.                                      *)
Interrupted(t) ==
    /\ pc[t] = "recv" /\ alarm[t] = 1 /\ inq[t] = <<>>
    /\ alarm' = [alarm EXCEPT ![t] = 0]

AlarmMissed(t) ==
    /\ pc[t] = "recv" /\ alarm[t] = 1
    /\ alarm' = [alarm EXCEPT ![t] = 0]
    /\ UNCHANGED <<objVars, pc, seq, request, inq, got, requests, answers>>

-----------------------------------------------------------------------------
(* canping *)
canping_start(t) ==
    /\ pc[t] = "start"
    /\ pc' = [pc EXCEPT ![t] = "send"]
    /\ UNCHANGED <<objVars, alarm, seq, request, inq, got, requests, answers>>

canping_send(t) ==
    /\ pc[t] = "send" /\ seq[t] < MaxPings
    /\ can_send(t, [object |-> "TESTRW", type |-> "WO", dat |-> seq[t],
                    given |-> None, by |-> <<t, seq[t]>>])
    /\ pc' = [pc EXCEPT ![t] = "recv"]
    /\ UNCHANGED <<objVars, seq, inq, got, answers>>

NextPing(t) ==
    /\ seq' = [seq EXCEPT ![t] = @ + 1]
    /\ pc' = [pc EXCEPT ![t] = "send"]
    /\ request' = [request EXCEPT ![t] = NoRequest]
    /\ UNCHANGED <<objVars, requests, answers>>

canping_recv(t) == Takes(t) /\ NextPing(t) /\ inq' = [inq EXCEPT ![t] = Tail(@)]
canping_timeout(t) == Interrupted(t) /\ NextPing(t) /\ UNCHANGED <<inq, got>>

(* "<-- response != seq - 1" *)
Complaint_TooLate(recv, n) == recv > n - 1      \* mutant: only numbers still to come
Complaint(recv, n) == recv # n - 1

-----------------------------------------------------------------------------
(* canctrl.  Its data is read twice, as hexadecimal and then as decimal,   *)
(* and must be there both times; the decimal number of "0x..." is 0.       *)
(* Without data the word in the packet is whatever it was.                 *)
Sscanf(given) == IF given = None THEN Values ELSE {0}

canctrl_send(t) ==
    /\ pc[t] = "start"
    /\ \E a \in Asks[t] : \E dat \in Sscanf(a.given) :
          /\ can_send(t, [object |-> a.object, type |-> a.type, dat |-> dat,
                          given |-> a.given, by |-> <<t, 0>>])
          /\ pc' = [pc EXCEPT ![t] = IF a.type \in {"WNA", "ACK", "NAK", "SIG"}
                                     THEN "done" ELSE "recv"]
    /\ UNCHANGED <<objVars, seq, inq, got, answers>>

Done(t) ==
    /\ pc' = [pc EXCEPT ![t] = "done"]
    /\ inq' = [inq EXCEPT ![t] = <<>>]
    /\ request' = [request EXCEPT ![t] = NoRequest]
    /\ UNCHANGED <<objVars, seq, requests, answers>>

canctrl_recv(t) == Takes(t) /\ Done(t)
canctrl_timeout(t) == Interrupted(t) /\ Done(t) /\ UNCHANGED got

-----------------------------------------------------------------------------
(* The node that is asked. *)
Handle(n) ==
    /\ requests[n] # <<>> /\ Len(answers[n]) < MaxNet
    /\ LET req == Head(requests[n])
       IN  /\ Written(req.object, req.type, req.dat)
           /\ LET reply == canobj_packet(req.object, req.type, req.dat)
              IN  \/ reply = {} /\ UNCHANGED answers
                  \/ \E r \in reply :
                        answers' = [answers EXCEPT ![n] = Append(@,
                            [object |-> req.object, type |-> r.type, dat |-> r.dat,
                             to |-> req.by])]
    /\ requests' = [requests EXCEPT ![n] = Tail(@)]
    /\ UNCHANGED <<pc, alarm, seq, request, inq, got>>

(* deliver_pkt on the node of the tools: every open file gets it. *)
deliver_pkt(n) ==
    /\ answers[n] # <<>>
    /\ inq' = [t \in Tools |-> IF At[t] = n /\ Opened(t)
                               THEN Append(inq[t], Head(answers[n])) ELSE inq[t]]
    /\ answers' = [answers EXCEPT ![n] = Tail(@)]
    /\ UNCHANGED <<objVars, pc, alarm, seq, request, got, requests>>

Lose(n) ==
    /\ \/ requests[n] # <<>> /\ requests' = [requests EXCEPT ![n] = Tail(@)] /\ UNCHANGED answers
       \/ answers[n] # <<>> /\ answers' = [answers EXCEPT ![n] = Tail(@)] /\ UNCHANGED requests
    /\ UNCHANGED <<objVars, pc, alarm, seq, request, inq, got>>

Next ==
    \/ \E t \in Pingers : canping_start(t) \/ canping_send(t) \/ canping_recv(t) \/ canping_timeout(t)
    \/ \E t \in Ctrls : canctrl_send(t) \/ canctrl_recv(t) \/ canctrl_timeout(t)
    \/ \E t \in Tools : can_recv_ack_skip(t) \/ AlarmMissed(t)
    \/ \E n \in Nodes : Handle(n) \/ deliver_pkt(n) \/ Lose(n)

Spec == Init /\ [][Next]_vars

(* Tools and network go on, and alarms go off. *)
FairSpec ==
    /\ Spec
    /\ \A t \in Pingers : WF_vars(canping_send(t)) /\ WF_vars(canping_recv(t)) /\ WF_vars(canping_timeout(t))
    /\ \A t \in Ctrls : WF_vars(canctrl_recv(t)) /\ WF_vars(canctrl_timeout(t))
    /\ \A t \in Tools : WF_vars(can_recv_ack_skip(t))
    /\ \A n \in Nodes : WF_vars(Handle(n)) /\ WF_vars(deliver_pkt(n))

-----------------------------------------------------------------------------
(* An answer that canping reports without a complaint is the answer to the *)
(* ping it is reported for, however late answers to earlier pings come     *)
(* (canping.c:167-195).  From the third ping on: the second may take the   *)
(* late answer to the first, since both find 0 in a fresh object.          *)
SilentAnswerIsOwn ==
    \A t \in Pingers :
        got[t] # NoAnswer /\ got[t].at > 1 /\ ~Complaint(got[t].dat, got[t].at)
            => got[t].to = <<t, got[t].at>>

(* RESET_IO sets input and output device of the PROM to the same value or  *)
(* leaves both as they were, whichever of them is refused and however they *)
(* differed before (can_obj.c:274-292); except that an input device whose  *)
(* value is not one of the table cannot be given back.                     *)
ResetWhole ==
    [][\/ UNCHANGED prom
       \/ prom'["input-device"] = prom'["output-device"]
       \/ obp_getcan("input-device") = -1]_vars

(* can_obj.c: "set both input and output to new value".  It sets only one  *)
(* if the other is refused and the old value is not one of the table.      *)
ResetSetsBoth ==
    [][UNCHANGED prom \/ prom'["input-device"] = prom'["output-device"]]_vars

(* canctrl(8): the data "should be a hex value preceded with "0x", which   *)
(* will be packetized as a 4-byte unsigned long".                          *)
DataAsGiven ==
    \A t \in Ctrls : request[t].given # None => request[t].dat = request[t].given

(* A ping is answered or given up (canping.c:167).                         *)
PingGoesOn == \A t \in Pingers : pc[t] = "recv" ~> pc[t] # "recv"
=============================================================================
