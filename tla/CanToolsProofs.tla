--------------------------- MODULE CanToolsProofs ---------------------------
(***************************************************************************)
(* What is proved of canping, canctrl and the objects they ask: for any    *)
(* number of tools and nodes, any requests and any PROM, with a network    *)
(* that delays and loses packets.                                          *)
(***************************************************************************)
EXTENDS CanTools, SequenceTheorems, TLAPS

(* The device table names no device twice, so that a value read from the   *)
(* PROM and written back is the same string.                               *)
LEMMA DeviceTable ==
    ASSUME NEW i \in DOMAIN OBP_INPUT_DEVICE_VALUES
    PROVE  LET num == obp_strtonum(OBP_INPUT_DEVICE_VALUES[i], OBP_INPUT_DEVICE_VALUES)
           IN  /\ HasString(num, OBP_INPUT_DEVICE_VALUES)
               /\ obp_numtostr(num, OBP_INPUT_DEVICE_VALUES) = OBP_INPUT_DEVICE_VALUES[i]
<1> DEFINE T == OBP_INPUT_DEVICE_VALUES
           k == CHOOSE j \in DOMAIN T : T[j] = T[i]
<1>1. k \in DOMAIN T /\ T[k] = T[i]
  OBVIOUS
<1>2. DOMAIN T = 1 .. 4 /\ Len(T) = 4
  BY DEF OBP_INPUT_DEVICE_VALUES
<1>3. obp_strtonum(T[i], T) = k - 1
  BY DEF obp_strtonum
<1> HIDE DEF k, T
<1>4. k - 1 \in 0 .. Len(T) - 1 /\ (k - 1) + 1 = k
  BY <1>1, <1>2
<1>5. HasString(k - 1, T) /\ obp_numtostr(k - 1, T) = T[i]
  BY <1>1, <1>4 DEF HasString, obp_numtostr
<1> QED
  BY <1>3, <1>5 DEF T

(* The options stay the ones they are. *)
PromInv == prom = [option \in Options |-> prom[option]]

(* canobj_reset_io sets both or undoes what it has set. *)
LEMMA ResetAgrees ==
    ASSUME PromInv, NEW num, prom' = canobj_reset_io(num)
    PROVE  /\ PromInv'
           /\ \/ UNCHANGED prom
              \/ prom'["input-device"] = prom'["output-device"]
              \/ obp_getcan("input-device") = -1
<1> DEFINE T == OBP_INPUT_DEVICE_VALUES
           old == prom["input-device"]
           new == obp_setcan(prom, "input-device", num)
           Goal == /\ PromInv'
                   /\ \/ UNCHANGED prom
                      \/ prom'["input-device"] = prom'["output-device"]
                      \/ obp_getcan("input-device") = -1
<1>1. Table("input-device") = T /\ Table("output-device") = T
  BY DEF Table, Devices
<1>2. CASE prom' = prom
  BY <1>2 DEF PromInv
<1>3. ASSUME prom' # prom
      PROVE  Goal
  <2>1. Settable("input-device", num)
    BY <1>3 DEF canobj_reset_io
  <2>2. new = [prom EXCEPT !["input-device"] = T[num + 1]]
    BY <1>1, <2>1 DEF obp_setcan, obp_numtostr
  <2>3. CASE Settable("output-device", num)
    <3>1. prom' = obp_setcan(new, "output-device", num)
      BY <1>3, <2>3 DEF canobj_reset_io
    <3>2. prom' = [new EXCEPT !["output-device"] = T[num + 1]]
      BY <1>1, <2>3, <3>1 DEF obp_setcan, obp_numtostr
    <3> HIDE DEF T, new
    <3>3. PromInv'
      BY <2>2, <3>2 DEF PromInv
    <3>4. prom'["input-device"] = T[num + 1] /\ prom'["output-device"] = T[num + 1]
      BY <2>2, <3>2 DEF PromInv, Options, Devices
    <3> QED
      BY <3>3, <3>4
  <2>4. ASSUME ~Settable("output-device", num)
        PROVE  Goal
    <3> DEFINE n == obp_getcan("input-device")
    <3>1. prom' = obp_setcan(new, "input-device", n)
      BY <1>3, <2>4 DEF canobj_reset_io
    <3>2. ASSUME n # -1
          PROVE  prom' = prom
      <4>1. PICK i \in DOMAIN T : old = T[i]
        BY <1>1, <3>2 DEF obp_getcan, obp_strtonum
      <4>2. HasString(n, T) /\ obp_numtostr(n, T) = old
        BY <1>1, <4>1, DeviceTable DEF obp_getcan
      <4>3. Settable("input-device", n)
        BY <1>1, <2>1, <4>2 DEF Settable
      <4>4. prom' = [new EXCEPT !["input-device"] = old]
        BY <1>1, <3>1, <4>2, <4>3 DEF obp_setcan
      <4> HIDE DEF new, T, n
      <4> QED
        BY <2>2, <4>4 DEF PromInv, Options, Devices
    <3>3. PromInv'
      <4>1. \A p, option, m : p = [o \in Options |-> p[o]] =>
                obp_setcan(p, option, m) = [o \in Options |-> obp_setcan(p, option, m)[o]]
        BY DEF obp_setcan
      <4> HIDE DEF n
      <4> QED
        BY <3>1, <4>1 DEF PromInv
    <3> QED
      BY <3>2, <3>3
  <2> QED
    BY <2>3, <2>4
<1> QED
  BY <1>2, <1>3

(* RESET_IO sets input-device, then output-device, and undoes the first if *)
(* the second cannot be set: whatever strings a PROM has to begin with,    *)
(* whichever options it lacks or refuses and whatever numbers are written, *)
(* by however many tools, both become the same or both stay, unless the    *)
(* input device had a string without a number.                             *)
THEOREM ResetsWhole == Spec => ResetWhole
<1>1. Init => PromInv
  BY PromsAssumption DEF Init, ObjInit, PromInv
<1>2. PromInv /\ [Next]_vars =>
        /\ PromInv'
        /\ [\/ UNCHANGED prom
            \/ prom'["input-device"] = prom'["output-device"]
            \/ obp_getcan("input-device") = -1]_vars
  <2> SUFFICES ASSUME PromInv, [Next]_vars
               PROVE  /\ PromInv'
                      /\ \/ UNCHANGED prom
                         \/ prom'["input-device"] = prom'["output-device"]
                         \/ obp_getcan("input-device") = -1
    OBVIOUS
  <2>1. ASSUME UNCHANGED objVars PROVE PromInv' /\ UNCHANGED prom
    BY <2>1 DEF objVars, PromInv
  <2>2. ASSUME NEW n \in Nodes, Handle(n)
        PROVE  \E num : prom' = prom \/ prom' = canobj_reset_io(num)
    BY <2>2 DEF Handle, Written
  <2>3. ASSUME NEW t \in Tools, can_recv_ack_skip(t) \/ AlarmMissed(t) PROVE UNCHANGED objVars
    BY <2>3 DEF can_recv_ack_skip, AlarmMissed
  <2>4. ASSUME NEW t \in Pingers,
               canping_start(t) \/ canping_send(t) \/ canping_recv(t) \/ canping_timeout(t)
        PROVE  UNCHANGED objVars
    BY <2>4 DEF canping_start, canping_send, canping_recv, canping_timeout, NextPing
  <2>5. ASSUME NEW t \in Ctrls, canctrl_send(t) \/ canctrl_recv(t) \/ canctrl_timeout(t)
        PROVE  UNCHANGED objVars
    BY <2>5 DEF canctrl_send, canctrl_recv, canctrl_timeout, Done
  <2>6. ASSUME NEW n \in Nodes, deliver_pkt(n) \/ Lose(n) PROVE UNCHANGED objVars
    BY <2>6 DEF deliver_pkt, Lose
  <2>7. CASE UNCHANGED vars
    BY <2>1, <2>7 DEF vars
  <2>8. CASE \E num : prom' = prom \/ prom' = canobj_reset_io(num)
    BY <2>8, ResetAgrees DEF PromInv
  <2> QED
    BY <2>1, <2>2, <2>3, <2>4, <2>5, <2>6, <2>7, <2>8 DEF Next
<1> QED
  BY <1>1, <1>2, PTL DEF Spec, ResetWhole

-----------------------------------------------------------------------------
(* Where packets come from.  All tools ask the same node; what it answers  *)
(* goes to the node that asked, and there to every open file.              *)
Data == Int \cup Values
Objects(t) == IF t \in Pingers THEN {"TESTRW"} ELSE {a.object : a \in Asks[t]}
Senders == Tools \X Nat

Source(n, object, who) ==
    /\ At[who[1]] = n /\ object \in Objects(who[1])
    /\ who[1] \in Ctrls => who[2] = 0

AllObjects == UNION {Objects(t) : t \in Tools}
AllTypes == {"WO"} \cup UNION {{a.type : a \in Asks[t]} : t \in Ctrls}
AllGiven == {None} \cup UNION {{a.given : a \in Asks[t]} : t \in Ctrls}

RequestsFrom(n) ==
    {r \in [object : AllObjects, type : AllTypes, dat : Data, given : AllGiven, by : Senders] :
        Source(n, r.object, r.by)}
AnswersTo(n) ==
    {a \in [object : AllObjects, type : {"ACK", "NAK"}, dat : Data, to : Senders] :
        Source(n, a.object, a.to)}

ToolType ==
    /\ pc \in [Tools -> {"start", "send", "recv", "done"}]
    /\ seq \in [Pingers -> Nat] /\ obj_val \in Data
    /\ request = [t \in Tools |-> request[t]]
    /\ got = [t \in Tools |-> got[t]]
    /\ inq = [t \in Tools |-> inq[t]]
    /\ requests = [n \in Nodes |-> requests[n]]
    /\ answers = [n \in Nodes |-> answers[n]]
AsksItsObjects == \A t \in Tools : pc[t] = "recv" => request[t].object \in Objects(t)
QueuesKnown == \A t \in Tools : inq[t] \in Seq(AnswersTo(At[t]))
NetKnown ==
    \A n \in Nodes : requests[n] \in Seq(RequestsFrom(n)) /\ answers[n] \in Seq(AnswersTo(n))

ToolsInv == ToolType /\ AsksItsObjects /\ QueuesKnown /\ NetKnown

(* A string's number is a number, whether it is in the table or not ...    *)
LEMMA StrtonumType ==
    ASSUME NEW names, DOMAIN names \subseteq Int, NEW str
    PROVE  obp_strtonum(str, names) \in Int
<1>1. CASE \E i \in DOMAIN names : names[i] = str
  <2> DEFINE k == CHOOSE i \in DOMAIN names : names[i] = str
  <2>1. k \in DOMAIN names
    BY <1>1
  <2>2. obp_strtonum(str, names) = k - 1
    BY <1>1 DEF obp_strtonum
  <2> HIDE DEF k
  <2> QED
    BY <2>1, <2>2
<1>2. CASE ~\E i \in DOMAIN names : names[i] = str
  BY <1>2 DEF obp_strtonum
<1> QED
  BY <1>1, <1>2

(* ... so that every answer has an ACK or a NAK and a word of data. *)
LEMMA ReplyType ==
    ASSUME obj_val \in Data, NEW object, NEW type, NEW dat
    PROVE  canobj_packet(object, type, dat) \subseteq [type : {"ACK", "NAK"}, dat : Data]
<1> DEFINE R == [type : {"ACK", "NAK"}, dat : Data]
<1>1. \A v \in Data : Ack(v) \in R /\ Nak(v) \in R
  BY DEF Ack, Nak
<1>2. 0 \in Data /\ Values \subseteq Data /\ Int \subseteq Data
  BY DEF Data
<1>3. \A option \in {"auto-boot?", "boot-device", "input-device"} : obp_getcan(option) \in Data
  <2>1. /\ DOMAIN OBP_INPUT_DEVICE_VALUES \subseteq Int
        /\ DOMAIN OBP_BOOT_DEVICE_VALUES \subseteq Int
        /\ DOMAIN OBP_BOOLEAN \subseteq Int
    BY DEF OBP_INPUT_DEVICE_VALUES, OBP_BOOT_DEVICE_VALUES, OBP_BOOLEAN
  <2>2. /\ Table("input-device") = OBP_INPUT_DEVICE_VALUES
        /\ Table("boot-device") = OBP_BOOT_DEVICE_VALUES
        /\ Table("auto-boot?") = OBP_BOOLEAN
    BY DEF Table, Devices
  <2> QED
    BY <1>2, <2>1, <2>2, StrtonumType DEF obp_getcan
<1> HIDE DEF R
<1>4. \A option \in {"auto-boot?", "boot-device"} : OfOption(option) \subseteq R
  BY <1>1, <1>2, <1>3 DEF OfOption
<1>5. canobj_packet(object, type, dat) \subseteq R
  BY <1>1, <1>2, <1>3, <1>4 DEF canobj_packet
<1> QED
  BY <1>5 DEF R

(* The queues, when something is added or taken. *)
LEMMA QueueFacts ==
    ASSUME NEW S, NEW q \in Seq(S)
    PROVE  /\ \A m \in S : Append(q, m) \in Seq(S)
           /\ q # <<>> => Head(q) \in S /\ Tail(q) \in Seq(S)
<1>1. \A m \in S : Append(q, m) \in Seq(S)
  BY AppendProperties
<1>2. q # <<>> => Head(q) \in S /\ Tail(q) \in Seq(S)
  BY HeadTailProperties
<1> QED
  BY <1>1, <1>2

(* A tool is on a node. *)
LEMMA AtNode == \A t \in Tools : At[t] \in Nodes
BY DEF Nodes

(* A request that is sent is one of the tool's own. *)
LEMMA SendKnown ==
    ASSUME ToolsInv, NEW t \in Tools, NEW r \in RequestsFrom(At[t]), can_send(t, r),
           r.object \in Objects(t), UNCHANGED <<objVars, seq, inq, got, answers>>,
           NEW w \in {"recv", "done"}, pc' = [pc EXCEPT ![t] = w]
    PROVE  ToolsInv'
<1>1. ToolType /\ AsksItsObjects /\ QueuesKnown /\ NetKnown /\ At[t] \in Nodes
  BY AtNode DEF ToolsInv
<1>2. requests' = [requests EXCEPT ![At[t]] = Append(@, r)] /\ request' = [request EXCEPT ![t] = r]
  BY DEF can_send
<1>3. Append(requests[At[t]], r) \in Seq(RequestsFrom(At[t]))
  BY <1>1, QueueFacts DEF NetKnown
<1>4. ToolType'
  BY <1>1, <1>2 DEF ToolType, objVars
<1>5. NetKnown'
  BY <1>1, <1>2, <1>3 DEF NetKnown, ToolType
<1>6. AsksItsObjects'
  BY <1>1, <1>2 DEF AsksItsObjects, ToolType
<1>7. QueuesKnown'
  BY <1>1 DEF QueuesKnown
<1> QED
  BY <1>4, <1>5, <1>6, <1>7 DEF ToolsInv

(* The requests of canping and of canctrl. *)
LEMMA PingKnown ==
    ASSUME ToolsInv, NEW t \in Pingers, canping_send(t)
    PROVE  ToolsInv'
<1> DEFINE r == [object |-> "TESTRW", type |-> "WO", dat |-> seq[t], given |-> None,
                 by |-> <<t, seq[t]>>]
<1>1. t \in Tools /\ t \notin Ctrls /\ seq[t] \in Nat
  BY ToolsAssumption DEF Tools, ToolsInv, ToolType
<1>2. Objects(t) = {"TESTRW"} /\ "TESTRW" \in AllObjects
  BY <1>1 DEF Objects, AllObjects
<1>3. "WO" \in AllTypes /\ None \in AllGiven /\ seq[t] \in Data /\ <<t, seq[t]>> \in Senders
  BY <1>1 DEF AllTypes, AllGiven, Data, Senders
<1>4. Source(At[t], "TESTRW", <<t, seq[t]>>)
  BY <1>1, <1>2 DEF Source
<1>5. r \in RequestsFrom(At[t]) /\ r.object \in Objects(t)
  BY <1>2, <1>3, <1>4 DEF RequestsFrom
<1>6. can_send(t, r) /\ UNCHANGED <<objVars, seq, inq, got, answers>> /\ pc' = [pc EXCEPT ![t] = "recv"]
  BY DEF canping_send
<1> HIDE DEF r
<1> QED
  BY <1>1, <1>5, <1>6, SendKnown

(* ... with whatever arguments it is called. *)
LEMMA CtrlKnown ==
    ASSUME ToolsInv, NEW t \in Ctrls, canctrl_send(t)
    PROVE  ToolsInv'
<1>1. PICK a \in Asks[t] : \E dat \in Sscanf(a.given) :
        /\ can_send(t, [object |-> a.object, type |-> a.type, dat |-> dat,
                        given |-> a.given, by |-> <<t, 0>>])
        /\ \E w \in {"recv", "done"} : pc' = [pc EXCEPT ![t] = w]
  BY DEF canctrl_send
<1>2. PICK dat \in Sscanf(a.given) :
        /\ can_send(t, [object |-> a.object, type |-> a.type, dat |-> dat,
                        given |-> a.given, by |-> <<t, 0>>])
        /\ \E w \in {"recv", "done"} : pc' = [pc EXCEPT ![t] = w]
  BY <1>1
<1> DEFINE r == [object |-> a.object, type |-> a.type, dat |-> dat,
                 given |-> a.given, by |-> <<t, 0>>]
<1>3. t \in Tools /\ t \notin Pingers
  BY ToolsAssumption DEF Tools
<1>4. a.object \in Objects(t) /\ a.object \in AllObjects
  BY <1>3 DEF Objects, AllObjects
<1>5. a.type \in AllTypes /\ a.given \in AllGiven /\ dat \in Data /\ <<t, 0>> \in Senders
  BY <1>3 DEF AllTypes, AllGiven, Data, Sscanf, Senders
<1>6. Source(At[t], a.object, <<t, 0>>)
  BY <1>3, <1>4 DEF Source
<1>7. r \in RequestsFrom(At[t]) /\ r.object \in Objects(t)
  BY <1>4, <1>5, <1>6 DEF RequestsFrom
<1>8. UNCHANGED <<objVars, seq, inq, got, answers>>
  BY DEF canctrl_send
<1> HIDE DEF r
<1> QED
  BY <1>2, <1>3, <1>7, <1>8, SendKnown DEF r

(* The node's answer goes back to where the request came from. *)
LEMMA HandleKnown ==
    ASSUME ToolsInv, NEW n \in Nodes, Handle(n)
    PROVE  ToolsInv'
<1> DEFINE req == Head(requests[n])
<1>1. ToolType /\ AsksItsObjects /\ QueuesKnown /\ NetKnown
  BY DEF ToolsInv
<1>2. requests[n] # <<>> /\ requests' = [requests EXCEPT ![n] = Tail(@)]
  BY DEF Handle
<1>3. req \in RequestsFrom(n) /\ Tail(requests[n]) \in Seq(RequestsFrom(n))
  BY <1>1, <1>2, QueueFacts DEF NetKnown
<1>4. /\ req.object \in AllObjects /\ req.dat \in Data /\ req.by \in Senders
      /\ Source(n, req.object, req.by)
  BY <1>3 DEF RequestsFrom
<1>5. \/ UNCHANGED answers
      \/ \E r \in canobj_packet(req.object, req.type, req.dat) :
            answers' = [answers EXCEPT ![n] = Append(@,
                [object |-> req.object, type |-> r.type, dat |-> r.dat, to |-> req.by])]
  BY DEF Handle
<1>6. UNCHANGED <<pc, alarm, seq, request, inq, got>> /\ obj_val' \in {obj_val, req.dat}
  BY DEF Handle, Written
<1> HIDE DEF req
<1>7. \A r \in canobj_packet(req.object, req.type, req.dat) :
        r.type \in {"ACK", "NAK"} /\ r.dat \in Data
  BY <1>1, ReplyType DEF ToolType
<1>8. \/ UNCHANGED answers
      \/ \E a \in AnswersTo(n) : answers' = [answers EXCEPT ![n] = Append(@, a)]
  BY <1>4, <1>5, <1>7 DEF AnswersTo
<1>9. \A a \in AnswersTo(n) : Append(answers[n], a) \in Seq(AnswersTo(n))
  BY <1>1, QueueFacts DEF NetKnown
<1>10. ToolType'
  BY <1>1, <1>2, <1>4, <1>6, <1>8 DEF ToolType
<1>11. NetKnown'
  BY <1>1, <1>2, <1>3, <1>8, <1>9 DEF NetKnown, ToolType
<1>12. AsksItsObjects' /\ QueuesKnown'
  BY <1>1, <1>6 DEF AsksItsObjects, QueuesKnown
<1> QED
  BY <1>10, <1>11, <1>12 DEF ToolsInv

(* An answer reaches the open files of its node. *)
LEMMA DeliverKnown ==
    ASSUME ToolsInv, NEW n \in Nodes, deliver_pkt(n)
    PROVE  ToolsInv'
<1>1. ToolType /\ AsksItsObjects /\ QueuesKnown /\ NetKnown
  BY DEF ToolsInv
<1>2. /\ answers[n] # <<>> /\ answers' = [answers EXCEPT ![n] = Tail(@)]
      /\ inq' = [t \in Tools |-> IF At[t] = n /\ Opened(t)
                                 THEN Append(inq[t], Head(answers[n])) ELSE inq[t]]
      /\ UNCHANGED <<objVars, pc, alarm, seq, request, got, requests>>
  BY DEF deliver_pkt
<1>3. Head(answers[n]) \in AnswersTo(n) /\ Tail(answers[n]) \in Seq(AnswersTo(n))
  BY <1>1, <1>2, QueueFacts DEF NetKnown
<1>4. \A t \in Tools : At[t] = n => Append(inq[t], Head(answers[n])) \in Seq(AnswersTo(At[t]))
  BY <1>1, <1>3, QueueFacts DEF QueuesKnown
<1>5. ToolType'
  BY <1>1, <1>2 DEF ToolType, objVars
<1>6. NetKnown'
  BY <1>1, <1>2, <1>3 DEF NetKnown, ToolType
<1>7. QueuesKnown'
  BY <1>1, <1>2, <1>4 DEF QueuesKnown
<1>8. AsksItsObjects'
  BY <1>1, <1>2 DEF AsksItsObjects
<1> QED
  BY <1>5, <1>6, <1>7, <1>8 DEF ToolsInv

(* A tool takes an answer, skips one or gives up: it asks nothing, and its *)
(* queue gets shorter.                                                     *)
LEMMA QuietKnown ==
    ASSUME ToolsInv, NEW t \in Tools, UNCHANGED <<objVars, requests, answers>>,
           NEW w \in {"send", "recv", "done"}, pc' = [pc EXCEPT ![t] = w],
           w = "recv" => pc[t] = "recv" /\ UNCHANGED request,
           seq' \in [Pingers -> Nat], NEW x, got' = got \/ got' = [got EXCEPT ![t] = x],
           NEW y, request' = request \/ request' = [request EXCEPT ![t] = y],
           \/ UNCHANGED inq
           \/ inq' = [inq EXCEPT ![t] = <<>>]
           \/ inq[t] # <<>> /\ inq' = [inq EXCEPT ![t] = Tail(@)]
    PROVE  ToolsInv'
<1>1. ToolType /\ AsksItsObjects /\ QueuesKnown /\ NetKnown
  BY DEF ToolsInv
<1>2. /\ inq[t] # <<>> => Tail(inq[t]) \in Seq(AnswersTo(At[t]))
      /\ <<>> \in Seq(AnswersTo(At[t]))
  BY <1>1, QueueFacts, EmptySeq DEF QueuesKnown
<1>3. ToolType'
  BY <1>1 DEF ToolType, objVars
<1>4. QueuesKnown'
  BY <1>1, <1>2 DEF QueuesKnown, ToolType
<1>5. AsksItsObjects'
  BY <1>1 DEF AsksItsObjects, ToolType
<1>6. NetKnown'
  BY <1>1 DEF NetKnown
<1> QED
  BY <1>3, <1>4, <1>5, <1>6 DEF ToolsInv

(* Every step keeps packets where they belong. *)
LEMMA ToolsInvStep ==
    ASSUME ToolsInv, [Next]_vars
    PROVE  ToolsInv'
<1>0. ToolType /\ AsksItsObjects /\ QueuesKnown /\ NetKnown
  BY DEF ToolsInv
<1>1. ASSUME NEW t \in Pingers, canping_start(t) PROVE ToolsInv'
  <2>1. /\ t \in Tools /\ pc' = [pc EXCEPT ![t] = "send"]
        /\ UNCHANGED <<objVars, seq, request, inq, got, requests, answers>>
    BY <1>1 DEF canping_start, Tools
  <2> QED
    BY <1>0, <2>1, QuietKnown DEF ToolType
<1>2. ASSUME NEW t \in Pingers, canping_recv(t) \/ canping_timeout(t) PROVE ToolsInv'
  <2>1. /\ t \in Tools /\ pc' = [pc EXCEPT ![t] = "send"]
        /\ UNCHANGED <<objVars, requests, answers>>
        /\ request' = [request EXCEPT ![t] = NoRequest] /\ seq' = [seq EXCEPT ![t] = @ + 1]
    BY <1>2 DEF canping_recv, canping_timeout, NextPing, Tools
  <2>2. \E x : got' = got \/ got' = [got EXCEPT ![t] = x]
    BY <1>2 DEF canping_recv, canping_timeout, Takes
  <2>3. UNCHANGED inq \/ (inq[t] # <<>> /\ inq' = [inq EXCEPT ![t] = Tail(@)])
    BY <1>2 DEF canping_recv, canping_timeout, Takes
  <2>4. seq' \in [Pingers -> Nat]
    BY <1>0, <2>1 DEF ToolType
  <2> QED
    BY <2>1, <2>2, <2>3, <2>4, QuietKnown
<1>3. ASSUME NEW t \in Ctrls, canctrl_recv(t) \/ canctrl_timeout(t) PROVE ToolsInv'
  <2>1. /\ t \in Tools /\ pc' = [pc EXCEPT ![t] = "done"]
        /\ UNCHANGED <<objVars, seq, requests, answers>>
        /\ request' = [request EXCEPT ![t] = NoRequest] /\ inq' = [inq EXCEPT ![t] = <<>>]
    BY <1>3 DEF canctrl_recv, canctrl_timeout, Done, Tools
  <2>2. \E x : got' = got \/ got' = [got EXCEPT ![t] = x]
    BY <1>3 DEF canctrl_recv, canctrl_timeout, Takes
  <2>3. seq' \in [Pingers -> Nat]
    BY <1>0, <2>1 DEF ToolType
  <2> QED
    BY <2>1, <2>2, <2>3, QuietKnown
<1>4. ASSUME NEW t \in Tools, can_recv_ack_skip(t) \/ AlarmMissed(t) PROVE ToolsInv'
  <2>1. /\ pc[t] = "recv" /\ UNCHANGED <<objVars, pc, seq, request, got, requests, answers>>
        /\ UNCHANGED inq \/ (inq[t] # <<>> /\ inq' = [inq EXCEPT ![t] = Tail(@)])
    BY <1>4 DEF can_recv_ack_skip, AlarmMissed
  <2>2. pc' = [pc EXCEPT ![t] = "recv"] /\ seq' \in [Pingers -> Nat]
    BY <1>0, <2>1 DEF ToolType
  <2> QED
    BY <2>1, <2>2, QuietKnown
<1>5. ASSUME NEW n \in Nodes, Lose(n) PROVE ToolsInv'
  <2>1. UNCHANGED <<objVars, pc, alarm, seq, request, inq, got>>
    BY <1>5 DEF Lose
  <2>2. /\ requests[n] # <<>> => Tail(requests[n]) \in Seq(RequestsFrom(n))
        /\ answers[n] # <<>> => Tail(answers[n]) \in Seq(AnswersTo(n))
    BY <1>0, QueueFacts DEF NetKnown
  <2>3. \/ requests[n] # <<>> /\ requests' = [requests EXCEPT ![n] = Tail(@)] /\ UNCHANGED answers
        \/ answers[n] # <<>> /\ answers' = [answers EXCEPT ![n] = Tail(@)] /\ UNCHANGED requests
    BY <1>5 DEF Lose
  <2>4. NetKnown'
    BY <1>0, <2>2, <2>3 DEF NetKnown, ToolType
  <2>5. ToolType'
    BY <1>0, <2>1, <2>3 DEF ToolType, objVars
  <2> QED
    BY <1>0, <2>1, <2>4, <2>5 DEF ToolsInv, AsksItsObjects, QueuesKnown
<1>6. CASE UNCHANGED vars
  BY <1>0, <1>6 DEF vars, toolVars, objVars, ToolsInv, ToolType, AsksItsObjects, QueuesKnown, NetKnown
<1> QED
  BY <1>1, <1>2, <1>3, <1>4, <1>5, <1>6, PingKnown, CtrlKnown, HandleKnown, DeliverKnown DEF Next

(* Nothing is under way at the start. *)
LEMMA ToolsInvInit == Init => ToolsInv
<1> SUFFICES ASSUME Init PROVE ToolsInv
  OBVIOUS
<1>1. ToolType
  BY DEF Init, ObjInit, ToolType, Data
<1>2. QueuesKnown /\ NetKnown
  BY EmptySeq, AtNode DEF Init, QueuesKnown, NetKnown
<1>3. AsksItsObjects
  BY DEF Init, AsksItsObjects
<1> QED
  BY <1>1, <1>2, <1>3 DEF ToolsInv

(* The answer a tool takes for its own is for a tool on the same node, and *)
(* about an object that both ask for.                                      *)
LEMMA TakenFrom ==
    ASSUME ToolsInv, NEW t \in Tools, Takes(t)
    PROVE  LET pkt == Head(inq[t])
           IN  /\ got' = [got EXCEPT ![t] = [type |-> pkt.type, to |-> pkt.to,
                                             dat |-> IF t \in Pingers THEN pkt.dat ELSE 0,
                                             at |-> IF t \in Pingers THEN seq[t] ELSE 0]]
               /\ pkt.to \in Senders /\ Source(At[t], pkt.object, pkt.to)
               /\ pkt.object \in Objects(t)
               /\ pkt \in AnswersTo(At[t])
<1> DEFINE pkt == Head(inq[t])
<1>1. /\ pc[t] = "recv" /\ inq[t] # <<>> /\ pkt.object = request[t].object
      /\ got' = [got EXCEPT ![t] = [type |-> pkt.type, to |-> pkt.to,
                                    dat |-> IF t \in Pingers THEN pkt.dat ELSE 0,
                                    at |-> IF t \in Pingers THEN seq[t] ELSE 0]]
  BY DEF Takes, Matches
<1>2. pkt \in AnswersTo(At[t])
  BY <1>1, QueueFacts DEF ToolsInv, QueuesKnown
<1>3. pkt.to \in Senders /\ Source(At[t], pkt.object, pkt.to)
  BY <1>2 DEF AnswersTo
<1>4. pkt.object \in Objects(t)
  BY <1>1 DEF ToolsInv, AsksItsObjects
<1> QED
  BY <1>1, <1>2, <1>3, <1>4

-----------------------------------------------------------------------------
(* One canping, and nobody else asks about TESTRW. *)
PingsAlone ==
    /\ \A t, u \in Pingers : t = u
    /\ \A t \in Ctrls : "TESTRW" \notin Objects(t)

(* Its requests carry the numbers 0, 1, 2, ... in this order, and the      *)
(* object has the number of one before those that are still under way.     *)
PingRequest(r) ==
    r.object = "TESTRW" =>
        /\ r.type = "WO" /\ r.dat = r.by[2] /\ r.dat \in Nat
        /\ \A t \in Pingers : r.dat <= seq[t] /\ (pc[t] # "recv" => r.dat < seq[t])
        /\ obj_val < r.dat \/ (obj_val = 0 /\ r.dat = 0)
InOrder(q) ==
    \A i, j \in 1 .. Len(q) :
        i < j /\ q[i].object = "TESTRW" /\ q[j].object = "TESTRW" => q[i].dat < q[j].dat
PingsInOrder ==
    \A n \in Nodes :
        /\ \A i \in 1 .. Len(requests[n]) : PingRequest(requests[n][i])
        /\ InOrder(requests[n])
PingWritten ==
    /\ obj_val \in Nat
    /\ \A t \in Pingers :
        /\ obj_val <= seq[t]
        /\ pc[t] # "recv" => obj_val < seq[t] \/ (obj_val = 0 /\ seq[t] = 0)

(* The answer to number k has a smaller number, except for the first.      *)
PingAnswer(a) ==
    a.object = "TESTRW" =>
        /\ a.dat \in Nat /\ (IF a.to[2] = 0 THEN a.dat = 0 ELSE a.dat < a.to[2])
        /\ \A t \in Pingers : a.to[2] <= seq[t]
PingAnswersTo(n) == {a \in AnswersTo(n) : PingAnswer(a)}
PingsAnswered ==
    /\ \A n \in Nodes : answers[n] \in Seq(PingAnswersTo(n))
    /\ \A t \in Tools : inq[t] \in Seq(PingAnswersTo(At[t]))

PingInv == PingsInOrder /\ PingWritten /\ PingsAnswered

(* The places in a queue, when something is added or taken. *)
LEMMA QueuePlaces ==
    ASSUME NEW S, NEW q \in Seq(S)
    PROVE  /\ Len(q) \in Nat
           /\ \A m : /\ Len(Append(q, m)) = Len(q) + 1
                     /\ Append(q, m)[Len(q) + 1] = m
                     /\ \A i \in 1 .. Len(q) : Append(q, m)[i] = q[i]
           /\ q # <<>> => /\ 1 \in 1 .. Len(q) /\ Head(q) = q[1]
                          /\ Len(Tail(q)) = Len(q) - 1
                          /\ \A i \in 1 .. Len(Tail(q)) :
                                i + 1 \in 1 .. Len(q) /\ Tail(q)[i] = q[i + 1]
<1>1. Len(q) \in Nat
  BY LenProperties
<1>2. ASSUME NEW m
      PROVE  /\ Len(Append(q, m)) = Len(q) + 1
             /\ Append(q, m)[Len(q) + 1] = m
             /\ \A i \in 1 .. Len(q) : Append(q, m)[i] = q[i]
  BY <1>1
<1>3. ASSUME q # <<>>
      PROVE  /\ 1 \in 1 .. Len(q) /\ Head(q) = q[1]
             /\ Len(Tail(q)) = Len(q) - 1
             /\ \A i \in 1 .. Len(Tail(q)) : i + 1 \in 1 .. Len(q) /\ Tail(q)[i] = q[i + 1]
  BY <1>1, <1>3
<1> QED
  BY <1>1, <1>2, <1>3

(* A sequence over a set is one over a larger set. *)
LEMMA SeqLarger ==
    ASSUME NEW S, NEW T, S \subseteq T, NEW q \in Seq(S)
    PROVE  q \in Seq(T)
<1>1. \A i \in 1 .. Len(q) : q[i] \in T
  BY ElementOfSeq
<1>2. q = [i \in 1 .. Len(q) |-> q[i]] /\ Len(q) \in Nat
  BY LenProperties
<1> QED
  BY <1>1, <1>2

(* What the numbers of canping allow to say of its answers is not undone   *)
(* by a larger number.                                                     *)
LEMMA PingAnswersGrow ==
    ASSUME ToolsInv, seq' \in [Pingers -> Nat], \A t \in Pingers : seq[t] <= seq'[t], NEW n
    PROVE  \A q \in Seq(PingAnswersTo(n)) : q \in Seq(PingAnswersTo(n)')
<1>1. AnswersTo(n)' = AnswersTo(n)
  BY DEF AnswersTo, AllObjects, Data, Senders, Source, Objects, Tools
<1>2. \A a \in AnswersTo(n) : PingAnswer(a) => PingAnswer(a)'
  <2> SUFFICES ASSUME NEW a \in AnswersTo(n), PingAnswer(a), a.object = "TESTRW",
                      NEW t \in Pingers
               PROVE  a.to[2] <= seq'[t] /\ a.dat \in Nat /\ (IF a.to[2] = 0 THEN a.dat = 0 ELSE a.dat < a.to[2])
    BY DEF PingAnswer
  <2>1. a.to[2] \in Nat
    BY DEF AnswersTo, Senders
  <2>2. a.to[2] <= seq[t] /\ seq[t] \in Nat /\ seq'[t] \in Nat /\ seq[t] <= seq'[t]
    BY DEF PingAnswer, ToolsInv, ToolType
  <2> QED
    BY <2>1, <2>2 DEF PingAnswer
<1>3. PingAnswersTo(n) \subseteq PingAnswersTo(n)'
  BY <1>1, <1>2 DEF PingAnswersTo
<1> QED
  BY <1>3, SeqLarger

(* A TESTRW packet is canping's. *)
LEMMA PingSource ==
    ASSUME PingsAlone, NEW n, NEW who \in Senders, Source(n, "TESTRW", who)
    PROVE  who[1] \in Pingers /\ n = At[who[1]]
BY ToolsAssumption DEF PingsAlone, Senders, Source, Tools

(* What a step may do to canping's number: nothing, or the next ping.      *)
NumbersGrow ==
    /\ seq' \in [Pingers -> Nat]
    /\ \A t \in Pingers : \/ seq'[t] = seq[t] /\ (pc'[t] # "recv" => pc[t] # "recv")
                          \/ seq'[t] = seq[t] + 1

(* It then still is larger than what is under way ... *)
LEMMA PingRequestKept ==
    ASSUME ToolsInv, NumbersGrow, obj_val' = obj_val, NEW r, PingRequest(r)
    PROVE  PingRequest(r)'
<1> SUFFICES ASSUME r.object = "TESTRW" PROVE PingRequest(r)'
  BY DEF PingRequest
<1>1. /\ r.type = "WO" /\ r.dat = r.by[2] /\ r.dat \in Nat
      /\ obj_val < r.dat \/ (obj_val = 0 /\ r.dat = 0)
  BY DEF PingRequest
<1>2. ASSUME NEW t \in Pingers PROVE r.dat <= seq'[t] /\ (pc'[t] # "recv" => r.dat < seq'[t])
  <2>1. seq[t] \in Nat /\ seq'[t] \in Nat /\ r.dat <= seq[t] /\ (pc[t] # "recv" => r.dat < seq[t])
    BY DEF ToolsInv, ToolType, NumbersGrow, PingRequest
  <2> QED
    BY <1>1, <2>1 DEF NumbersGrow
<1> QED
  BY <1>1, <1>2 DEF PingRequest

(* ... and than what was written. *)
LEMMA PingWrittenKept ==
    ASSUME ToolsInv, NumbersGrow, obj_val' = obj_val, PingWritten
    PROVE  PingWritten'
<1>1. ASSUME NEW t \in Pingers
      PROVE  /\ obj_val <= seq'[t]
             /\ pc'[t] # "recv" => obj_val < seq'[t] \/ (obj_val = 0 /\ seq'[t] = 0)
  <2>1. /\ seq[t] \in Nat /\ seq'[t] \in Nat /\ obj_val \in Nat /\ obj_val <= seq[t]
        /\ pc[t] # "recv" => obj_val < seq[t] \/ (obj_val = 0 /\ seq[t] = 0)
    BY DEF ToolsInv, ToolType, NumbersGrow, PingWritten
  <2> QED
    BY <2>1 DEF NumbersGrow
<1> QED
  BY <1>1 DEF PingWritten

(* Steps that send and answer no ping: requests keep their order, or lose  *)
(* their first, or there is one more about another object.                 *)
LEMMA PingsKept ==
    ASSUME PingsAlone, ToolsInv, NumbersGrow, obj_val' = obj_val, PingInv, NEW n \in Nodes,
           \/ UNCHANGED requests
           \/ requests[n] # <<>> /\ requests' = [requests EXCEPT ![n] = Tail(@)]
           \/ \E r : r.object # "TESTRW" /\ requests' = [requests EXCEPT ![n] = Append(@, r)]
    PROVE  PingsInOrder' /\ PingWritten'
<1>0. requests[n] \in Seq(RequestsFrom(n)) /\ requests = [m \in Nodes |-> requests[m]]
  BY DEF ToolsInv, NetKnown, ToolType
<1>1. PingWritten'
  BY PingWrittenKept DEF PingInv
<1>2. \A m \in Nodes : /\ \A i \in 1 .. Len(requests[m]) : PingRequest(requests[m][i])
                       /\ InOrder(requests[m])
  BY DEF PingInv, PingsInOrder
<1>3. \A r : PingRequest(r) => PingRequest(r)'
  BY PingRequestKept
<1>4. CASE UNCHANGED requests
  <2>1. ASSUME NEW m \in Nodes
        PROVE  /\ \A i \in 1 .. Len(requests'[m]) : PingRequest(requests[m][i])'
               /\ InOrder(requests'[m])
    BY <1>2, <1>3, <1>4, <2>1
  <2> QED
    BY <1>1, <1>4, <2>1 DEF PingsInOrder, InOrder
<1>5. CASE requests[n] # <<>> /\ requests' = [requests EXCEPT ![n] = Tail(@)]
  <2> DEFINE q == requests[n]
  <2>1. /\ Len(q) \in Nat /\ Len(Tail(q)) = Len(q) - 1
        /\ \A i \in 1 .. Len(Tail(q)) : i + 1 \in 1 .. Len(q) /\ Tail(q)[i] = q[i + 1]
    BY <1>0, <1>5, QueuePlaces
  <2>2. requests'[n] = Tail(q) /\ \A m \in Nodes \ {n} : requests'[m] = requests[m]
    BY <1>0, <1>5
  <2>3. InOrder(Tail(q))
    BY <1>2, <2>1 DEF InOrder
  <2>4. \A i \in 1 .. Len(Tail(q)) : PingRequest(Tail(q)[i])
    BY <1>2, <2>1
  <2> HIDE DEF q
  <2>5. \A m \in Nodes : /\ \A i \in 1 .. Len(requests'[m]) : PingRequest(requests'[m][i])
                         /\ InOrder(requests'[m])
    BY <1>2, <2>2, <2>3, <2>4
  <2>6. \A m \in Nodes : /\ \A i \in 1 .. Len(requests[m])' : PingRequest(requests[m][i])'
                         /\ InOrder(requests[m])'
    BY <1>3, <2>5 DEF InOrder
  <2> QED
    BY <1>1, <2>6 DEF PingsInOrder
<1>6. ASSUME NEW r, r.object # "TESTRW", requests' = [requests EXCEPT ![n] = Append(@, r)]
      PROVE  PingsInOrder'
  <2> DEFINE q == requests[n]
  <2>1. /\ Len(q) \in Nat /\ Len(Append(q, r)) = Len(q) + 1 /\ Append(q, r)[Len(q) + 1] = r
        /\ \A i \in 1 .. Len(q) : Append(q, r)[i] = q[i]
    BY <1>0, QueuePlaces
  <2>2. requests'[n] = Append(q, r) /\ \A m \in Nodes \ {n} : requests'[m] = requests[m]
    BY <1>0, <1>6
  <2>3. \A i \in 1 .. Len(Append(q, r)) : i \in 1 .. Len(q) \/ i = Len(q) + 1
    BY <2>1
  <2>4. InOrder(Append(q, r))
    BY <1>2, <1>6, <2>1, <2>3 DEF InOrder
  <2>5. \A i \in 1 .. Len(Append(q, r)) : PingRequest(Append(q, r)[i])
    BY <1>2, <1>6, <2>1, <2>3 DEF PingRequest
  <2> HIDE DEF q
  <2>6. \A m \in Nodes : /\ \A i \in 1 .. Len(requests'[m]) : PingRequest(requests'[m][i])
                         /\ InOrder(requests'[m])
    BY <1>2, <2>2, <2>4, <2>5
  <2>7. \A m \in Nodes : /\ \A i \in 1 .. Len(requests[m])' : PingRequest(requests[m][i])'
                         /\ InOrder(requests[m])'
    BY <1>3, <2>6 DEF InOrder
  <2> QED
    BY <2>7 DEF PingsInOrder
<1> QED
  BY <1>1, <1>4, <1>5, <1>6

(* A ping goes out, with a larger number than those under way. *)
LEMMA PingSent ==
    ASSUME PingsAlone, ToolsInv, PingInv, NEW t \in Pingers, canping_send(t)
    PROVE  PingsInOrder' /\ PingWritten'
<1> DEFINE n == At[t]
           q == requests[n]
           r == [object |-> "TESTRW", type |-> "WO", dat |-> seq[t], given |-> None,
                 by |-> <<t, seq[t]>>]
<1>1. /\ pc[t] = "send" /\ requests' = [requests EXCEPT ![n] = Append(@, r)]
      /\ pc' = [pc EXCEPT ![t] = "recv"] /\ UNCHANGED <<obj_val, seq>>
  BY DEF canping_send, can_send, objVars
<1>2. t \in Tools /\ n \in Nodes /\ q \in Seq(RequestsFrom(n)) /\ seq[t] \in Nat
  BY AtNode DEF Tools, ToolsInv, NetKnown, ToolType
<1>3. \A u \in Pingers : u = t
  BY DEF PingsAlone
<1>4. pc'[t] = "recv"
  BY <1>1, <1>2 DEF ToolsInv, ToolType
<1>5. NumbersGrow
  BY <1>1, <1>3, <1>4 DEF NumbersGrow, ToolsInv, ToolType
<1>6. PingWritten'
  BY <1>1, <1>5, PingWrittenKept DEF PingInv
<1>7. \A x : PingRequest(x) => PingRequest(x)'
  BY <1>1, <1>5, PingRequestKept
<1>8. ASSUME NEW x, x = r PROVE PingRequest(x)'
  <2>1. x.object = "TESTRW" /\ x.type = "WO" /\ x.dat = seq[t] /\ x.by[2] = seq[t]
    BY <1>8
  <2>2. obj_val < seq[t] \/ (obj_val = 0 /\ seq[t] = 0)
    BY <1>1 DEF PingInv, PingWritten
  <2>3. x.dat <= seq'[t]
    BY <1>1, <1>2, <2>1
  <2> QED
    BY <1>1, <1>2, <1>3, <1>4, <2>1, <2>2, <2>3 DEF PingRequest
<1>9. \A m \in Nodes : /\ \A i \in 1 .. Len(requests[m]) : PingRequest(requests[m][i])
                       /\ InOrder(requests[m])
  BY DEF PingInv, PingsInOrder
<1>10. \A i \in 1 .. Len(q) : q[i].object = "TESTRW" => q[i].dat < seq[t]
  BY <1>1, <1>2, <1>9 DEF PingRequest
<1>11. /\ Len(q) \in Nat /\ Len(Append(q, r)) = Len(q) + 1 /\ Append(q, r)[Len(q) + 1] = r
       /\ \A i \in 1 .. Len(q) : Append(q, r)[i] = q[i]
  BY <1>2, QueuePlaces
<1>12. requests'[n] = Append(q, r) /\ \A m \in Nodes \ {n} : requests'[m] = requests[m]
  BY <1>1, <1>2 DEF ToolsInv, ToolType
<1>13. r.dat = seq[t]
  OBVIOUS
<1>14. InOrder(q)
  BY <1>2, <1>9
<1> HIDE DEF r, q, n
<1>15. \A i \in 1 .. Len(Append(q, r)) : i \in 1 .. Len(q) \/ i = Len(q) + 1
  BY <1>11
<1>16. InOrder(Append(q, r))
  <2> SUFFICES ASSUME NEW i \in 1 .. Len(Append(q, r)), NEW j \in 1 .. Len(Append(q, r)), i < j,
                      Append(q, r)[i].object = "TESTRW", Append(q, r)[j].object = "TESTRW"
               PROVE  Append(q, r)[i].dat < Append(q, r)[j].dat
    BY DEF InOrder
  <2>1. i \in 1 .. Len(q)
    BY <1>11, <1>15
  <2>2. CASE j \in 1 .. Len(q)
    BY <1>11, <1>14, <2>1, <2>2 DEF InOrder
  <2>3. CASE j = Len(q) + 1
    BY <1>10, <1>11, <1>13, <2>1, <2>3
  <2> QED
    BY <1>15, <2>2, <2>3
<1>17. ASSUME NEW i \in 1 .. Len(Append(q, r)), NEW x, x = Append(q, r)[i]
       PROVE  PingRequest(x)'
  <2>1. \A k \in 1 .. Len(q) : PingRequest(q[k])
    BY <1>2, <1>9 DEF q
  <2>2. CASE i \in 1 .. Len(q)
    <3>1. x = q[i]
      BY <1>11, <1>17, <2>2
    <3>2. PingRequest(x)
      BY <2>1, <2>2, <3>1
    <3> QED
      BY <1>7, <3>2
  <2>3. CASE i = Len(q) + 1
    <3>1. x = r
      BY <1>11, <1>17, <2>3
    <3> QED
      BY <1>8, <3>1
  <2> QED
    BY <1>15, <2>2, <2>3
<1>18. ASSUME NEW m \in Nodes
       PROVE  /\ \A i \in 1 .. Len(requests[m])' : PingRequest(requests[m][i])'
              /\ InOrder(requests[m])'
  <2>1. CASE m = n
    <3>1. \A i \in 1 .. Len(requests[n])' : PingRequest(requests[n][i])'
      BY <1>12, <1>17
    <3>2. InOrder(requests[n])'
      BY <1>12, <1>16 DEF InOrder
    <3> QED
      BY <2>1, <3>1, <3>2
  <2>2. CASE m # n
    <3>1. \A i \in 1 .. Len(requests[m])' : PingRequest(requests[m][i])'
      BY <1>7, <1>9, <1>12, <2>2
    <3>2. InOrder(requests[m])'
      BY <1>9, <1>12, <2>2 DEF InOrder
    <3> QED
      BY <3>1, <3>2
  <2> QED
    BY <2>1, <2>2
<1> QED
  BY <1>6, <1>18 DEF PingsInOrder

(* The node takes a request.  A ping finds a smaller number in the object  *)
(* and leaves its own, which is smaller than those that follow.            *)
LEMMA PingHandled ==
    ASSUME PingsAlone, ToolsInv, PingInv, NEW n \in Nodes, Handle(n)
    PROVE  PingsInOrder' /\ PingWritten'
<1> DEFINE q == requests[n]
           r == Head(q)
<1>0. /\ q # <<>> /\ requests' = [requests EXCEPT ![n] = Tail(@)] /\ UNCHANGED <<pc, seq>>
      /\ obj_val' = IF r.object = "TESTRW" /\ r.type = "WO" THEN r.dat ELSE obj_val
  BY DEF Handle, Written
<1>1. NumbersGrow
  BY <1>0 DEF NumbersGrow, ToolsInv, ToolType
<1>2. q \in Seq(RequestsFrom(n))
  BY DEF ToolsInv, NetKnown
<1>3. CASE r.object # "TESTRW"
  BY <1>0, <1>1, <1>3, PingsKept
<1>4. CASE r.object = "TESTRW"
  <2>1. /\ Len(q) \in Nat /\ 1 \in 1 .. Len(q) /\ r = q[1] /\ Len(Tail(q)) = Len(q) - 1
        /\ \A i \in 1 .. Len(Tail(q)) : i + 1 \in 1 .. Len(q) /\ Tail(q)[i] = q[i + 1]
    BY <1>0, <1>2, QueuePlaces
  <2>2. \A m \in Nodes : /\ \A i \in 1 .. Len(requests[m]) : PingRequest(requests[m][i])
                         /\ InOrder(requests[m])
    BY DEF PingInv, PingsInOrder
  <2>3. PingRequest(r) /\ obj_val' = r.dat /\ r.dat \in Nat
    BY <1>0, <1>4, <2>1, <2>2 DEF PingRequest
  <2>4. PingWritten'
    BY <1>0, <1>4, <2>3 DEF PingWritten, PingRequest
  <2>5. \A m \in Nodes \ {n} : \A i \in 1 .. Len(requests[m]) : requests[m][i].object # "TESTRW"
    <3> SUFFICES ASSUME NEW m \in Nodes \ {n}, NEW i \in 1 .. Len(requests[m]),
                        requests[m][i].object = "TESTRW"
                 PROVE  FALSE
      OBVIOUS
    <3>1. requests[m][i] \in RequestsFrom(m) /\ r \in RequestsFrom(n)
      BY <1>2, <2>1, ElementOfSeq DEF ToolsInv, NetKnown
    <3>2. /\ requests[m][i].by[1] \in Pingers /\ m = At[requests[m][i].by[1]]
          /\ r.by[1] \in Pingers /\ n = At[r.by[1]]
      BY <1>4, <3>1, PingSource DEF RequestsFrom
    <3> QED
      BY <3>2 DEF PingsAlone
  <2>6. requests'[n] = Tail(q) /\ \A m \in Nodes \ {n} : requests'[m] = requests[m]
    BY <1>0 DEF ToolsInv, ToolType
  <2>7. InOrder(q)
    BY <2>2
  <2> HIDE DEF q, r
  <2>8. \A i \in 1 .. Len(Tail(q)) : Tail(q)[i].object = "TESTRW" => r.dat < Tail(q)[i].dat
    BY <1>4, <2>1, <2>7 DEF InOrder
  <2>9. InOrder(Tail(q))
    BY <2>1, <2>7 DEF InOrder
  <2>10. ASSUME NEW i \in 1 .. Len(Tail(q)), NEW x, x = Tail(q)[i] PROVE PingRequest(x)'
    <3>1. PingRequest(x)
      BY <2>1, <2>2, <2>10 DEF q
    <3> QED
      BY <1>0, <2>3, <2>8, <2>10, <3>1 DEF PingRequest
  <2>11. ASSUME NEW m \in Nodes
         PROVE  /\ \A i \in 1 .. Len(requests[m])' : PingRequest(requests[m][i])'
                /\ InOrder(requests[m])'
    <3>1. CASE m = n
      <4>1. \A i \in 1 .. Len(requests[n])' : PingRequest(requests[n][i])'
        BY <2>6, <2>10
      <4>2. InOrder(requests[n])'
        BY <2>6, <2>9 DEF InOrder
      <4> QED
        BY <3>1, <4>1, <4>2
    <3>2. CASE m # n
      BY <2>2, <2>5, <2>6, <3>2 DEF PingRequest, InOrder
    <3> QED
      BY <3>1, <3>2
  <2> QED
    BY <2>4, <2>11 DEF PingsInOrder
<1> QED
  BY <1>3, <1>4

(* Answers that are delivered, taken, skipped or lost. *)
LEMMA AnswersKept ==
    ASSUME ToolsInv, NumbersGrow, PingsAnswered,
           \A n \in Nodes : answers'[n] \in Seq(PingAnswersTo(n)),
           \A t \in Tools : inq'[t] \in Seq(PingAnswersTo(At[t]))
    PROVE  PingsAnswered'
<1>1. \A t \in Pingers : seq[t] <= seq'[t]
  BY DEF NumbersGrow, ToolsInv, ToolType
<1>2. seq' \in [Pingers -> Nat]
  BY DEF NumbersGrow
<1>3. ASSUME NEW n \in Nodes PROVE answers'[n] \in Seq(PingAnswersTo(n)')
  BY <1>1, <1>2, PingAnswersGrow
<1>4. ASSUME NEW t \in Tools PROVE inq'[t] \in Seq(PingAnswersTo(At[t])')
  BY <1>1, <1>2, PingAnswersGrow
<1> QED
  BY <1>3, <1>4 DEF PingsAnswered

(* The answer to a ping: the object still had a smaller number, or the     *)
(* first ping found the 0 that was there.                                  *)
LEMMA AnswersHandled ==
    ASSUME PingsAlone, ToolsInv, PingInv, NEW n \in Nodes, Handle(n)
    PROVE  PingsAnswered'
<1> DEFINE r == Head(requests[n])
<1>0. /\ requests[n] # <<>> /\ UNCHANGED <<pc, seq, inq>>
      /\ \/ UNCHANGED answers
         \/ \E y \in canobj_packet(r.object, r.type, r.dat) :
                answers' = [answers EXCEPT ![n] = Append(@,
                    [object |-> r.object, type |-> y.type, dat |-> y.dat, to |-> r.by])]
  BY DEF Handle
<1>1. NumbersGrow /\ obj_val \in Data
  BY <1>0 DEF NumbersGrow, ToolsInv, ToolType
<1>2. requests[n] \in Seq(RequestsFrom(n)) /\ r \in RequestsFrom(n) /\ PingRequest(r)
  <2>1. requests[n] \in Seq(RequestsFrom(n))
    BY DEF ToolsInv, NetKnown
  <2>2. 1 \in 1 .. Len(requests[n]) /\ r = requests[n][1]
    BY <1>0, <2>1, QueuePlaces
  <2>3. PingRequest(requests[n][1])
    BY <2>2 DEF PingInv, PingsInOrder
  <2> QED
    BY <1>0, <2>1, <2>2, <2>3, QueueFacts
<1>3. ASSUME NEW y \in canobj_packet(r.object, r.type, r.dat)
      PROVE  [object |-> r.object, type |-> y.type, dat |-> y.dat, to |-> r.by] \in PingAnswersTo(n)
  <2> DEFINE a == [object |-> r.object, type |-> y.type, dat |-> y.dat, to |-> r.by]
  <2>1. y.type \in {"ACK", "NAK"} /\ y.dat \in Data
    BY <1>1, ReplyType
  <2>2. a \in AnswersTo(n)
    BY <1>2, <2>1 DEF RequestsFrom, AnswersTo
  <2>3. ASSUME r.object = "TESTRW" PROVE PingAnswer(a)
    <3>1. /\ r.type = "WO" /\ r.dat = r.by[2] /\ r.dat \in Nat
          /\ \A t \in Pingers : r.dat <= seq[t]
          /\ obj_val < r.dat \/ (obj_val = 0 /\ r.dat = 0)
      BY <1>2, <2>3 DEF PingRequest
    <3>2. canobj_packet(r.object, r.type, r.dat) = {Ack(obj_val)}
      BY <2>3, <3>1 DEF canobj_packet
    <3>3. y.dat = obj_val /\ obj_val \in Nat
      BY <3>2 DEF Ack, PingInv, PingWritten
    <3>4. a.dat = obj_val /\ a.to[2] = r.dat
      BY <3>1, <3>3
    <3> HIDE DEF a, r
    <3> QED
      BY <3>1, <3>3, <3>4 DEF PingAnswer
  <2>4. PingAnswer(a)
    BY <2>3 DEF PingAnswer
  <2> QED
    BY <2>2, <2>4 DEF PingAnswersTo
<1> HIDE DEF r
<1>4. \/ UNCHANGED answers
      \/ \E a \in PingAnswersTo(n) : answers' = [answers EXCEPT ![n] = Append(@, a)]
  BY <1>0, <1>3
<1>5. \A a \in PingAnswersTo(n) : Append(answers[n], a) \in Seq(PingAnswersTo(n))
  BY QueueFacts DEF PingInv, PingsAnswered
<1>6. \A m \in Nodes : answers'[m] \in Seq(PingAnswersTo(m))
  BY <1>4, <1>5 DEF ToolsInv, ToolType, PingInv, PingsAnswered
<1>7. \A t \in Tools : inq'[t] \in Seq(PingAnswersTo(At[t]))
  BY <1>0 DEF PingInv, PingsAnswered
<1> QED
  BY <1>1, <1>6, <1>7, AnswersKept DEF PingInv

(* A tool that takes from its queue, or sends: numbers go up by one or     *)
(* stay, answers get fewer.                                                *)
LEMMA QuietPings ==
    ASSUME PingsAlone, ToolsInv, PingInv, NEW t \in Tools, UNCHANGED <<obj_val, answers>>,
           UNCHANGED requests \/ \E r : r.object # "TESTRW" /\
                                        requests' = [requests EXCEPT ![At[t]] = Append(@, r)],
           NumbersGrow,
           \/ UNCHANGED inq
           \/ inq' = [inq EXCEPT ![t] = <<>>]
           \/ inq[t] # <<>> /\ inq' = [inq EXCEPT ![t] = Tail(@)]
    PROVE  PingInv'
<1>1. PingsInOrder' /\ PingWritten'
  BY AtNode, PingsKept
<1>2. /\ inq[t] # <<>> => Tail(inq[t]) \in Seq(PingAnswersTo(At[t]))
      /\ <<>> \in Seq(PingAnswersTo(At[t]))
  BY QueueFacts, EmptySeq DEF PingInv, PingsAnswered
<1>3. \A u \in Tools : inq'[u] \in Seq(PingAnswersTo(At[u]))
  BY <1>2 DEF ToolsInv, ToolType, PingInv, PingsAnswered
<1>4. PingsAnswered'
  BY <1>3, AnswersKept DEF PingInv, PingsAnswered
<1> QED
  BY <1>1, <1>4 DEF PingInv

(* Every step keeps the numbers in order. *)
LEMMA PingInvStep ==
    ASSUME PingsAlone, ToolsInv, PingInv, [Next]_vars
    PROVE  PingInv'
<1>0. \A t, u \in Pingers : t = u
  BY DEF PingsAlone
<1>g. ASSUME UNCHANGED <<pc, seq>> PROVE NumbersGrow
  BY <1>g DEF NumbersGrow, ToolsInv, ToolType
<1>1. ASSUME NEW t \in Pingers, canping_start(t) PROVE PingInv'
  <2>1. /\ t \in Tools /\ pc[t] = "start" /\ UNCHANGED <<obj_val, seq, inq, requests, answers>>
    BY <1>1 DEF canping_start, Tools, objVars
  <2>2. NumbersGrow
    BY <1>0, <2>1 DEF NumbersGrow, ToolsInv, ToolType
  <2> QED
    BY <2>1, <2>2, QuietPings
<1>2. ASSUME NEW t \in Pingers, canping_send(t) PROVE PingInv'
  <2>1. UNCHANGED <<seq, inq, answers>> /\ t \in Tools /\ pc' = [pc EXCEPT ![t] = "recv"]
    BY <1>2 DEF canping_send, Tools
  <2>2. NumbersGrow
    BY <1>0, <2>1 DEF NumbersGrow, ToolsInv, ToolType
  <2>3. PingsAnswered'
    BY <2>1, <2>2, AnswersKept DEF PingInv, PingsAnswered
  <2> QED
    BY <1>2, <2>3, PingSent DEF PingInv
<1>3. ASSUME NEW t \in Pingers, canping_recv(t) \/ canping_timeout(t) PROVE PingInv'
  <2>1. /\ t \in Tools /\ UNCHANGED <<obj_val, requests, answers>> /\ seq' = [seq EXCEPT ![t] = @ + 1]
        /\ UNCHANGED inq \/ (inq[t] # <<>> /\ inq' = [inq EXCEPT ![t] = Tail(@)])
    BY <1>3 DEF canping_recv, canping_timeout, NextPing, Takes, Tools, objVars
  <2>2. NumbersGrow
    BY <1>0, <2>1 DEF NumbersGrow, ToolsInv, ToolType
  <2> QED
    BY <2>1, <2>2, QuietPings
<1>4. ASSUME NEW t \in Ctrls, canctrl_send(t) PROVE PingInv'
  <2>1. t \in Tools /\ t \notin Pingers /\ UNCHANGED <<obj_val, seq, inq, answers>>
    BY <1>4, ToolsAssumption DEF canctrl_send, Tools, objVars
  <2>2. \E w : pc' = [pc EXCEPT ![t] = w]
    BY <1>4 DEF canctrl_send
  <2>3. NumbersGrow
    BY <2>1, <2>2 DEF NumbersGrow, ToolsInv, ToolType, Tools
  <2>4. \E r : r.object # "TESTRW" /\ requests' = [requests EXCEPT ![At[t]] = Append(@, r)]
    <3>1. PICK a \in Asks[t] : \E dat \in Sscanf(a.given) :
            can_send(t, [object |-> a.object, type |-> a.type, dat |-> dat,
                         given |-> a.given, by |-> <<t, 0>>])
      BY <1>4 DEF canctrl_send
    <3>2. a.object \in Objects(t)
      BY <2>1, <3>1 DEF Objects
    <3>3. a.object # "TESTRW"
      BY <3>2 DEF PingsAlone
    <3> QED
      BY <3>1, <3>3 DEF can_send
  <2> QED
    BY <2>1, <2>3, <2>4, QuietPings
<1>5. ASSUME NEW t \in Ctrls, canctrl_recv(t) \/ canctrl_timeout(t) PROVE PingInv'
  <2>1. /\ t \in Tools /\ t \notin Pingers /\ UNCHANGED <<obj_val, seq, requests, answers>>
        /\ inq' = [inq EXCEPT ![t] = <<>>] /\ pc' = [pc EXCEPT ![t] = "done"]
    BY <1>5, ToolsAssumption DEF canctrl_recv, canctrl_timeout, Done, Tools, objVars
  <2>2. NumbersGrow
    BY <2>1 DEF NumbersGrow, ToolsInv, ToolType, Tools
  <2> QED
    BY <2>1, <2>2, QuietPings
<1>6. ASSUME NEW t \in Tools, can_recv_ack_skip(t) \/ AlarmMissed(t) PROVE PingInv'
  <2>1. /\ UNCHANGED <<obj_val, pc, seq, requests, answers>>
        /\ UNCHANGED inq \/ (inq[t] # <<>> /\ inq' = [inq EXCEPT ![t] = Tail(@)])
    BY <1>6 DEF can_recv_ack_skip, AlarmMissed, objVars
  <2> QED
    BY <1>g, <2>1, QuietPings
<1>7. ASSUME NEW n \in Nodes, Handle(n) PROVE PingInv'
  BY <1>7, PingHandled, AnswersHandled DEF PingInv
<1>8. ASSUME NEW n \in Nodes, deliver_pkt(n) PROVE PingInv'
  <2>1. /\ answers[n] # <<>> /\ answers' = [answers EXCEPT ![n] = Tail(@)]
        /\ inq' = [t \in Tools |-> IF At[t] = n /\ Opened(t)
                                   THEN Append(inq[t], Head(answers[n])) ELSE inq[t]]
        /\ UNCHANGED <<obj_val, pc, seq, requests>>
    BY <1>8 DEF deliver_pkt, objVars
  <2>2. Head(answers[n]) \in PingAnswersTo(n) /\ Tail(answers[n]) \in Seq(PingAnswersTo(n))
    BY <2>1, QueueFacts DEF PingInv, PingsAnswered
  <2>3. \A t \in Tools : At[t] = n => Append(inq[t], Head(answers[n])) \in Seq(PingAnswersTo(At[t]))
    BY <2>2, QueueFacts DEF PingInv, PingsAnswered
  <2>4. \A t \in Tools : inq'[t] \in Seq(PingAnswersTo(At[t]))
    BY <2>1, <2>3 DEF PingInv, PingsAnswered
  <2>5. \A m \in Nodes : answers'[m] \in Seq(PingAnswersTo(m))
    BY <2>1, <2>2 DEF PingInv, PingsAnswered, ToolsInv, ToolType
  <2>6. PingsAnswered'
    BY <1>g, <2>1, <2>4, <2>5, AnswersKept DEF PingInv
  <2> QED
    BY <1>g, <2>1, <2>6, PingsKept DEF PingInv
<1>9. ASSUME NEW n \in Nodes, Lose(n) PROVE PingInv'
  <2>1. /\ UNCHANGED <<obj_val, pc, seq, inq>>
        /\ \/ requests[n] # <<>> /\ requests' = [requests EXCEPT ![n] = Tail(@)] /\ UNCHANGED answers
           \/ answers[n] # <<>> /\ answers' = [answers EXCEPT ![n] = Tail(@)] /\ UNCHANGED requests
    BY <1>9 DEF Lose, objVars
  <2>2. answers[n] # <<>> => Tail(answers[n]) \in Seq(PingAnswersTo(n))
    BY QueueFacts DEF PingInv, PingsAnswered
  <2>3. \A m \in Nodes : answers'[m] \in Seq(PingAnswersTo(m))
    BY <2>1, <2>2 DEF PingInv, PingsAnswered, ToolsInv, ToolType
  <2>4. \A t \in Tools : inq'[t] \in Seq(PingAnswersTo(At[t]))
    BY <2>1 DEF PingInv, PingsAnswered
  <2>5. PingsAnswered'
    BY <1>g, <2>1, <2>3, <2>4, AnswersKept DEF PingInv
  <2> QED
    BY <1>g, <2>1, <2>5, PingsKept DEF PingInv
<1>10. CASE UNCHANGED vars
  BY <1>10 DEF vars, toolVars, objVars, PingInv, PingsInOrder, PingRequest, InOrder, PingWritten,
               PingsAnswered, PingAnswersTo, PingAnswer
<1> QED
  BY <1>1, <1>2, <1>3, <1>4, <1>5, <1>6, <1>7, <1>8, <1>9, <1>10 DEF Next

(* Nothing is under way at the start, and the object has 0. *)
LEMMA PingInvInit == Init => PingInv
<1> SUFFICES ASSUME Init PROVE PingInv
  OBVIOUS
<1>1. PingsAnswered
  BY EmptySeq DEF Init, PingsAnswered
<1>2. PingWritten
  BY DEF Init, ObjInit, PingWritten
<1>3. PingsInOrder
  <2>1. \A n \in Nodes : requests[n] = <<>> /\ Len(requests[n]) = 0
    BY DEF Init
  <2> QED
    BY <2>1 DEF PingsInOrder, InOrder
<1> QED
  BY <1>1, <1>2, <1>3 DEF PingInv

(* canping writes 0, 1, 2, ... and is answered with what was there before, *)
(* so it can tell, without the answer saying so, which ping was answered:  *)
(* from the third on, an answer it does not complain about is the answer   *)
(* to that ping, whatever is late or lost, for any number of pings, if no  *)
(* other tool asks about TESTRW.                                           *)
THEOREM SilentAnswersOwn ==
    ASSUME PingsAlone
    PROVE  Spec => []SilentAnswerIsOwn
<1>1. Init => SilentAnswerIsOwn
  BY DEF Init, SilentAnswerIsOwn, Tools
<1>2. ToolsInv /\ PingInv /\ SilentAnswerIsOwn /\ [Next]_vars => SilentAnswerIsOwn'
  <2> SUFFICES ASSUME ToolsInv, PingInv, SilentAnswerIsOwn, [Next]_vars PROVE SilentAnswerIsOwn'
    OBVIOUS
  <2>1. ASSUME UNCHANGED got PROVE SilentAnswerIsOwn'
    BY <2>1 DEF SilentAnswerIsOwn
  <2>2. ASSUME NEW t \in Pingers, canping_recv(t) PROVE SilentAnswerIsOwn'
    <3>1. Takes(t) /\ t \in Tools /\ \A u \in Pingers : u = t
      BY <2>2 DEF canping_recv, Tools, PingsAlone
    <3> DEFINE pkt == Head(inq[t])
    <3>2. /\ pkt.to \in Senders /\ Source(At[t], pkt.object, pkt.to) /\ pkt.object \in Objects(t)
          /\ \E x : x.to = pkt.to /\ x.dat = pkt.dat /\ x.at = seq[t] /\ got' = [got EXCEPT ![t] = x]
      BY <2>2, <3>1, TakenFrom
    <3>3. pkt.object = "TESTRW"
      BY <2>2, <3>2 DEF Objects
    <3>4. PingAnswer(pkt)
      <4>1. inq[t] # <<>> /\ inq[t] \in Seq(PingAnswersTo(At[t]))
        BY <3>1 DEF Takes, PingInv, PingsAnswered
      <4>2. pkt \in PingAnswersTo(At[t])
        BY <4>1, QueueFacts
      <4> QED
        BY <4>2 DEF PingAnswersTo
    <3> HIDE DEF pkt
    <3>5. pkt.to[1] = t /\ pkt.to = <<pkt.to[1], pkt.to[2]>> /\ pkt.to[2] \in Nat
      BY <3>1, <3>2, <3>3, PingSource DEF Senders
    <3>6. /\ pkt.dat \in Nat /\ pkt.to[2] <= seq[t] /\ seq[t] \in Nat
          /\ IF pkt.to[2] = 0 THEN pkt.dat = 0 ELSE pkt.dat < pkt.to[2]
      BY <3>3, <3>4 DEF PingAnswer, ToolsInv, ToolType
    <3>7. seq[t] > 1 /\ pkt.dat = seq[t] - 1 => pkt.to[2] = seq[t]
      BY <3>5, <3>6
    <3>8. got'[t].to = pkt.to /\ got'[t].dat = pkt.dat /\ got'[t].at = seq[t]
      BY <3>1, <3>2 DEF ToolsInv, ToolType
    <3>9. got'[t].at > 1 /\ ~Complaint(got'[t].dat, got'[t].at) => got'[t].to = <<t, got'[t].at>>
      BY <3>5, <3>7, <3>8 DEF Complaint
    <3> QED
      BY <3>1, <3>9 DEF SilentAnswerIsOwn, Complaint
  <2>3. ASSUME NEW t \in Ctrls, canctrl_recv(t) PROVE SilentAnswerIsOwn'
    <3>1. \E x : got' = [got EXCEPT ![t] = x]
      BY <2>3 DEF canctrl_recv, Takes
    <3>2. \A u \in Pingers : got'[u] = got[u]
      BY <3>1, ToolsAssumption DEF ToolsInv, ToolType, Tools
    <3> QED
      BY <3>2 DEF SilentAnswerIsOwn, Complaint
  <2>4. ASSUME NEW t \in Pingers, canping_start(t) \/ canping_send(t) \/ canping_timeout(t)
        PROVE  UNCHANGED got
    BY <2>4 DEF canping_start, canping_send, canping_timeout
  <2>5. ASSUME NEW t \in Ctrls, canctrl_send(t) \/ canctrl_timeout(t) PROVE UNCHANGED got
    BY <2>5 DEF canctrl_send, canctrl_timeout
  <2>6. ASSUME NEW t \in Tools, can_recv_ack_skip(t) \/ AlarmMissed(t) PROVE UNCHANGED got
    BY <2>6 DEF can_recv_ack_skip, AlarmMissed
  <2>7. ASSUME NEW n \in Nodes, Handle(n) \/ deliver_pkt(n) \/ Lose(n) PROVE UNCHANGED got
    BY <2>7 DEF Handle, deliver_pkt, Lose
  <2>8. CASE UNCHANGED vars
    BY <2>1, <2>8 DEF vars, toolVars
  <2> QED
    BY <2>1, <2>2, <2>3, <2>4, <2>5, <2>6, <2>7, <2>8 DEF Next
<1>3. ToolsInv /\ [Next]_vars => ToolsInv'
  BY ToolsInvStep
<1>4. ToolsInv /\ PingInv /\ [Next]_vars => PingInv'
  BY PingInvStep
<1> QED
  BY <1>1, <1>2, <1>3, <1>4, ToolsInvInit, PingInvInit, PTL DEF Spec

=============================================================================
