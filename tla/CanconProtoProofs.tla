------------------------- MODULE CanconProtoProofs -------------------------
(***************************************************************************)
(* What holds of the console protocol for any number of cancons, retries   *)
(* and queue sizes, and whatever the network and reboots do.               *)
(***************************************************************************)
EXTENDS CanconProto, SequenceTheorems, TLAPS

(* The answer to a request: the node's state is left alone, or a change of *)
(* the owner is under way on behalf of the cancon that asked.              *)
LEMMA PacketFacts ==
    ASSUME NEW c \in Clients, canobj_packet(c)
    PROVE  UNCHANGED node \/ saving' = c
<1>1. CASE Head(req[c]) \in Disconns
    BY <1>1 DEF canobj_packet, canobj_disconnect, cancon_setcon
<1>2. CASE Head(req[c]) \notin Disconns
    BY <1>2 DEF canobj_packet, canobj_connect, cancon_setcon
<1>3. QED BY <1>1, <1>2

(* Only the node changes its own state: every step of a cancon or of the   *)
(* network leaves cancon_rmt, cancon_host and saving alone.                *)
LEMMA OthersKeepNode ==
    ASSUME NEW c \in Clients,
           main(c) \/ ClientStep(c) \/ quit(c) \/ sigterm(c) \/ force_disconn(c) \/ Lose(c)
    PROVE  UNCHANGED node
BY DEF main, ClientStep, ThreadStep, waitfor_acknak, waitfor_timedout, disconnect, quit, sigterm,
       force_disconn, Lose

(* What the history says of the PROM: outside of a handler it has the      *)
(* owner, unless it has refused it.                                        *)
PromAgrees == saving = None /\ prom = "current" => cancon_host = cancon_rmt

LEMMA PromAgreesStep ==
    ASSUME PromAgrees, [Next]_vars
    PROVE  PromAgrees'
<1>1. ASSUME NEW c \in Clients, canobj_packet(c) PROVE PromAgrees'
    BY <1>1, PacketFacts, NoneAssumption DEF PromAgrees, node
<1>2. ASSUME NEW c \in Clients,
             main(c) \/ ClientStep(c) \/ quit(c) \/ sigterm(c) \/ force_disconn(c) \/ Lose(c)
      PROVE  PromAgrees'
    BY <1>2, OthersKeepNode DEF PromAgrees, node
<1>3. CASE canobj_cancon_host
    BY <1>3 DEF canobj_cancon_host, PromAgrees
<1>4. CASE canobj_init
    BY <1>4 DEF canobj_init, PromAgrees
<1>5. CASE UNCHANGED vars
    BY <1>5 DEF vars, PromAgrees
<1>6. QED BY <1>1, <1>2, <1>3, <1>4, <1>5 DEF Next, Network

-----------------------------------------------------------------------------
(* Types.  TypeOK says nothing of what is in the queues; what a thread does *)
(* next depends on it.                                                     *)
Queue(S) == {q \in Seq(S) : Len(q) <= MaxQ}
Owners == Clients \cup {None}
Answers == [object : {"CONSOLE_CONNECT", "CONSOLE_DISCONN", "FORCE_DISCONN"},
            type : {"ACK", "NAK"}, dat : Owners]

NodeType ==
    /\ cancon_rmt \in Owners /\ cancon_host \in Owners /\ saving \in Owners
    /\ prom \in {"current", "stale", "lapsed"}
AnsType == ans \in [Clients -> Queue(Answers)]
ThreadType ==
    /\ req \in [Clients -> Queue(Exchanges)]
    /\ forced \in [Clients -> Queue(Clients)]
    /\ at \in [Clients -> [Threads -> Exchanges \cup {"none", "up", "stopping"}]]
    /\ try \in [Clients -> [Threads -> 0 .. MAX_RETRIES]]
ProcType ==
    /\ polls \in [Clients -> 0 .. HEIST_POLLS - 1]
    /\ alive \in [Clients -> {"new", "live", "exited"}]
ProtoType == NodeType /\ AnsType /\ ThreadType /\ ProcType

(* A packet that is sent fits the queue, or is dropped. *)
LEMMA PushType ==
    ASSUME NEW S, NEW q \in Queue(S), NEW m \in S
    PROVE  Push(q, m) \in Queue(S)
BY BoundsAssumption DEF Push, Queue

(* Taking the first packet, or the first k. *)
LEMMA ShortenType ==
    ASSUME NEW S, NEW q \in Queue(S)
    PROVE  /\ q # <<>> => Tail(q) \in Queue(S) /\ Head(q) \in S
           /\ \A k \in 1 .. Len(q) : SubSeq(q, k + 1, Len(q)) \in Queue(S)
<1>1. ASSUME q # <<>> PROVE Tail(q) \in Queue(S) /\ Head(q) \in S
    <2>1. Len(q) \in Nat /\ Len(Tail(q)) = Len(q) - 1 /\ Tail(q) \in Seq(S) /\ Head(q) \in S
        BY <1>1, HeadTailProperties, LenProperties DEF Queue
    <2>2. QED BY <2>1, BoundsAssumption DEF Queue
<1>2. ASSUME NEW k \in 1 .. Len(q) PROVE SubSeq(q, k + 1, Len(q)) \in Queue(S)
    <2>1. q \in Seq(S) /\ Len(q) \in Nat /\ Len(q) <= MaxQ
        BY LenProperties DEF Queue
    <2>2. \A i \in (k + 1) .. Len(q) : q[i] \in S
        BY <2>1
    <2>3. /\ SubSeq(q, k + 1, Len(q)) \in Seq(S)
          /\ Len(SubSeq(q, k + 1, Len(q))) =
                IF k + 1 <= Len(q) THEN Len(q) - (k + 1) + 1 ELSE 0
        BY <2>1, <2>2, SubSeqProperties
    <2>4. QED BY <2>1, <2>3, BoundsAssumption DEF Queue
<1>3. QED BY <1>1, <1>2

(* A request of any exchange, by any thread. *)
LEMMA SendType ==
    ASSUME ThreadType, NEW c \in Clients, NEW t \in Threads, NEW x \in Exchanges,
           NEW n \in 0 .. MAX_RETRIES, NEW victim, x = "heist_force" => victim \in Clients,
           Send(c, t, x, n, victim)
    PROVE  ThreadType'
<1>1. at' \in [Clients -> [Threads -> Exchanges \cup {"none", "up", "stopping"}]]
    BY DEF ThreadType, Send
<1>2. try' \in [Clients -> [Threads -> 0 .. MAX_RETRIES]]
    BY DEF ThreadType, Send
<1>3. CASE x = "heist_force"
    <2>1. Push(forced[victim], c) \in Queue(Clients)
        BY <1>3, PushType DEF ThreadType
    <2>2. QED BY <1>1, <1>2, <1>3, <2>1 DEF ThreadType, Send
<1>4. CASE x # "heist_force"
    <2>1. Push(req[c], x) \in Queue(Exchanges)
        BY PushType DEF ThreadType
    <2>2. QED BY <1>1, <1>2, <1>4, <2>1 DEF ThreadType, Send
<1>5. QED BY <1>3, <1>4

(* A process that exits. *)
LEMMA ExitType ==
    ASSUME ThreadType, ProcType, NEW c \in Clients, Exit(c), UNCHANGED polls
    PROVE  ThreadType' /\ ProcType'
BY BoundsAssumption DEF ThreadType, ProcType, Exit

(* What follows the ACK of an exchange ... *)
LEMMA AckedType ==
    ASSUME ThreadType, ProcType, NEW c \in Clients, NEW t \in Threads,
           at[c][t] \in Exchanges, NEW dat \in Owners, Acked(c, t, dat)
    PROVE  ThreadType' /\ ProcType'
<1>0. 1 \in 0 .. MAX_RETRIES /\ 0 \in 0 .. MAX_RETRIES /\ Main \in Threads
    BY BoundsAssumption DEF Threads
<1> USE DEF Exchanges, Reads, Disconns
<1>1. CASE at[c][t] = "connect_ro"
    <2>1. connect_ro_acked(c, dat)
        BY <1>1 DEF Acked
    <2>2. CASE dat = None
        BY <1>0, <2>1, <2>2, SendType DEF connect_ro_acked, ProcType
    <2>3. CASE dat # None /\ c \in Fopt
        <3>1. Send(c, Main, "heist_force", 1, dat) /\ UNCHANGED <<alive, polls>> /\ dat \in Clients
            BY <2>1, <2>3 DEF connect_ro_acked, Owners
        <3>2. QED BY <1>0, <3>1, SendType DEF ProcType
    <2>4. CASE dat # None /\ c \notin Fopt
        BY <2>1, <2>4, ExitType DEF connect_ro_acked
    <2>5. QED BY <2>2, <2>3, <2>4
<1>2. CASE at[c][t] \in {"heist_force", "heist_disc"}
    <2>1. Send(c, t, "heist_ro", 1, None) /\ UNCHANGED <<polls, alive>>
        BY <1>2 DEF Acked
    <2>2. QED BY <1>0, <2>1, SendType DEF ProcType
<1>3. CASE at[c][t] = "heist_ro"
    <2>1. heist_ro_acked(c, dat)
        BY <1>3 DEF Acked
    <2>2. polls[c] \in Nat /\ HEIST_POLLS \in Nat \ {0}
        BY BoundsAssumption DEF ProcType
    <2>3. (polls[c] + 1) % HEIST_POLLS \in 0 .. HEIST_POLLS - 1
        BY <2>2
    <2>4. ProcType'
        BY <2>1, <2>3 DEF heist_ro_acked, ProcType
    <2>5. \E x \in {"heist_disc2", "heist_ro", "connect_wo"} : Send(c, Main, x, 1, None)
        BY <2>1 DEF heist_ro_acked
    <2>6. QED BY <1>0, <2>4, <2>5, SendType
<1>4. CASE at[c][t] = "heist_disc2"
    <2>1. Send(c, t, "connect_wo", 1, None) /\ UNCHANGED <<polls, alive>>
        BY <1>4 DEF Acked
    <2>2. QED BY <1>0, <2>1, SendType DEF ProcType
<1>5. CASE at[c][t] = "connect_wo"
    <2>1. /\ at' = [at EXCEPT ![c][t] = "up"] /\ try' = [try EXCEPT ![c][t] = 0]
          /\ UNCHANGED <<req, forced, polls, alive>>
        BY <1>5 DEF Acked
    <2>2. QED BY <1>0, <2>1 DEF ThreadType, ProcType
<1>6. CASE at[c][t] = "disconnect"
    BY <1>6, ExitType DEF Acked
<1>7. QED BY <1>1, <1>2, <1>3, <1>4, <1>5, <1>6

(* ... and its failure: no exchange is sent more than MAX_RETRIES times. *)
LEMMA FailedType ==
    ASSUME ThreadType, ProcType, NEW c \in Clients, NEW t \in Threads,
           at[c][t] \in Exchanges, Failed(c, t)
    PROVE  ThreadType' /\ ProcType'
<1>1. 1 \in 0 .. MAX_RETRIES /\ try[c][t] \in 0 .. MAX_RETRIES
    BY BoundsAssumption DEF ThreadType
<1>2. CASE at[c][t] = "heist_force"
    <2>1. Send(c, t, "heist_disc", 1, None) /\ UNCHANGED <<polls, alive>>
        BY <1>2 DEF Failed
    <2>2. QED BY <1>1, <2>1, SendType DEF ProcType, Exchanges, Disconns
<1>3. CASE at[c][t] # "heist_force" /\ MayRetry(try[c][t])
    <2>1. Send(c, t, at[c][t], try[c][t] + 1, None) /\ UNCHANGED <<polls, alive>>
        BY <1>3 DEF Failed
    <2>2. try[c][t] + 1 \in 0 .. MAX_RETRIES
        BY <1>1, <1>3, BoundsAssumption DEF MayRetry
    <2>3. QED BY <1>3, <2>1, <2>2, SendType DEF ProcType
<1>4. CASE at[c][t] # "heist_force" /\ ~MayRetry(try[c][t])
    BY <1>4, ExitType DEF Failed
<1>5. QED BY <1>2, <1>3, <1>4

(* A new thread for a disconnect, if one may still be started. *)
LEMMA DisconnectType ==
    ASSUME ThreadType, NEW c \in Clients, start_disconnect(c)
    PROVE  at' \in [Clients -> [Threads -> Exchanges \cup {"none", "up", "stopping"}]]
<1>1. at' = at \/ \E t : at' = [at EXCEPT ![c][t] = "stopping"]
    BY DEF start_disconnect
<1>2. ASSUME NEW t, at' = [at EXCEPT ![c][t] = "stopping"]
      PROVE  at' \in [Clients -> [Threads -> Exchanges \cup {"none", "up", "stopping"}]]
    BY <1>2 DEF ThreadType
<1>3. CASE at' = at
    BY <1>3 DEF ThreadType
<1>4. QED BY <1>1, <1>2, <1>3

(* What the node does with a request. *)
LEMMA PacketType ==
    ASSUME ProtoType, NEW c \in Clients, canobj_packet(c)
    PROVE  ProtoType'
<1>1. \A a \in Answers : Push(ans[c], a) \in Queue(Answers)
    BY PushType DEF ProtoType, AnsType
<1>2. Tail(req[c]) \in Queue(Exchanges)
    BY ShortenType DEF ProtoType, ThreadType, canobj_packet
<1>3. ThreadType' /\ ProcType'
    BY <1>2 DEF ProtoType, ThreadType, ProcType, canobj_packet
<1>4. /\ Answer("CONSOLE_CONNECT", "ACK", cancon_rmt) \in Answers
      /\ Answer("CONSOLE_CONNECT", "NAK", None) \in Answers
      /\ Answer("CONSOLE_DISCONN", "NAK", None) \in Answers
    BY DEF ProtoType, NodeType, Answer, Answers, Owners
<1>5. \/ UNCHANGED node /\ \E a \in Answers : ans' = [ans EXCEPT ![c] = Push(@, a)]
      \/ \E o \in Owners : cancon_setcon(c, o) /\ UNCHANGED ans
    <2>1. CASE Head(req[c]) \in Disconns
        BY <1>4, <2>1 DEF canobj_packet, canobj_disconnect, Owners
    <2>2. CASE Head(req[c]) \notin Disconns
        BY <1>4, <2>2 DEF canobj_packet, canobj_connect, Owners
    <2>3. QED BY <2>1, <2>2
<1>6. NodeType' /\ AnsType'
    BY <1>1, <1>5 DEF ProtoType, NodeType, AnsType, node, cancon_setcon, Owners
<1>7. QED BY <1>3, <1>6 DEF ProtoType

(* Every step keeps the types. *)
LEMMA ProtoTypeStep ==
    ASSUME ProtoType, [Next]_vars
    PROVE  ProtoType'
<1>0. NodeType /\ AnsType /\ ThreadType /\ ProcType
    BY DEF ProtoType
<1>1. ASSUME NEW c \in Clients, main(c) PROVE ProtoType'
    <2>1. Send(c, Main, "connect_ro", 1, None)
        BY <1>1 DEF main
    <2>2. 1 \in 0 .. MAX_RETRIES /\ Main \in Threads /\ "connect_ro" \in Exchanges
        BY BoundsAssumption DEF Threads, Exchanges, Reads
    <2>3. ThreadType'
        BY <1>0, <2>1, <2>2, SendType
    <2>4. QED BY <1>0, <1>1, <2>3 DEF main, ProtoType, NodeType, AnsType, ProcType, node
<1>2. ASSUME NEW c \in Clients, NEW t \in Threads, waitfor_acknak(c, t) PROVE ProtoType'
    <2>1. PICK k \in 1 .. Len(ans[c]) : ans' = [ans EXCEPT ![c] = SubSeq(@, k + 1, Len(@))]
        BY <1>2 DEF waitfor_acknak
    <2>2. ans[c] \in Queue(Answers)
        BY <1>0 DEF AnsType
    <2>3. AnsType'
        BY <1>0, <2>1, <2>2, ShortenType DEF AnsType
    <2>4. \A n \in 1 .. Len(ans[c]) : ans[c][n].dat \in Owners
        <3>1. \A n \in 1 .. Len(ans[c]) : ans[c][n] \in Answers
            BY <2>2, ElementOfSeq DEF Queue
        <3>2. QED BY <3>1 DEF Answers
    <2>5. \/ UNCHANGED <<req, forced, at, try, polls, alive>>
          \/ \E dat \in Owners : Acked(c, t, dat)
          \/ Failed(c, t)
        BY <1>2, <2>4, LenProperties DEF waitfor_acknak
    <2>6. at[c][t] \in Exchanges /\ UNCHANGED node
        BY <1>2 DEF waitfor_acknak
    <2>7. ThreadType' /\ ProcType'
        BY <1>0, <2>5, <2>6, AckedType, FailedType DEF ThreadType, ProcType
    <2>8. QED BY <1>0, <2>3, <2>6, <2>7 DEF ProtoType, NodeType, node
<1>3. ASSUME NEW c \in Clients, NEW t \in Threads, waitfor_timedout(c, t) PROVE ProtoType'
    BY <1>0, <1>3, FailedType DEF waitfor_timedout, ProtoType, NodeType, AnsType, node
<1>a. ASSUME NEW c \in Clients, NEW t \in Threads, disconnect(c, t) PROVE ProtoType'
    <2>1. Send(c, t, "disconnect", 1, None) /\ UNCHANGED <<node, ans, polls, alive>>
        BY <1>a DEF disconnect
    <2>2. 1 \in 0 .. MAX_RETRIES /\ "disconnect" \in Exchanges
        BY BoundsAssumption DEF Exchanges, Disconns
    <2>3. ThreadType'
        BY <1>0, <2>1, <2>2, SendType
    <2>4. QED BY <1>0, <2>1, <2>3 DEF ProtoType, NodeType, AnsType, ProcType, node
<1>b. ASSUME NEW c \in Clients, sigterm(c) PROVE ProtoType'
    BY <1>0, <1>b, ExitType DEF sigterm, ProtoType, NodeType, AnsType, node
<1>4. ASSUME NEW c \in Clients, quit(c) PROVE ProtoType'
    BY <1>0, <1>4, DisconnectType
    DEF quit, ProtoType, NodeType, AnsType, ThreadType, ProcType, node
<1>5. ASSUME NEW c \in Clients, force_disconn(c) PROVE ProtoType'
    <2>1. at' \in [Clients -> [Threads -> Exchanges \cup {"none", "up", "stopping"}]]
        <3>1. start_disconnect(c) \/ UNCHANGED at
            BY <1>5 DEF force_disconn
        <3>2. QED BY <1>0, <3>1, DisconnectType DEF ThreadType
    <2>2. Tail(forced[c]) \in Queue(Clients) /\ Head(forced[c]) \in Clients
        BY <1>0, <1>5, ShortenType DEF ThreadType, force_disconn
    <2>3. ThreadType'
        BY <1>0, <1>5, <2>1, <2>2 DEF ThreadType, force_disconn
    <2>4. Answer("FORCE_DISCONN", "ACK", None) \in Answers
        BY DEF Answer, Answers, Owners
    <2>5. Push(ans[Head(forced[c])], Answer("FORCE_DISCONN", "ACK", None)) \in Queue(Answers)
        BY <1>0, <2>2, <2>4, PushType DEF AnsType
    <2>6. AnsType'
        BY <1>0, <1>5, <2>2, <2>5 DEF AnsType, force_disconn
    <2>7. QED BY <1>0, <1>5, <2>3, <2>6 DEF ProtoType, NodeType, ProcType, node, force_disconn
<1>6. ASSUME NEW c \in Clients, canobj_packet(c) PROVE ProtoType'
    BY <1>6, PacketType
<1>7. ASSUME NEW c \in Clients, Lose(c) PROVE ProtoType'
    <2>1. /\ req[c] # <<>> => Tail(req[c]) \in Queue(Exchanges)
          /\ ans[c] # <<>> => Tail(ans[c]) \in Queue(Answers)
          /\ forced[c] # <<>> => Tail(forced[c]) \in Queue(Clients)
        BY <1>0, ShortenType DEF ThreadType, AnsType
    <2>2. QED BY <1>0, <1>7, <2>1
              DEF Lose, ProtoType, NodeType, AnsType, ThreadType, ProcType, node
<1>8. CASE canobj_cancon_host
    <2>1. \E a \in Answers : ans' = [ans EXCEPT ![saving] = Push(@, a)]
        <3>1. /\ Answer("CONSOLE_CONNECT", "ACK", cancon_rmt) \in Answers
              /\ Answer("CONSOLE_DISCONN", "ACK", None) \in Answers
            BY <1>0 DEF NodeType, Answer, Answers, Owners
        <3>2. QED BY <1>8, <3>1 DEF canobj_cancon_host
    <2>2. saving \in Clients
        BY <1>0, <1>8 DEF NodeType, Owners, canobj_cancon_host
    <2>3. \A a \in Answers : Push(ans[saving], a) \in Queue(Answers)
        BY <1>0, <2>2, PushType DEF AnsType
    <2>4. AnsType'
        BY <1>0, <2>1, <2>2, <2>3 DEF AnsType
    <2>5. QED BY <1>0, <1>8, <2>4
              DEF canobj_cancon_host, ProtoType, NodeType, ThreadType, ProcType, Owners
<1>9. CASE canobj_init
    BY <1>0, <1>9 DEF canobj_init, ProtoType, NodeType, AnsType, ThreadType, ProcType, Owners
<1>10. CASE UNCHANGED vars
    BY <1>0, <1>10 DEF vars, ProtoType, NodeType, AnsType, ThreadType, ProcType
<1>11. QED BY <1>1, <1>2, <1>3, <1>a, <1>b, <1>4, <1>5, <1>6, <1>7, <1>8, <1>9, <1>10
           DEF Next, ClientStep, ThreadStep, Network

(* Nothing is under way when the cancons start. *)
LEMMA ProtoTypeInit == Init => ProtoType
<1>1. \A S : <<>> \in Queue(S)
    BY BoundsAssumption, EmptySeq DEF Queue
<1>2. 0 \in 0 .. MAX_RETRIES /\ 0 \in 0 .. HEIST_POLLS - 1
    BY BoundsAssumption
<1>3. QED BY <1>1, <1>2
          DEF Init, ProtoType, NodeType, AnsType, ThreadType, ProcType, Owners

(* The owner of a console is a cancon or nobody, an exchange is tried no   *)
(* more than MAX_RETRIES times, a thief polls less than HEIST_POLLS times  *)
(* and queues do not overflow: for any number of cancons and thieves, and  *)
(* whatever is lost, late or rebooted.                                     *)
THEOREM ProtocolTyped == Spec => []TypeOK
<1>1. ProtoType /\ [Next]_vars => ProtoType'
    BY ProtoTypeStep
<1>2. ProtoType => TypeOK
    BY DEF ProtoType, NodeType, AnsType, ThreadType, ProcType, Queue, Owners, TypeOK
<1>3. QED BY ProtoTypeInit, <1>1, <1>2, PTL DEF Spec

-----------------------------------------------------------------------------
(* Who owns the console when nobody steals (no cancon has -f), each user   *)
(* quits once, and the network neither loses packets nor delivers them     *)
(* after the timeout; nodes may reboot, PROMs refuse, and SIGTERM end a    *)
(* cancon at any point of its disconnect.  Of each exchange exactly one    *)
(* packet is about, or the node is in the handler on its behalf, unless a  *)
(* reboot has cut the handler short.                                       *)
Idle(c) == req[c] = <<>> /\ ans[c] = <<>> /\ saving # c
Asked(c, x) == req[c] = <<x>> /\ ans[c] = <<>> /\ saving # c
BeingSaved(c) == req[c] = <<>> /\ ans[c] = <<>> /\ saving = c
Answered(c, object, type) ==
    /\ req[c] = <<>> /\ saving # c
    /\ Len(ans[c]) = 1 /\ ans[c][1].object = object /\ ans[c][1].type = type

(* What the main thread of c and its disconnect thread are at. *)
Doing(c, m, d) == alive[c] = "live" /\ at[c][Main] = m /\ at[c][1] = d

(* A disconnect: the request or the ACK is about, or the node is in the    *)
(* handler, or a reboot has cut that short.                                *)
Releasing(c) ==
    \/ cancon_rmt = c /\ (Asked(c, "disconnect") \/ Idle(c))
    \/ cancon_rmt # c /\ (BeingSaved(c) \/ Answered(c, "CONSOLE_DISCONN", "ACK"))

NotRunning(c) ==
    /\ alive[c] # "live" /\ at[c][Main] = "none" /\ at[c][1] = "none"
    /\ Idle(c) \/ (alive[c] = "exited" /\ Releasing(c))
    /\ alive[c] = "new" => cancon_rmt # c
Looking(c) ==
    /\ Doing(c, "connect_ro", "none") /\ cancon_rmt # c
    /\ Asked(c, "connect_ro") \/ Answered(c, "CONSOLE_CONNECT", "ACK")
Connecting(c) ==
    /\ Doing(c, "connect_wo", "none")
    /\ \/ cancon_rmt = c /\ (BeingSaved(c) \/ Answered(c, "CONSOLE_CONNECT", "ACK"))
       \/ /\ cancon_rmt # c
          /\ Asked(c, "connect_wo") \/ Answered(c, "CONSOLE_CONNECT", "NAK") \/ Idle(c)
Connected(c) == Doing(c, "up", "none") /\ Idle(c) /\ cancon_rmt = c
Leaving(c) ==
    \/ Doing(c, "up", "stopping") /\ Idle(c) /\ cancon_rmt = c
    \/ Doing(c, "up", "disconnect") /\ Releasing(c)

Phase(c) ==
    NotRunning(c) \/ Looking(c) \/ Connecting(c) \/ Connected(c) \/ Leaving(c)

(* Between cancon_setcon and the PROM, the one has the new owner, the      *)
(* other the old, if it has not refused that.                              *)
InHandler ==
    saving # None =>
        \/ cancon_rmt = saving /\ (prom = "current" => cancon_host = None)
        \/ cancon_rmt = None /\ (prom = "current" => cancon_host = saving)

PoliteInv ==
    /\ ProtoType /\ PromAgrees /\ InHandler
    /\ \A c \in Clients : forced[c] = <<>> /\ Phase(c)

Polite == Fopt = {} /\ MaxDisc = 1 /\ ~Loss /\ ~Late

(* A queue that holds nothing takes a packet. *)
LEMMA PushEmpty ==
    ASSUME NEW m
    PROVE  Push(<<>>, m) = <<m>> /\ Len(<<m>>) = 1 /\ <<m>>[1] = m
<1>1. Len(<<>>) = 0 /\ 0 < MaxQ
    BY BoundsAssumption
<1>2. QED BY <1>1 DEF Push

(* A client that a step does not touch stays in its phase. *)
LEMMA PhaseKept ==
    ASSUME NEW d \in Clients, Phase(d),
           req'[d] = req[d], ans'[d] = ans[d], at'[d] = at[d], alive'[d] = alive[d],
           cancon_rmt' = d <=> cancon_rmt = d, saving' = d <=> saving = d
    PROVE  Phase(d)'
<1>1. (Idle(d)' <=> Idle(d)) /\ (BeingSaved(d)' <=> BeingSaved(d))
    BY DEF Idle, BeingSaved
<1>2. \A x : Asked(d, x)' <=> Asked(d, x)
    BY DEF Asked
<1>3. \A o, ty : Answered(d, o, ty)' <=> Answered(d, o, ty)
    BY DEF Answered
<1>4. \A m, x : Doing(d, m, x)' <=> Doing(d, m, x)
    BY DEF Doing
<1>a. Releasing(d)' <=> Releasing(d)
    BY <1>1, <1>2, <1>3 DEF Releasing
<1>5. (NotRunning(d) => NotRunning(d)') /\ (Connected(d) => Connected(d)')
    BY <1>1, <1>4, <1>a DEF NotRunning, Connected
<1>6. Looking(d) => Looking(d)'
    BY <1>2, <1>3, <1>4 DEF Looking
<1>7. (Connecting(d) => Connecting(d)') /\ (Leaving(d) => Leaving(d)')
    BY <1>1, <1>2, <1>3, <1>4, <1>a DEF Connecting, Leaving
<1>8. QED BY <1>5, <1>6, <1>7 DEF Phase

(* Thread t of c sends its next request: it is the one that is under way. *)
LEMMA SendAsks ==
    ASSUME ProtoType, Polite, NEW c \in Clients, NEW t \in Threads, NEW x, NEW n,
           x # "heist_force", Send(c, t, x, n, None), req[c] = <<>>, saving' # c, ans'[c] = <<>>
    PROVE  /\ Asked(c, x)' /\ UNCHANGED forced
           /\ at'[c] = [at[c] EXCEPT ![t] = x]
           /\ \A d \in Clients \ {c} : req'[d] = req[d] /\ at'[d] = at[d]
<1>1. req'[c] = <<x>>
    BY PushEmpty DEF Send, ProtoType, ThreadType
<1>2. QED BY <1>1 DEF Asked, Send, ProtoType, ThreadType

(* An exit, with nothing under way. *)
LEMMA ExitRests ==
    ASSUME ProtoType, Polite, NEW c \in Clients, Exit(c), req[c] = <<>>, saving' # c, ans'[c] = <<>>
    PROVE  /\ Phase(c)' /\ UNCHANGED forced
           /\ \A d \in Clients \ {c} : req'[d] = req[d] /\ at'[d] = at[d] /\ alive'[d] = alive[d]
<1>1. Main \in Threads /\ 1 \in Threads
    BY DEF Threads, Discs, Polite
<1>2. alive'[c] = "exited" /\ at'[c][Main] = "none" /\ at'[c][1] = "none" /\ req'[c] = <<>>
    BY <1>1 DEF Exit, ProtoType, ProcType, ThreadType
<1>3. QED BY <1>2 DEF Exit, ProtoType, ProcType, ThreadType, Phase, NotRunning, Idle

(* A failed exchange is tried again, or c exits. *)
LEMMA FailedAsks ==
    ASSUME ProtoType, Polite, NEW c \in Clients, NEW t \in Threads, Failed(c, t),
           NEW x, at[c][t] = x, x # "heist_force", req[c] = <<>>, saving' # c, ans'[c] = <<>>
    PROVE  /\ UNCHANGED forced
           /\ Phase(c)' \/ (Asked(c, x)' /\ at'[c] = at[c] /\ alive'[c] = alive[c])
           /\ \A d \in Clients \ {c} : req'[d] = req[d] /\ at'[d] = at[d] /\ alive'[d] = alive[d]
<1>1. CASE MayRetry(try[c][t])
    <2>1. Send(c, t, x, try[c][t] + 1, None) /\ UNCHANGED alive
        BY <1>1 DEF Failed
    <2>2. /\ Asked(c, x)' /\ UNCHANGED forced
          /\ at'[c] = [at[c] EXCEPT ![t] = x]
          /\ \A d \in Clients \ {c} : req'[d] = req[d] /\ at'[d] = at[d]
        BY <2>1, SendAsks
    <2>3. at'[c] = at[c]
        BY <2>2 DEF ProtoType, ThreadType
    <2>4. QED BY <2>1, <2>2, <2>3
<1>2. CASE ~MayRetry(try[c][t])
    <2>1. Exit(c)
        BY <1>2 DEF Failed
    <2>2. QED BY <2>1, ExitRests
<1>3. QED BY <1>1, <1>2

(* What a step of c leaves alone. *)
Others(c) ==
    \A d \in Clients \ {c} :
        /\ req'[d] = req[d] /\ ans'[d] = ans[d] /\ at'[d] = at[d] /\ alive'[d] = alive[d]
        /\ cancon_rmt' = d <=> cancon_rmt = d
        /\ saving' = d <=> saving = d

(* ... so that it is enough to look at c. *)
LEMMA PhaseOfOne ==
    ASSUME PoliteInv, NEW c \in Clients, Others(c), Phase(c)'
    PROVE  \A d \in Clients : Phase(d)'
BY PhaseKept DEF PoliteInv, Others

(* The main thread and the disconnect thread are all the threads there are. *)
LEMMA TwoThreads ==
    ASSUME Polite
    PROVE  Threads = {Main, 1} /\ Discs = {1} /\ Main # 1
BY DEF Polite, Threads, Discs, Main

(* An answer is about to be taken. *)
LEMMA AcknakPhase ==
    ASSUME PoliteInv, Polite, NEW c \in Clients, NEW t \in Threads, waitfor_acknak(c, t)
    PROVE  UNCHANGED forced /\ \A d \in Clients : Phase(d)'
<1>0. ProtoType /\ Phase(c) /\ Threads = {Main, 1} /\ Main # 1
    BY TwoThreads DEF PoliteInv
<1>1. at[c][t] \in Exchanges /\ alive[c] = "live" /\ UNCHANGED <<cancon_rmt, saving>>
    BY DEF waitfor_acknak, node
<1>2. PICK k \in 1 .. Len(ans[c]) :
        /\ ans' = [ans EXCEPT ![c] = SubSeq(@, k + 1, Len(@))]
        /\ \/ \A n \in 1 .. k : ans[c][n].object # ObjectOf(at[c][t])
           \/ \E last \in 1 .. k :
                IF ans[c][last].type = "ACK" THEN Acked(c, t, ans[c][last].dat) ELSE Failed(c, t)
    BY DEF waitfor_acknak
<1>3. ans[c] \in Seq(Answers) /\ Len(ans[c]) \in Nat /\ Len(ans[c]) >= 1
    BY <1>0, <1>2, LenProperties DEF ProtoType, AnsType, Queue
<1>4. ans[c] # <<>>
    BY <1>3
<1>5. \E o \in {"CONSOLE_CONNECT", "CONSOLE_DISCONN"}, ty \in {"ACK", "NAK"} : Answered(c, o, ty)
    BY <1>0, <1>1, <1>4
    DEF Phase, NotRunning, Looking, Connecting, Connected, Leaving, Releasing, Doing, Asked, Idle,
        BeingSaved
<1>6. Len(ans[c]) = 1 /\ req[c] = <<>> /\ saving # c /\ k = 1
    BY <1>5 DEF Answered
<1>7. ans'[c] = <<>>
    BY <1>0, <1>2, <1>3, <1>6 DEF ProtoType, AnsType
<1>8. \A d \in Clients \ {c} : ans'[d] = ans[d]
    BY <1>0, <1>2 DEF ProtoType, AnsType
<1>9. ans[c][1].object = ObjectOf(at[c][t]) =>
        IF ans[c][1].type = "ACK" THEN Acked(c, t, ans[c][1].dat) ELSE Failed(c, t)
    BY <1>2, <1>6
<1>10. ASSUME UNCHANGED forced, Phase(c)',
              \A d \in Clients \ {c} : req'[d] = req[d] /\ at'[d] = at[d] /\ alive'[d] = alive[d]
       PROVE  UNCHANGED forced /\ \A d \in Clients : Phase(d)'
    BY <1>1, <1>8, <1>10, PhaseOfOne DEF Others
<1>11. \A x : at[c][t] = x /\ x \in {"connect_ro", "connect_wo"} => ObjectOf(at[c][t]) = "CONSOLE_CONNECT"
    BY DEF ObjectOf, Reads
<1>12. at \in [Clients -> [Threads -> Exchanges \cup {"none", "up", "stopping"}]]
       /\ alive \in [Clients -> {"new", "live", "exited"}]
    BY <1>0 DEF ProtoType, ThreadType, ProcType
<1>13. "none" \notin Exchanges /\ "up" \notin Exchanges /\ "stopping" \notin Exchanges
    BY DEF Exchanges, Reads, Disconns
<1>14. CASE Looking(c)
    <2>1. Doing(c, "connect_ro", "none") /\ cancon_rmt # c /\ Answered(c, "CONSOLE_CONNECT", "ACK")
        BY <1>4, <1>14 DEF Looking, Asked
    <2>2. t = Main /\ at[c][t] = "connect_ro"
        BY <1>0, <1>1, <1>13, <2>1 DEF Doing
    <2>3. connect_ro_acked(c, ans[c][1].dat)
        BY <1>9, <1>11, <2>1, <2>2 DEF Answered, Acked
    <2>4. CASE ans[c][1].dat = None
        <3>1. Send(c, Main, "connect_wo", 1, None) /\ UNCHANGED alive
            BY <2>3, <2>4 DEF connect_ro_acked
        <3>2. /\ Asked(c, "connect_wo")' /\ UNCHANGED forced
              /\ at'[c] = [at[c] EXCEPT ![Main] = "connect_wo"]
              /\ \A d \in Clients \ {c} : req'[d] = req[d] /\ at'[d] = at[d]
            BY <1>0, <1>1, <1>6, <1>7, <3>1, SendAsks
        <3>3. Doing(c, "connect_wo", "none")'
            BY <1>0, <1>12, <2>1, <3>1, <3>2 DEF Doing
        <3>4. Phase(c)'
            BY <1>1, <2>1, <3>2, <3>3 DEF Phase, Connecting
        <3>5. QED BY <1>10, <3>1, <3>2, <3>4
    <2>5. CASE ans[c][1].dat # None
        <3>1. Exit(c)
            BY <2>3, <2>5 DEF connect_ro_acked, Polite
        <3>2. QED BY <1>0, <1>1, <1>6, <1>7, <1>10, <2>1, <3>1, ExitRests
    <2>6. QED BY <2>4, <2>5
<1>15. CASE Connecting(c)
    <2>1. Doing(c, "connect_wo", "none")
        BY <1>15 DEF Connecting
    <2>2. t = Main /\ at[c][t] = "connect_wo"
        BY <1>0, <1>1, <1>13, <2>1 DEF Doing
    <2>3. CASE cancon_rmt = c
        <3>1. Answered(c, "CONSOLE_CONNECT", "ACK")
            BY <1>4, <1>15, <2>3 DEF Connecting, BeingSaved
        <3>2. /\ at' = [at EXCEPT ![c][t] = "up"] /\ UNCHANGED <<req, forced, alive>>
            BY <1>9, <1>11, <2>2, <3>1 DEF Answered, Acked
        <3>3. Doing(c, "up", "none")' /\ Idle(c)'
            BY <1>0, <1>1, <1>6, <1>7, <1>12, <2>1, <2>2, <3>2 DEF Doing, Idle
        <3>4. Phase(c)'
            BY <1>1, <2>3, <3>3 DEF Phase, Connected
        <3>5. \A d \in Clients \ {c} : at'[d] = at[d]
            BY <1>12, <3>2
        <3>6. QED BY <1>10, <3>2, <3>4, <3>5
    <2>4. CASE cancon_rmt # c
        <3>1. Answered(c, "CONSOLE_CONNECT", "NAK")
            BY <1>4, <1>15, <2>4 DEF Connecting, Asked, Idle
        <3>2. Failed(c, t)
            BY <1>9, <1>11, <2>2, <3>1 DEF Answered
        <3>3. /\ UNCHANGED forced
              /\ Phase(c)' \/ (Asked(c, "connect_wo")' /\ at'[c] = at[c] /\ alive'[c] = alive[c])
              /\ \A d \in Clients \ {c} : req'[d] = req[d] /\ at'[d] = at[d] /\ alive'[d] = alive[d]
            BY <1>0, <1>1, <1>6, <1>7, <2>2, <2>4, <3>2, FailedAsks
        <3>4. Asked(c, "connect_wo")' /\ at'[c] = at[c] /\ alive'[c] = alive[c] => Phase(c)'
            BY <1>1, <2>1, <2>2, <2>4 DEF Phase, Connecting, Doing
        <3>5. QED BY <1>10, <3>3, <3>4
    <2>5. QED BY <2>3, <2>4
<1>16. CASE Leaving(c)
    <2>1. /\ Doing(c, "up", "disconnect") /\ cancon_rmt # c
          /\ Answered(c, "CONSOLE_DISCONN", "ACK")
        BY <1>4, <1>16 DEF Leaving, Releasing, Asked, Idle, BeingSaved
    <2>2. t = 1 /\ at[c][t] = "disconnect"
        BY <1>0, <1>1, <1>13, <2>1 DEF Doing
    <2>3. ObjectOf(at[c][t]) = "CONSOLE_DISCONN"
        BY <2>2 DEF ObjectOf, Reads, Disconns
    <2>4. Exit(c)
        BY <1>9, <2>1, <2>2, <2>3 DEF Answered, Acked
    <2>5. QED BY <1>0, <1>1, <1>6, <1>7, <1>10, <2>1, <2>4, ExitRests
<1>17. ~NotRunning(c) /\ ~Connected(c)
    BY <1>1, <1>4 DEF NotRunning, Connected, Idle
<1>18. QED BY <1>0, <1>14, <1>15, <1>16, <1>17 DEF Phase

(* A timeout without anything under way: a reboot has cut the handler of   *)
(* the request short.                                                      *)
LEMMA TimedoutPhase ==
    ASSUME PoliteInv, Polite, NEW c \in Clients, NEW t \in Threads, waitfor_timedout(c, t)
    PROVE  UNCHANGED forced /\ \A d \in Clients : Phase(d)'
<1>0. ProtoType /\ Phase(c) /\ Threads = {Main, 1} /\ Main # 1
    BY TwoThreads DEF PoliteInv
<1>1. /\ at[c][t] \in Exchanges /\ alive[c] = "live" /\ Failed(c, t)
      /\ UNCHANGED <<cancon_rmt, saving, ans>>
    BY DEF waitfor_timedout, node
<1>2. Idle(c)
    BY DEF waitfor_timedout, Expired, Polite, Silent, Idle
<1>3. "none" \notin Exchanges /\ "up" \notin Exchanges /\ "stopping" \notin Exchanges
    BY DEF Exchanges, Reads, Disconns
<1>4. req[c] = <<>> /\ ans'[c] = <<>> /\ saving' # c
    BY <1>1, <1>2 DEF Idle
<1>5. (\A o, ty : ~Answered(c, o, ty)) /\ ~BeingSaved(c)
    BY <1>2 DEF Asked, Answered, BeingSaved, Idle
<1>6. \A x : ~Asked(c, x)
    BY <1>2 DEF Asked, Idle
<1>7. \/ Connecting(c) /\ cancon_rmt # c
      \/ Doing(c, "up", "disconnect") /\ cancon_rmt = c
    BY <1>0, <1>1, <1>3, <1>5, <1>6
    DEF Phase, NotRunning, Looking, Connecting, Connected, Leaving, Releasing, Doing
<1>8. PICK x \in {"connect_wo", "disconnect"} :
        /\ at[c][t] = x
        /\ x = "connect_wo" => Doing(c, "connect_wo", "none") /\ cancon_rmt # c
        /\ x = "disconnect" => Doing(c, "up", "disconnect") /\ cancon_rmt = c
    <2>1. CASE Connecting(c) /\ cancon_rmt # c
        BY <1>0, <1>1, <1>3, <2>1 DEF Connecting, Doing
    <2>2. CASE Doing(c, "up", "disconnect") /\ cancon_rmt = c
        BY <1>0, <1>1, <1>3, <2>2 DEF Doing
    <2>3. QED BY <1>7, <2>1, <2>2
<1>9. /\ UNCHANGED forced
      /\ Phase(c)' \/ (Asked(c, x)' /\ at'[c] = at[c] /\ alive'[c] = alive[c])
      /\ \A d \in Clients \ {c} : req'[d] = req[d] /\ at'[d] = at[d] /\ alive'[d] = alive[d]
    BY <1>0, <1>1, <1>4, <1>8, FailedAsks
<1>10. Asked(c, x)' /\ at'[c] = at[c] /\ alive'[c] = alive[c] => Phase(c)'
    BY <1>1, <1>8 DEF Phase, Connecting, Leaving, Releasing, Doing
<1>11. QED BY <1>1, <1>9, <1>10, PhaseOfOne DEF Others

(* The node takes a request: only the owner's disconnect takes the console *)
(* away, and only a console nobody owns is given to somebody.              *)
LEMMA PacketPhase ==
    ASSUME PoliteInv, Polite, NEW c \in Clients, canobj_packet(c)
    PROVE  InHandler' /\ UNCHANGED forced /\ \A d \in Clients : Phase(d)'
<1>0. /\ ProtoType /\ Phase(c) /\ saving = None
      /\ prom = "current" => cancon_host = cancon_rmt
      /\ UNCHANGED <<forced, at, alive>>
    BY DEF PoliteInv, PromAgrees, canobj_packet
<1>n. c # None
    BY NoneAssumption
<1>1. req[c] # <<>> /\ req' = [req EXCEPT ![c] = Tail(@)]
    BY DEF canobj_packet
<1> DEFINE Gone == alive[c] = "exited" /\ at[c][Main] = "none" /\ at[c][1] = "none"
<1>2. PICK x \in {"connect_ro", "connect_wo", "disconnect"} :
        /\ Asked(c, x)
        /\ x = "connect_ro" => Doing(c, "connect_ro", "none") /\ cancon_rmt # c
        /\ x = "connect_wo" => Doing(c, "connect_wo", "none") /\ cancon_rmt # c
        /\ x = "disconnect" => /\ cancon_rmt = c
                               /\ Doing(c, "up", "disconnect") \/ Gone
    BY <1>0, <1>1 DEF Phase, NotRunning, Looking, Connecting, Connected, Leaving, Releasing,
                      Idle, BeingSaved, Answered
<1>3. /\ Head(req[c]) = x /\ req'[c] = <<>> /\ ans[c] = <<>>
      /\ \A d \in Clients \ {c} : req'[d] = req[d]
    <2>1. req[c] = <<x>> /\ ans[c] = <<>>
        BY <1>2 DEF Asked
    <2>2. Head(<<x>>) = x /\ Tail(<<x>>) = <<>>
        OBVIOUS
    <2>3. QED BY <1>0, <1>1, <2>1, <2>2 DEF ProtoType, ThreadType
<1>4. ASSUME NEW a, ans' = [ans EXCEPT ![c] = Push(@, a)], UNCHANGED node
      PROVE  /\ Len(ans'[c]) = 1 /\ ans'[c][1] = a
             /\ InHandler' /\ saving' # c /\ cancon_rmt' = cancon_rmt /\ Others(c)
    <2>1. ans'[c] = <<a>> /\ \A d \in Clients \ {c} : ans'[d] = ans[d]
        BY <1>0, <1>3, <1>4, PushEmpty DEF ProtoType, AnsType
    <2>2. ans'[c][1] = a /\ Len(ans'[c]) = 1
        BY <2>1, PushEmpty
    <2>3. InHandler' /\ saving' # c /\ cancon_rmt' = cancon_rmt
        BY <1>0, <1>n, <1>4 DEF InHandler, node
    <2>4. Others(c)
        BY <1>0, <1>3, <1>4, <2>1 DEF Others, node
    <2>5. QED BY <2>2, <2>3, <2>4
<1>5. ASSUME NEW o, cancon_setcon(c, o), UNCHANGED ans, cancon_rmt \in {c, None}, o \in {c, None},
             o # cancon_rmt
      PROVE  InHandler' /\ BeingSaved(c)' /\ cancon_rmt' = o /\ Others(c)
    <2>1. cancon_rmt' = o /\ saving' = c /\ cancon_host' = cancon_host /\ prom' = prom
        BY <1>5 DEF cancon_setcon
    <2>2. InHandler'
        BY <1>0, <1>n, <1>5, <2>1 DEF InHandler
    <2>3. BeingSaved(c)'
        BY <1>3, <1>5, <2>1 DEF BeingSaved
    <2>4. Others(c)
        BY <1>0, <1>n, <1>3, <1>5, <2>1, NoneAssumption DEF Others
    <2>5. QED BY <2>1, <2>2, <2>3, <2>4
<1>6. InHandler' /\ Phase(c)' /\ Others(c)
    <2>1. CASE x = "connect_ro"
        <3>1. canobj_connect(c, "connect_ro")
            BY <1>3, <2>1 DEF canobj_packet, Disconns
        <3>2. /\ ans' = [ans EXCEPT ![c] = Push(@, Answer("CONSOLE_CONNECT", "ACK", cancon_rmt))]
              /\ UNCHANGED node
            BY <3>1 DEF canobj_connect
        <3>3. /\ Len(ans'[c]) = 1 /\ ans'[c][1] = Answer("CONSOLE_CONNECT", "ACK", cancon_rmt)
              /\ InHandler' /\ saving' # c /\ cancon_rmt' = cancon_rmt /\ Others(c)
            BY <1>4, <3>2
        <3>4. Answered(c, "CONSOLE_CONNECT", "ACK")'
            BY <1>3, <3>3 DEF Answered, Answer
        <3>5. Doing(c, "connect_ro", "none")'
            BY <1>0, <1>2, <2>1 DEF Doing
        <3>6. QED BY <1>2, <2>1, <3>3, <3>4, <3>5 DEF Phase, Looking
    <2>2. CASE x = "connect_wo"
        <3>1. canobj_connect(c, "connect_wo")
            BY <1>3, <2>2 DEF canobj_packet, Disconns
        <3>2. Doing(c, "connect_wo", "none")'
            BY <1>0, <1>2, <2>2 DEF Doing
        <3>3. CASE cancon_rmt = None
            <4>1. cancon_setcon(c, c) /\ UNCHANGED ans
                BY <3>1, <3>3 DEF canobj_connect, Reads, MayConnect
            <4>2. InHandler' /\ BeingSaved(c)' /\ cancon_rmt' = c /\ Others(c)
                BY <1>5, <1>n, <3>3, <4>1
            <4>3. QED BY <3>2, <4>2 DEF Phase, Connecting
        <3>4. CASE cancon_rmt # None
            <4>1. /\ ans' = [ans EXCEPT ![c] = Push(@, Answer("CONSOLE_CONNECT", "NAK", None))]
                  /\ UNCHANGED node
                BY <3>1, <3>4 DEF canobj_connect, Reads, MayConnect
            <4>2. /\ Len(ans'[c]) = 1 /\ ans'[c][1] = Answer("CONSOLE_CONNECT", "NAK", None)
                  /\ InHandler' /\ saving' # c /\ cancon_rmt' = cancon_rmt /\ Others(c)
                BY <1>4, <4>1
            <4>3. Answered(c, "CONSOLE_CONNECT", "NAK")'
                BY <1>3, <4>2 DEF Answered, Answer
            <4>4. QED BY <1>2, <2>2, <3>2, <4>2, <4>3 DEF Phase, Connecting
        <3>5. QED BY <3>3, <3>4
    <2>3. CASE x = "disconnect"
        <3>1. canobj_disconnect(c) /\ cancon_rmt = c
            BY <1>2, <1>3, <2>3 DEF canobj_packet, Disconns
        <3>2. cancon_setcon(c, None) /\ UNCHANGED ans
            BY <1>n, <3>1 DEF canobj_disconnect
        <3>3. InHandler' /\ BeingSaved(c)' /\ cancon_rmt' = None /\ Others(c)
            BY <1>5, <1>n, <3>1, <3>2
        <3>4. Doing(c, "up", "disconnect")' \/ Gone'
            BY <1>0, <1>2, <2>3 DEF Doing
        <3>5. QED BY <1>n, <3>3, <3>4 DEF Phase, Leaving, NotRunning, Releasing
    <2>4. QED BY <2>1, <2>2, <2>3
<1>7. QED BY <1>0, <1>6, PhaseOfOne

(* The owner is written to the PROM, and the ACK goes out. *)
LEMMA HostPhase ==
    ASSUME PoliteInv, Polite, canobj_cancon_host
    PROVE  InHandler' /\ UNCHANGED forced /\ \A d \in Clients : Phase(d)'
<1>0. ProtoType /\ saving \in Clients /\ saving # None /\ InHandler
    BY DEF PoliteInv, ProtoType, NodeType, Owners, canobj_cancon_host
<1> SUFFICES ASSUME NEW e \in Clients, saving = e
             PROVE  InHandler' /\ UNCHANGED forced /\ \A d \in Clients : Phase(d)'
    BY <1>0
<1>a. saving' = None /\ UNCHANGED <<cancon_rmt, req, forced, at, alive>> /\ e # None
    BY <1>0 DEF canobj_cancon_host
<1>1. BeingSaved(e) /\ Phase(e)
    BY <1>0, <1>a DEF PoliteInv, Phase, NotRunning, Looking, Connecting, Connected, Leaving,
                Releasing, Idle, Asked, Answered
<1>2. PICK a : /\ ans' = [ans EXCEPT ![e] = Push(@, a)]
               /\ cancon_rmt = None => a.object = "CONSOLE_DISCONN" /\ a.type = "ACK"
               /\ cancon_rmt # None => a.object = "CONSOLE_CONNECT" /\ a.type = "ACK"
    <2>1. CASE cancon_rmt = None
        <3>1. ans' = [ans EXCEPT ![e] = Push(@, Answer("CONSOLE_DISCONN", "ACK", None))]
            BY <2>1 DEF canobj_cancon_host
        <3>2. /\ Answer("CONSOLE_DISCONN", "ACK", None).object = "CONSOLE_DISCONN"
              /\ Answer("CONSOLE_DISCONN", "ACK", None).type = "ACK"
            BY DEF Answer
        <3>3. QED BY <2>1, <3>1, <3>2
    <2>2. CASE cancon_rmt # None
        <3>1. ans' = [ans EXCEPT ![e] = Push(@, Answer("CONSOLE_CONNECT", "ACK", cancon_rmt))]
            BY <2>2 DEF canobj_cancon_host
        <3>2. /\ Answer("CONSOLE_CONNECT", "ACK", cancon_rmt).object = "CONSOLE_CONNECT"
              /\ Answer("CONSOLE_CONNECT", "ACK", cancon_rmt).type = "ACK"
            BY DEF Answer
        <3>3. QED BY <2>2, <3>1, <3>2
    <2>3. QED BY <2>1, <2>2
<1>3. ans'[e] = <<a>> /\ \A d \in Clients \ {e} : ans'[d] = ans[d]
    BY <1>0, <1>a, <1>1, <1>2, PushEmpty DEF ProtoType, AnsType, BeingSaved
<1>4. Len(ans'[e]) = 1 /\ ans'[e][1] = a /\ req'[e] = <<>>
    BY <1>0, <1>a, <1>1, <1>3, PushEmpty DEF BeingSaved
<1>5. CASE cancon_rmt = None
    <2>1. \/ Doing(e, "up", "disconnect")
          \/ alive[e] = "exited" /\ at[e][Main] = "none" /\ at[e][1] = "none"
        BY <1>0, <1>a, <1>1, <1>5 DEF BeingSaved, Phase, NotRunning, Looking, Connecting, Connected,
                           Leaving, Releasing, Idle, Asked, Answered
    <2>2. Answered(e, "CONSOLE_DISCONN", "ACK")'
        BY <1>0, <1>a, <1>2, <1>4, <1>5 DEF Answered
    <2>3. Phase(e)'
        BY <1>0, <1>a, <1>5, <2>1, <2>2 DEF Phase, Leaving, NotRunning, Releasing, Doing
    <2>4. QED BY <1>0, <1>a, <1>3, <2>3, NoneAssumption, PhaseOfOne DEF Others, InHandler
<1>6. CASE cancon_rmt # None
    <2>1. cancon_rmt = e
        BY <1>0, <1>a, <1>6 DEF InHandler
    <2>2. Connecting(e)
        BY <1>0, <1>a, <1>1, <2>1 DEF BeingSaved, Phase, NotRunning, Looking, Leaving, Releasing,
                           Connected, Idle, Asked, Answered
    <2>3. Answered(e, "CONSOLE_CONNECT", "ACK")'
        BY <1>0, <1>a, <1>2, <1>4, <1>6 DEF Answered
    <2>4. Phase(e)'
        BY <1>0, <1>a, <2>1, <2>2, <2>3 DEF Phase, Connecting, Doing
    <2>5. QED BY <1>0, <1>a, <1>3, <2>4, NoneAssumption, PhaseOfOne DEF Others, InHandler
<1>7. QED BY <1>5, <1>6

(* A reboot takes back what is not yet in the PROM. *)
LEMMA RebootPhase ==
    ASSUME PoliteInv, Polite, canobj_init, prom' # "lapsed"
    PROVE  InHandler' /\ UNCHANGED forced /\ \A d \in Clients : Phase(d)'
<1>0. /\ ProtoType /\ InHandler /\ PromAgrees /\ prom = "current"
      /\ cancon_rmt' = cancon_host /\ saving' = None /\ UNCHANGED <<req, ans, forced, at, alive>>
    BY DEF PoliteInv, canobj_init, ProtoType, NodeType
<1>1. InHandler'
    BY <1>0 DEF InHandler
<1>2. CASE saving = None
    <2>1. cancon_rmt' = cancon_rmt
        BY <1>0, <1>2 DEF PromAgrees
    <2>2. \A d \in Clients : Phase(d)'
        BY <1>0, <1>2, <2>1, PhaseKept DEF PoliteInv
    <2>3. QED BY <1>0, <1>1, <2>2
<1>3. ASSUME NEW c \in Clients, saving = c
      PROVE  \A d \in Clients : Phase(d)'
    <2>0. c # None
        BY NoneAssumption
    <2>1. BeingSaved(c) /\ Phase(c)
        BY <1>3 DEF PoliteInv, Phase, NotRunning, Looking, Connecting, Connected, Leaving,
                    Releasing, Idle, Asked, Answered
    <2>2. Idle(c)'
        BY <1>0, <2>0, <2>1 DEF Idle, BeingSaved
    <2> DEFINE Gone == alive[c] = "exited" /\ at[c][Main] = "none" /\ at[c][1] = "none"
    <2>3. \/ Doing(c, "connect_wo", "none") /\ cancon_rmt = c
          \/ cancon_rmt # c /\ (Doing(c, "up", "disconnect") \/ Gone)
        BY <1>3, <2>1 DEF Phase, NotRunning, Looking, Connecting, Connected, Leaving, Releasing,
                          BeingSaved, Idle, Asked, Answered
    <2>4. CASE cancon_rmt = c /\ cancon_host = None
        <3>1. Doing(c, "connect_wo", "none")
            BY <2>3, <2>4
        <3>2. Phase(c)'
            BY <1>0, <2>0, <2>2, <2>4, <3>1 DEF Phase, Connecting, Doing
        <3>3. Others(c)
            BY <1>0, <1>3, <2>4, NoneAssumption DEF Others
        <3>4. QED BY <3>2, <3>3, PhaseOfOne
    <2>5. CASE cancon_rmt = None /\ cancon_host = c
        <3>1. Doing(c, "up", "disconnect") \/ Gone
            BY <2>0, <2>3, <2>5
        <3>2. Phase(c)'
            BY <1>0, <2>2, <2>5, <3>1 DEF Phase, Leaving, NotRunning, Releasing, Doing
        <3>3. Others(c)
            BY <1>0, <1>3, <2>5, NoneAssumption DEF Others
        <3>4. QED BY <3>2, <3>3, PhaseOfOne
    <2>6. QED BY <1>0, <1>3, <2>0, <2>4, <2>5 DEF InHandler
<1>4. saving = None \/ saving \in Clients
    BY <1>0 DEF ProtoType, NodeType, Owners
<1>5. QED BY <1>0, <1>1, <1>2, <1>3, <1>4

(* The invariant is kept by every step of polite cancons. *)
LEMMA PoliteInvStep ==
    ASSUME Polite, PoliteInv, [Next]_vars, prom' # "lapsed"
    PROVE  PoliteInv'
<1>0. /\ ProtoType /\ ProtoType' /\ PromAgrees' /\ InHandler
      /\ \A c \in Clients : forced[c] = <<>> /\ Phase(c)
    BY ProtoTypeStep, PromAgreesStep DEF PoliteInv
<1>1. SUFFICES InHandler' /\ UNCHANGED forced /\ \A c \in Clients : Phase(c)'
    BY <1>0 DEF PoliteInv
<1>h. UNCHANGED node => InHandler'
    BY <1>0 DEF InHandler, node
<1>2. ASSUME NEW c \in Clients, main(c)
      PROVE  InHandler' /\ UNCHANGED forced /\ \A d \in Clients : Phase(d)'
    <2>1. /\ Send(c, Main, "connect_ro", 1, None) /\ UNCHANGED <<node, ans>>
          /\ alive[c] = "new" /\ alive' = [alive EXCEPT ![c] = "live"]
        BY <1>2 DEF main
    <2>2. NotRunning(c) /\ Idle(c) /\ cancon_rmt # c
        BY <1>0, <2>1 DEF Phase, NotRunning, Looking, Connecting, Connected, Leaving, Doing
    <2>3. Main \in Threads /\ 1 \in Threads /\ Main # 1
        BY TwoThreads
    <2>4. /\ Asked(c, "connect_ro")' /\ UNCHANGED forced
          /\ at'[c] = [at[c] EXCEPT ![Main] = "connect_ro"]
          /\ \A d \in Clients \ {c} : req'[d] = req[d] /\ at'[d] = at[d]
        BY <1>0, <2>1, <2>2, <2>3, SendAsks DEF Idle, node
    <2>5. Doing(c, "connect_ro", "none")'
        BY <1>0, <2>1, <2>2, <2>3, <2>4 DEF Doing, NotRunning, ProtoType, ThreadType, ProcType
    <2>6. Phase(c)'
        BY <2>1, <2>2, <2>4, <2>5 DEF Phase, Looking, node
    <2>7. Others(c)
        BY <1>0, <2>1, <2>4 DEF Others, node, ProtoType, ProcType
    <2>8. QED BY <1>h, <2>1, <2>4, <2>6, <2>7, PhaseOfOne
<1>3. ASSUME NEW c \in Clients, ClientStep(c)
      PROVE  InHandler' /\ UNCHANGED forced /\ \A d \in Clients : Phase(d)'
    <2>1. UNCHANGED node
        BY <1>3, OthersKeepNode
    <2>2. ASSUME NEW t \in Threads, disconnect(c, t)
          PROVE  UNCHANGED forced /\ \A d \in Clients : Phase(d)'
        <3>1. /\ Send(c, t, "disconnect", 1, None) /\ UNCHANGED <<node, ans, alive>>
              /\ alive[c] = "live" /\ at[c][t] = "stopping"
            BY <2>2 DEF disconnect
        <3>2. Threads = {Main, 1} /\ Main # 1
            BY TwoThreads
        <3>3. Doing(c, "up", "stopping") /\ Idle(c) /\ cancon_rmt = c /\ t = 1
            BY <1>0, <3>1, <3>2 DEF Phase, NotRunning, Looking, Connecting, Connected, Leaving, Doing
        <3>9. req[c] = <<>> /\ saving' # c /\ ans'[c] = <<>>
            BY <3>1, <3>3 DEF Idle, node
        <3>4. /\ Asked(c, "disconnect")' /\ UNCHANGED forced
              /\ at'[c] = [at[c] EXCEPT ![t] = "disconnect"]
              /\ \A d \in Clients \ {c} : req'[d] = req[d] /\ at'[d] = at[d]
            BY <1>0, <2>2, <3>1, <3>9, SendAsks
        <3>5. Doing(c, "up", "disconnect")'
            BY <1>0, <3>1, <3>2, <3>3, <3>4 DEF Doing, ProtoType, ThreadType
        <3>6. Phase(c)'
            BY <3>1, <3>3, <3>4, <3>5 DEF Phase, Leaving, Releasing, node
        <3>7. Others(c)
            BY <3>1, <3>4 DEF Others, node
        <3>8. QED BY <3>4, <3>6, <3>7, PhaseOfOne
    <2>3. QED BY <1>3, <1>h, <2>1, <2>2, AcknakPhase, TimedoutPhase DEF ClientStep, ThreadStep
<1>a. ASSUME NEW c \in Clients, sigterm(c)
      PROVE  InHandler' /\ UNCHANGED forced /\ \A d \in Clients : Phase(d)'
    <2>1. Exit(c) /\ UNCHANGED <<node, ans>> /\ alive[c] = "live" /\ \E t \in Discs : at[c][t] # "none"
        BY <1>a DEF sigterm
    <2>2. Discs = {1} /\ Threads = {Main, 1} /\ Main # 1
        BY TwoThreads
    <2>3. Leaving(c)
        BY <1>0, <2>1, <2>2 DEF Phase, NotRunning, Looking, Connecting, Connected, Doing
    <2>4. /\ alive'[c] = "exited" /\ at'[c][Main] = "none" /\ at'[c][1] = "none"
          /\ UNCHANGED <<req, forced>>
          /\ \A d \in Clients \ {c} : at'[d] = at[d] /\ alive'[d] = alive[d]
        BY <1>0, <2>1, <2>2 DEF Exit, ProtoType, ThreadType, ProcType
    <2>5. (Idle(c) => Idle(c)') /\ (Releasing(c) => Releasing(c)')
        BY <2>1, <2>4 DEF Idle, Releasing, Asked, BeingSaved, Answered, node
    <2>6. Phase(c)'
        BY <2>3, <2>4, <2>5 DEF Leaving, Phase, NotRunning
    <2>7. Others(c)
        BY <2>1, <2>4 DEF Others, node
    <2>8. QED BY <1>h, <2>1, <2>4, <2>6, <2>7, PhaseOfOne
<1>4. ASSUME NEW c \in Clients, quit(c)
      PROVE  InHandler' /\ UNCHANGED forced /\ \A d \in Clients : Phase(d)'
    <2>1. /\ alive[c] = "live" /\ at[c][Main] = "up" /\ start_disconnect(c)
          /\ UNCHANGED <<node, req, ans, forced, alive>>
        BY <1>4 DEF quit
    <2>2. Threads = {Main, 1} /\ Discs = {1} /\ Main # 1
        BY TwoThreads
    <2>3. CASE at[c][1] # "none"
        <3>1. {t \in Discs : at[c][t] = "none"} = {}
            BY <2>2, <2>3
        <3>2. UNCHANGED at
            BY <2>1, <3>1 DEF start_disconnect
        <3>3. QED BY <1>0, <1>h, <2>1, <3>2, PhaseKept DEF node
    <2>4. CASE at[c][1] = "none"
        <3>1. Connected(c)
            BY <1>0, <2>1, <2>4 DEF Phase, NotRunning, Looking, Connecting, Leaving, Doing
        <3>2. {t \in Discs : at[c][t] = "none"} = {1}
            BY <2>2, <2>4
        <3>3. (CHOOSE n \in {1} : \A m \in {1} : n <= m) = 1
            OBVIOUS
        <3>4. at' = [at EXCEPT ![c][1] = "stopping"]
            BY <2>1, <3>2, <3>3 DEF start_disconnect
        <3>5. /\ at'[c][1] = "stopping" /\ at'[c][Main] = "up"
              /\ \A d \in Clients \ {c} : at'[d] = at[d]
            BY <1>0, <2>1, <2>2, <3>4 DEF ProtoType, ThreadType
        <3>7. Doing(c, "up", "stopping")' /\ Idle(c)' /\ cancon_rmt' = c
            BY <2>1, <3>1, <3>5 DEF Doing, Connected, Idle, node
        <3>8. Phase(c)'
            BY <3>7 DEF Phase, Leaving
        <3>9. Others(c)
            BY <2>1, <3>5 DEF Others, node
        <3>10. QED BY <1>h, <2>1, <3>8, <3>9, PhaseOfOne
    <2>5. QED BY <2>3, <2>4
<1>5. ASSUME NEW c \in Clients, force_disconn(c) \/ Lose(c)
      PROVE  FALSE
    BY <1>0, <1>5 DEF force_disconn, Lose, Polite
<1>6. ASSUME NEW c \in Clients, canobj_packet(c)
      PROVE  InHandler' /\ UNCHANGED forced /\ \A d \in Clients : Phase(d)'
    BY <1>6, PacketPhase
<1>7. CASE canobj_cancon_host
    BY <1>7, HostPhase
<1>8. CASE canobj_init
    BY <1>8, RebootPhase
<1>9. CASE UNCHANGED vars
    BY <1>0, <1>h, <1>9, PhaseKept DEF vars, node
<1>10. QED BY <1>2, <1>3, <1>a, <1>4, <1>5, <1>6, <1>7, <1>8, <1>9 DEF Next, Network

(* ... and holds when none of them has started, until a reboot does not    *)
(* find the owner in the PROM.                                             *)
LEMMA PoliteInvariant ==
    ASSUME Polite
    PROVE  Spec => [](prom = "lapsed" \/ PoliteInv)
<1>1. Init => PoliteInv
    <2> SUFFICES ASSUME Init PROVE PoliteInv
        OBVIOUS
    <2>1. Threads = {Main, 1}
        BY TwoThreads
    <2>2. \A c \in Clients : forced[c] = <<>> /\ Phase(c)
        BY <2>1, NoneAssumption DEF Init, Phase, NotRunning, Idle
    <2>3. QED BY <2>2, ProtoTypeInit DEF Init, PoliteInv, PromAgrees, InHandler
<1>2. prom = "lapsed" /\ [Next]_vars => prom' = "lapsed"
    <2> SUFFICES ASSUME prom = "lapsed", [Next]_vars PROVE prom' = "lapsed"
        OBVIOUS
    <2>1. ASSUME NEW c \in Clients, canobj_packet(c) PROVE prom' = prom
        <3>1. CASE Head(req[c]) \in Disconns
            BY <2>1, <3>1 DEF canobj_packet, canobj_disconnect, cancon_setcon, node
        <3>2. CASE Head(req[c]) \notin Disconns
            BY <2>1, <3>2 DEF canobj_packet, canobj_connect, cancon_setcon, node
        <3>3. QED BY <3>1, <3>2
    <2>2. CASE canobj_cancon_host \/ canobj_init
        BY <2>2 DEF canobj_cancon_host, canobj_init
    <2>3. CASE UNCHANGED vars
        BY <2>3 DEF vars
    <2>4. QED BY <2>1, <2>2, <2>3, OthersKeepNode DEF Next, Network, node
<1>3. (prom = "lapsed" \/ PoliteInv) /\ [Next]_vars => (prom = "lapsed" \/ PoliteInv)'
    BY <1>2, PoliteInvStep
<1>4. QED BY <1>1, <1>3, PTL DEF Spec

(* "At most one cancon program can attach to the console object of a node" *)
(* (can_console.c): among cancons that neither steal nor quit twice, on a  *)
(* network that loses and delays nothing, each one that is connected owns  *)
(* the console, however many there are, whenever the node reboots, whether *)
(* or not the SIGTERM of a disconnect ends the others before they have     *)
(* released it, and as long as no reboot misses a write the PROM refused.  *)
THEOREM ConnectedOwns ==
    ASSUME Polite
    PROVE  Spec => []UpOwns
<1>1. prom = "lapsed" \/ PoliteInv => UpOwns
    <2>1. Discs = {1}
        BY TwoThreads
    <2>2. QED BY <2>1 DEF PoliteInv, Phase, NotRunning, Looking, Connecting, Connected, Leaving,
                          Doing, UpOwns, Up
<1>2. QED BY <1>1, PoliteInvariant, PTL
=============================================================================
