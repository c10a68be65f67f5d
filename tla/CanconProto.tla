---------------------------- MODULE CanconProto ----------------------------
(***************************************************************************)
(* Who owns a node's console: the connect, theft and disconnect protocols  *)
(* of cancon (cmd/cancon.c) against the CONSOLE_CONNECT and CONSOLE_DISCONN *)
(* objects of the node (kernel/drivers/meiko/can_obj.c) and the FORCE_DISCONN *)
(* object of the cancon that is to be robbed.                              *)
(*                                                                         *)
(* Each cancon is a process with a console object of its own (CanFile),    *)
(* here its identity.  Its main thread runs connect_protocol; every        *)
(* start_disconnect, by the user, a signal or a FORCE_DISCONN, adds a      *)
(* thread that runs disconnect.  A thread is in one exchange (mysend) at a *)
(* time: a request goes out, and an answer for the same object, or a       *)
(* timeout, comes back.  Packets of a pair of nodes keep their order; a    *)
(* queue that is full drops what comes.                                    *)
(***************************************************************************)
EXTENDS Integers, Sequences

CONSTANTS
    Clients,        \* runs of the program cancon
    Fopt,           \* those started with -f
    MAX_RETRIES,    \* tries of an exchange
    HEIST_POLLS,    \* polls of a thief before it disconnects the victim itself
    MaxDisc,        \* bound on the disconnect threads of a process
    MaxQ,           \* packets that fit a queue
    Loss,           \* whether packets get lost
    Reboots,        \* whether the node may go down and come up again
    Refuses,        \* whether its PROM may refuse to be written or read
    Late            \* whether an answer may come after its timeout

ASSUME BoundsAssumption ==
    /\ Fopt \subseteq Clients
    /\ MAX_RETRIES \in Nat \ {0} /\ HEIST_POLLS \in Nat \ {0}
    /\ MaxDisc \in Nat \ {0} /\ MaxQ \in Nat \ {0}
    /\ {Loss, Late, Reboots, Refuses} \subseteq BOOLEAN

None == "none"      \* 3f,3f,3f,3f
ASSUME NoneAssumption == None \notin Clients

VARIABLES
    cancon_rmt,     \* the node: the owner of its console
    cancon_host,    \* the same in the PROM, kept over a reboot
    saving,         \* whose request set cancon_rmt, until it is in the PROM too
    req,            \* req[c]: requests under way from c to the node
    ans,            \* ans[c]: answers under way to c, or in its ackbuf
    forced,         \* forced[c]: thieves whose FORCE_DISCONN is under way to c
    at,             \* at[c][t]: the exchange thread t of c is in
    try,            \* try[c][t]: how many times it was sent
    polls,          \* polls[c]: heist_connection's try
    alive,          \* alive[c]: "new", "live" or "exited"
    prom            \* (history) "stale" since the PROM has refused the owner; "lapsed"
                    \* once a reboot did not find the owner in it

vars == <<cancon_rmt, cancon_host, saving, req, ans, forced, at, try, polls, alive, prom>>
node == <<cancon_rmt, cancon_host, saving, prom>>

Main == 0
Discs == 1 .. MaxDisc
Threads == {Main} \cup Discs

(* The exchanges of connect_protocol, heist_connection and disconnect, and *)
(* the object that each is about: answers are matched by it alone.         *)
Reads == {"connect_ro", "heist_ro"}
Disconns == {"heist_disc", "heist_disc2", "disconnect"}
Exchanges == Reads \cup Disconns \cup {"heist_force", "connect_wo"}
ObjectOf(x) ==
    IF x \in Reads \cup {"connect_wo"} THEN "CONSOLE_CONNECT"
    ELSE IF x \in Disconns THEN "CONSOLE_DISCONN" ELSE "FORCE_DISCONN"

Init ==
    /\ cancon_rmt = None /\ cancon_host = None /\ saving = None
    /\ prom = "current"
    /\ req = [c \in Clients |-> <<>>]
    /\ ans = [c \in Clients |-> <<>>]
    /\ forced = [c \in Clients |-> <<>>]
    /\ at = [c \in Clients |-> [t \in Threads |-> "none"]]
    /\ try = [c \in Clients |-> [t \in Threads |-> 0]]
    /\ polls = [c \in Clients |-> 0]
    /\ alive = [c \in Clients |-> "new"]

-----------------------------------------------------------------------------
(* can_send into a queue: what does not fit is dropped. *)
Push(q, m) == IF Len(q) < MaxQ THEN Append(q, m) ELSE q

(* Thread t of c sends a request of exchange x, the n-th time; victim is   *)
(* the cancon that a FORCE_DISCONN goes to.                                *)
Send(c, t, x, n, victim) ==
    /\ at' = [at EXCEPT ![c][t] = x]
    /\ try' = [try EXCEPT ![c][t] = n]
    /\ IF x = "heist_force"
       THEN /\ forced' = [forced EXCEPT ![victim] = Push(@, c)]
            /\ UNCHANGED req
       ELSE /\ req' = [req EXCEPT ![c] = Push(@, x)]
            /\ UNCHANGED forced

(* exit(): the file is closed, and with it goes the console object; the    *)
(* state of the dead process is cleared.                                   *)
Exit(c) ==
    /\ alive' = [alive EXCEPT ![c] = "exited"]
    /\ at' = [at EXCEPT ![c] = [t \in Threads |-> "none"]]
    /\ try' = [try EXCEPT ![c] = [t \in Threads |-> 0]]
    /\ UNCHANGED <<req, forced>>

(* main up to connect_protocol's first send_connect. *)
main(c) ==
    /\ alive[c] = "new"
    /\ alive' = [alive EXCEPT ![c] = "live"]
    /\ Send(c, Main, "connect_ro", 1, None)
    /\ UNCHANGED <<node, ans, polls>>

-----------------------------------------------------------------------------
(* connect_protocol and heist_connection: what follows an exchange that    *)
(* was ACKed with dat, the owner of the console.                           *)
connect_ro_acked(c, dat) ==
    /\ UNCHANGED polls
    /\ IF dat = None THEN Send(c, Main, "connect_wo", 1, None) /\ UNCHANGED alive
       ELSE IF c \in Fopt THEN Send(c, Main, "heist_force", 1, dat) /\ UNCHANGED alive
       ELSE Exit(c)

heist_ro_acked(c, dat) ==
    LET n == polls[c] + 1
    IN  /\ polls' = [polls EXCEPT ![c] = n % HEIST_POLLS]
        /\ Send(c, Main,
                IF n = HEIST_POLLS THEN "heist_disc2"
                ELSE IF dat # None THEN "heist_ro" ELSE "connect_wo", 1, None)
        /\ UNCHANGED alive

Acked(c, t, dat) ==
    CASE at[c][t] = "connect_ro" -> connect_ro_acked(c, dat)
      [] at[c][t] \in {"heist_force", "heist_disc"} ->
            Send(c, t, "heist_ro", 1, None) /\ UNCHANGED <<polls, alive>>
      [] at[c][t] = "heist_ro" -> heist_ro_acked(c, dat)
      [] at[c][t] = "heist_disc2" ->
            Send(c, t, "connect_wo", 1, None) /\ UNCHANGED <<polls, alive>>
      [] at[c][t] = "connect_wo" ->
            /\ at' = [at EXCEPT ![c][t] = "up"]
            /\ try' = [try EXCEPT ![c][t] = 0]
            /\ UNCHANGED <<req, forced, polls, alive>>
      [] at[c][t] = "disconnect" -> Exit(c) /\ UNCHANGED polls

(* mysend after a NAK or a timeout: again, up to MAX_RETRIES times; a      *)
(* FORCE_DISCONN is sent once.  Then the caller gives up, except that a    *)
(* thief goes on to disconnect the victim itself.                          *)
MayRetry_OneMore(n) == n <= MAX_RETRIES         \* mutant: off by one
MayRetry(n) == n < MAX_RETRIES

Failed(c, t) ==
    /\ UNCHANGED polls
    /\ CASE at[c][t] = "heist_force" -> Send(c, t, "heist_disc", 1, None) /\ UNCHANGED alive
         [] at[c][t] # "heist_force" /\ MayRetry(try[c][t]) ->
                Send(c, t, at[c][t], try[c][t] + 1, None) /\ UNCHANGED alive
         [] OTHER -> Exit(c)

(* waitfor_acknak: of what the reader thread has put in ackbuf, the last   *)
(* answer for the object counts; the others, also those that another       *)
(* thread waits for, are thrown away.                                      *)
waitfor_acknak(c, t) ==
    LET Ours(n) == ans[c][n].object = ObjectOf(at[c][t])
    IN  /\ alive[c] = "live" /\ at[c][t] \in Exchanges
        /\ \E k \in 1 .. Len(ans[c]) :
            /\ ans' = [ans EXCEPT ![c] = SubSeq(@, k + 1, Len(@))]
            /\ \/ /\ \A n \in 1 .. k : ~Ours(n)
                  /\ UNCHANGED <<req, forced, at, try, polls, alive>>
               \/ \E last \in 1 .. k :
                  /\ Ours(last) /\ \A n \in last + 1 .. k : ~Ours(n)
                  /\ IF ans[c][last].type = "ACK" THEN Acked(c, t, ans[c][last].dat)
                     ELSE Failed(c, t)
        /\ UNCHANGED node

(* Nothing for c is under way: a timeout that no late answer can follow. *)
Silent(c) ==
    /\ req[c] = <<>> /\ ans[c] = <<>> /\ saving # c
    /\ \A o \in Clients : \A n \in 1 .. Len(forced[o]) : forced[o][n] # c

Expired_Never(c) == FALSE                       \* mutant: a wait without timeout
Expired(c) == ans[c] = <<>> /\ (Late \/ Silent(c))

waitfor_timedout(c, t) ==
    /\ alive[c] = "live" /\ at[c][t] \in Exchanges
    /\ Expired(c)
    /\ Failed(c, t)
    /\ UNCHANGED <<node, ans>>

-----------------------------------------------------------------------------
(* start_disconnect: another thread (not more than MaxDisc of them here),  *)
(* which in disconnect first sends SIGTERM to two threads ...              *)
start_disconnect(c) ==
    LET free == {t \in Discs : at[c][t] = "none"}
        t == CHOOSE n \in free : \A m \in free : n <= m
    IN  at' = IF free = {} THEN at ELSE [at EXCEPT ![c][t] = "stopping"]

(* ... and then CONSOLE_DISCONN to the node, if it lives to do so: nothing *)
(* handles SIGTERM, which ends the process as soon as it is delivered.     *)
disconnect(c, t) ==
    /\ alive[c] = "live" /\ at[c][t] = "stopping"
    /\ Send(c, t, "disconnect", 1, None)
    /\ UNCHANGED <<node, ans, polls, alive>>

sigterm(c) ==
    /\ alive[c] = "live" /\ \E t \in Discs : at[c][t] # "none"
    /\ Exit(c)
    /\ UNCHANGED <<node, ans, polls>>

(* The user types the escape sequence, or a signal arrives. *)
quit(c) ==
    /\ alive[c] = "live" /\ at[c][Main] = "up"
    /\ start_disconnect(c)
    /\ UNCHANGED <<node, req, ans, forced, try, polls, alive>>

Answer(object, type, dat) == [object |-> object, type |-> type, dat |-> dat]

(* FORCE_DISCONN reaches c's node: the driver answers for a cancon that is *)
(* gone (canobj_force_disconn), the reader thread of one that has its      *)
(* console_object set answers and disconnects; else nobody answers.        *)
HasConsoleObject(c) == alive[c] = "live" /\ at[c][Main] \in {"connect_wo", "up"}

force_disconn(c) ==
    /\ forced[c] # <<>>
    /\ forced' = [forced EXCEPT ![c] = Tail(@)]
    /\ ans' = IF alive[c] = "exited" \/ HasConsoleObject(c)
              THEN [ans EXCEPT ![Head(forced[c])] =
                        Push(@, Answer("FORCE_DISCONN", "ACK", None))]
              ELSE ans
    /\ IF HasConsoleObject(c) THEN start_disconnect(c) ELSE UNCHANGED at
    /\ UNCHANGED <<node, req, try, polls, alive>>

-----------------------------------------------------------------------------
(* The node: cancon_setcon, on behalf of c. *)
cancon_setcon(c, owner) ==
    cancon_rmt' = owner /\ saving' = c /\ UNCHANGED <<cancon_host, prom>>

MayConnect_Always == TRUE               \* mutant: a connected console is given away
MayConnect == cancon_rmt = None

(* canobj_connect, canobj_disconnect: the answer to c, who asks, or        *)
(* cancon_setcon, which canobj_cancon_host is to follow.                   *)
canobj_connect(c, x) ==
    \/ /\ x \in Reads
       /\ ans' = [ans EXCEPT ![c] = Push(@, Answer("CONSOLE_CONNECT", "ACK", cancon_rmt))]
       /\ UNCHANGED node
    \/ /\ x = "connect_wo" /\ ~MayConnect
       /\ ans' = [ans EXCEPT ![c] = Push(@, Answer("CONSOLE_CONNECT", "NAK", None))]
       /\ UNCHANGED node
    \/ x = "connect_wo" /\ MayConnect /\ cancon_setcon(c, c) /\ UNCHANGED ans

canobj_disconnect(c) ==
    IF cancon_rmt = None
    THEN /\ ans' = [ans EXCEPT ![c] = Push(@, Answer("CONSOLE_DISCONN", "NAK", None))]
         /\ UNCHANGED node
    ELSE cancon_setcon(c, None) /\ UNCHANGED ans

canobj_packet(c) ==
    /\ saving = None /\ req[c] # <<>>
    /\ req' = [req EXCEPT ![c] = Tail(@)]
    /\ IF Head(req[c]) \in Disconns THEN canobj_disconnect(c)
       ELSE canobj_connect(c, Head(req[c]))
    /\ UNCHANGED <<forced, at, try, polls, alive>>

(* canobj_cancon_host(SET), and the ACK, which is sent also if the PROM    *)
(* has refused the new owner (obp_setprop's result is ignored).            *)
canobj_cancon_host ==
    /\ saving # None
    /\ \/ /\ cancon_host' = cancon_rmt
          /\ prom' = IF prom = "stale" THEN "current" ELSE prom
       \/ /\ Refuses
          /\ prom' = IF prom = "current" THEN "stale" ELSE prom
          /\ UNCHANGED cancon_host
    /\ ans' = [ans EXCEPT ![saving] = Push(@,
                    IF cancon_rmt = None THEN Answer("CONSOLE_DISCONN", "ACK", None)
                    ELSE Answer("CONSOLE_CONNECT", "ACK", cancon_rmt))]
    /\ saving' = None
    /\ UNCHANGED <<cancon_rmt, req, forced, at, try, polls, alive>>

(* The node reboots, perhaps between the two: canobj_init gets the owner   *)
(* back from the PROM, or any other if it cannot be read (tmpstr is then   *)
(* uninitialised).  (That packets in its rings are lost is left to Lose.)  *)
canobj_init ==
    /\ Reboots
    /\ \/ /\ cancon_rmt' = cancon_host
          /\ prom' = IF prom = "stale" THEN "lapsed" ELSE prom
       \/ Refuses /\ cancon_rmt' \in Clients \cup {None} /\ prom' = "lapsed"
    /\ saving' = None
    /\ UNCHANGED <<cancon_host, req, ans, forced, at, try, polls, alive>>

(* The network (external) loses a packet. *)
Lose(c) ==
    /\ Loss
    /\ \/ req[c] # <<>> /\ req' = [req EXCEPT ![c] = Tail(@)] /\ UNCHANGED <<ans, forced>>
       \/ ans[c] # <<>> /\ ans' = [ans EXCEPT ![c] = Tail(@)] /\ UNCHANGED <<req, forced>>
       \/ forced[c] # <<>> /\ forced' = [forced EXCEPT ![c] = Tail(@)] /\ UNCHANGED <<req, ans>>
    /\ UNCHANGED <<node, at, try, polls, alive>>

-----------------------------------------------------------------------------
ThreadStep(c, t) == waitfor_acknak(c, t) \/ waitfor_timedout(c, t) \/ disconnect(c, t)
ClientStep(c) == \E t \in Threads : ThreadStep(c, t)
Network(c) == canobj_packet(c) \/ force_disconn(c)

Next ==
    \/ \E c \in Clients : main(c) \/ ClientStep(c) \/ quit(c) \/ sigterm(c) \/ Network(c) \/ Lose(c)
    \/ canobj_cancon_host \/ canobj_init

Spec == Init /\ [][Next]_vars

(* Packets that are not lost arrive and are handled; a thread that waits   *)
(* gets an answer or its timeout.  Nobody need start, quit or steal.       *)
Fairness ==
    /\ WF_vars(canobj_cancon_host)
    /\ \A c \in Clients :
        /\ WF_vars(canobj_packet(c)) /\ WF_vars(force_disconn(c))
        /\ \A t \in Threads : WF_vars(ThreadStep(c, t))
FairSpec == Spec /\ Fairness

-----------------------------------------------------------------------------
(* Type correctness: the owner is a cancon or nobody, no exchange is sent  *)
(* more than MAX_RETRIES times, no queue overflows.                        *)
TypeOK ==
    /\ {cancon_rmt, cancon_host, saving} \subseteq Clients \cup {None}
    /\ \A c \in Clients :
        /\ Len(req[c]) <= MaxQ /\ Len(ans[c]) <= MaxQ /\ Len(forced[c]) <= MaxQ
        /\ \A t \in Threads :
            /\ at[c][t] \in Exchanges \cup {"none", "up", "stopping"}
            /\ try[c][t] \in 0 .. MAX_RETRIES
        /\ polls[c] \in 0 .. HEIST_POLLS - 1
        /\ alive[c] \in {"new", "live", "exited"}

Up(c) == alive[c] = "live" /\ at[c][Main] = "up" /\ \A t \in Discs : at[c][t] = "none"

(* A cancon that has told its user "Connected", and is not disconnecting,  *)
(* owns the console, whenever the node reboots; hence "at most one cancon  *)
(* program can attach to the console object of a node" (can_console.c).    *)
(* Except when a reboot could not find the owner in the PROM, because that *)
(* had refused it (can_obj.c:77) or cannot be read.                        *)
UpOwns == prom # "lapsed" => \A c \in Clients : Up(c) => cancon_rmt = c

(* cancon.c says of disconnect: "Disconnect from the remote node by        *)
(* writing to the CONSOLE_DISCONN object": a cancon that is gone, and of   *)
(* which no request is under way, has not left the console to itself.      *)
DisconnectReleases ==
    \A c \in Clients : alive[c] = "exited" /\ req[c] = <<>> => cancon_rmt # c

(* can_obj.c says of the owner in the PROM: "It needs to be out there so a *)
(* console connection can persist across a reboot": that of a connected    *)
(* cancon is there.                                                        *)
ConnectionPersists == \A c \in Clients : Up(c) => cancon_host = c

(* cancon.8: "If the console is already connected to another cancon, this  *)
(* will fail": a cancon whose CONSOLE_CONNECT failed does not own it.      *)
FailsOnlyIfTaken ==
    [][\A c \in Clients :
        alive[c] = "live" /\ alive'[c] = "exited" /\ at[c][Main] = "connect_wo"
            => cancon_rmt # c]_vars

(* can_console.c: "At most one cancon program can attach to the console    *)
(* object of a node".                                                      *)
AtMostOneUp == \A c, d \in Clients : Up(c) /\ Up(d) => c = d

(* Every cancon gets its console or gives up: no exchange waits for ever.  *)
Settles == \A c \in Clients : alive[c] = "live" ~> (alive[c] = "exited" \/ at[c][Main] = "up")

(* A disconnect ends the program. *)
DisconnectEnds ==
    \A c \in Clients : (\E t \in Discs : at[c][t] = "disconnect") ~> alive[c] = "exited"
=============================================================================
