----------------------------- MODULE CanconTerm -----------------------------
(***************************************************************************)
(* The terminal side of cancon (cmd/cancon.c): tty_reader takes what is    *)
(* typed, obeys and removes escape sequences and queues the rest in        *)
(* outchars[]; writer sends it, up to DatChars characters to a packet,     *)
(* each of which must be ACKed before the next is sent.  A break is sent   *)
(* by tty_reader itself; both threads find their answers in ackbuf[].      *)
(*                                                                         *)
(* A character on its way is known by its place in typed, the sequence of  *)
(* all that was typed; of a character, only what tty_reader makes of it.   *)
(***************************************************************************)
EXTENDS Integers, Sequences, SequencesExt

CONSTANTS
    Chars,          \* what can be typed, of "cr", "escape", "other" or Obeyed
    MaxTyped,       \* bound on what is typed
    ReadMax,        \* characters a read() returns, 4 in the code
    OUTCHARSLEN,
    DatChars,       \* characters in a packet, 4 in the code
    MAX_RETRIES,
    ACKBUFLEN

ASSUME TermAssumption ==
    /\ MaxTyped \in Nat /\ ReadMax \in Nat \ {0} /\ OUTCHARSLEN \in Nat \ {0}
    /\ DatChars \in Nat \ {0} /\ MAX_RETRIES \in Nat \ {0}
    /\ ACKBUFLEN \in Nat \ {0}

VARIABLES
    typed,          \* all that was typed
    done, upto,     \* how many of these tty_reader has dealt with, and has read
    hist,           \* the two characters before
    outbuf,         \* what is left of those it has read
    outchars,
    at,             \* at["tty"], at["writer"]
    dat,            \* characters of the packet that writer sends
    try,            \* how often a thread has sent its packet
    ackbuf,         \* the objects answered, all of them ACKs
    gone,           \* 1 when disconnect has killed the threads
    fault           \* 1 once a packet timed out or characters were thrown away

termVars == <<typed, done, upto, hist, outbuf, outchars, at, dat, try, ackbuf, gone>>

Threads == {"tty", "writer"}
Object == [tty |-> "break", writer |-> "dat"]

TermInit ==
    /\ typed = <<>> /\ done = 0 /\ upto = 0 /\ hist = <<"cr", "cr">> /\ outbuf = <<>>
    /\ outchars = <<>> /\ at = [tty |-> "read", writer |-> "get"] /\ dat = <<>>
    /\ try = [t \in Threads |-> 0] /\ ackbuf = <<>> /\ gone = 0 /\ fault = 0

Running == gone = 0
Go(t, place) == at' = [at EXCEPT ![t] = place]

-----------------------------------------------------------------------------
(* tty_reader: read() returns some characters. *)
Typed(s) ==
    /\ Running /\ at["tty"] = "read"
    /\ Len(typed) + Len(s) <= MaxTyped
    /\ typed' = typed \o s
    /\ upto' = upto + Len(s)
    /\ Go("tty", "parse")
    /\ UNCHANGED <<done, hist, outbuf, outchars, dat, try, ackbuf, gone, fault>>

(* One round of its inner loop, character c at place n: an escape sequence *)
(* is obeyed or passed on, an escape character at the start of a line kept *)
(* back, and everything else passed on.  "break" stands for the two        *)
(* sequences that send a packet, a break and a reset.                      *)
Obeyed == {"leave", "help", "break"}
InEscape == hist[1] = "cr" /\ hist[2] = "escape"
PassedOn_EscapeToo(c, n) ==             \* mutant: the escape character is not kept back
    IF InEscape THEN IF c \in Obeyed THEN <<>> ELSE <<n - 1, n>> ELSE <<n>>
PassedOn(c, n) ==
    IF InEscape THEN IF c \in Obeyed THEN <<>> ELSE <<n - 1, n>>
    ELSE IF c = "escape" /\ hist[2] = "cr" THEN <<>> ELSE <<n>>

Parse ==
    /\ Running /\ at["tty"] = "parse" /\ done < upto
    /\ LET c == typed[done + 1]
       IN  /\ outbuf' = outbuf \o PassedOn(c, done + 1)
           /\ hist' = <<hist[2], c>>
           /\ Go("tty", IF InEscape /\ c = "break" THEN "send" ELSE "parse")
    /\ done' = done + 1
    /\ UNCHANGED <<typed, upto, outchars, dat, try, ackbuf, gone, fault>>

(* signal_outchars: what fits; the writer is woken if it waits. *)
Room == OUTCHARSLEN - Len(outchars)

WakeWriter_Not == "asleep"              \* mutant: the condition is not signalled
WakeWriter == "woken"

signal_outchars ==
    /\ Running /\ at["tty"] = "parse" /\ done = upto
    /\ outchars' = outchars \o (IF Len(outbuf) <= Room THEN outbuf ELSE SubSeq(outbuf, 1, Room))
    /\ fault' = IF Len(outbuf) > Room THEN 1 ELSE fault
    /\ outbuf' = <<>>
    /\ at' = [at EXCEPT !["tty"] = "read",
                        !["writer"] = IF @ = "asleep" /\ outchars' # outchars
                                      THEN WakeWriter ELSE @]
    /\ UNCHANGED <<typed, done, upto, hist, dat, try, ackbuf, gone>>

(* waitfor_outchars: sleep once, if there are none (a thread may wake by   *)
(* itself), and take what there is then, perhaps nothing.                  *)
waitfor_outchars_sleep ==
    /\ Running /\ at["writer"] = "get" /\ outchars = <<>>
    /\ Go("writer", "asleep")
    /\ UNCHANGED <<typed, done, upto, hist, outbuf, outchars, dat, try, ackbuf, gone, fault>>

SpuriousWakeup ==
    /\ Running /\ at["writer"] = "asleep"
    /\ Go("writer", "woken")
    /\ UNCHANGED <<typed, done, upto, hist, outbuf, outchars, dat, try, ackbuf, gone, fault>>

Taken == IF Len(outchars) < DatChars THEN Len(outchars) ELSE DatChars
Remaining == SubSeq(outchars, Taken + 1, Len(outchars))

waitfor_outchars ==
    /\ Running
    /\ at["writer"] = "woken" \/ (at["writer"] = "get" /\ outchars # <<>>)
    /\ dat' = SubSeq(outchars, 1, Taken)
    /\ outchars' = Remaining
    /\ Go("writer", "send")
    /\ UNCHANGED <<typed, done, upto, hist, outbuf, try, ackbuf, gone, fault>>

-----------------------------------------------------------------------------
(* mysend: the packet goes out (the composition says where to) ... *)
can_send(t) ==
    /\ Running /\ at[t] = "send"
    /\ try' = [try EXCEPT ![t] = @ + 1]
    /\ Go(t, "wait")
    /\ UNCHANGED <<typed, done, upto, hist, outbuf, outchars, dat, ackbuf, gone, fault>>

(* ... and waitfor_acknak takes all answers there are, its own or not; a   *)
(* thread that finds none of its own waits on.                             *)
Finished(t) ==
    /\ Go(t, IF t = "tty" THEN "parse" ELSE "get")
    /\ try' = [try EXCEPT ![t] = 0]
    /\ dat' = IF t = "writer" THEN <<>> ELSE dat

waitfor_acknak(t) ==
    /\ Running /\ at[t] = "wait" /\ ackbuf # <<>>
    /\ IF Contains(ackbuf, Object[t]) THEN Finished(t) ELSE UNCHANGED <<at, dat, try>>
    /\ ackbuf' = <<>>
    /\ UNCHANGED <<typed, done, upto, hist, outbuf, outchars, gone, fault>>

MayRetry_OnceMore(t) == try[t] <= MAX_RETRIES   \* mutant: off by one
MayRetry(t) == try[t] < MAX_RETRIES

waitfor_acknak_timeout(t) ==
    /\ Running /\ at[t] = "wait" /\ ~Contains(ackbuf, Object[t])
    /\ IF MayRetry(t) THEN Go(t, "send") /\ UNCHANGED <<dat, try>> ELSE Finished(t)
    /\ ackbuf' = <<>>
    /\ fault' = 1
    /\ UNCHANGED <<typed, done, upto, hist, outbuf, outchars, gone>>

(* reader: signal_acknak of an answer for object o. *)
signal_acknak(o) ==
    /\ ackbuf' = IF Len(ackbuf) < ACKBUFLEN THEN Append(ackbuf, o) ELSE ackbuf
    /\ UNCHANGED <<typed, done, upto, hist, outbuf, outchars, at, dat, try, gone, fault>>

(* start_disconnect, after "& ." or a signal or because the console was    *)
(* stolen, runs disconnect, which kills the threads.                       *)
disconnect ==
    /\ gone = 0 /\ gone' = 1
    /\ UNCHANGED <<typed, done, upto, hist, outbuf, outchars, at, dat, try, ackbuf, fault>>

-----------------------------------------------------------------------------
(* Which of the first n characters typed should be passed on: all but      *)
(* those of escape sequences, which are an escape character at the         *)
(* beginning of a line and a command.  An escape character that is not     *)
(* followed by one is passed on, but not before its successor.             *)
Escape(k) == typed[k] = "escape" /\ (k = 1 \/ typed[k - 1] = "cr")
Meant(n) ==
    {k \in 1 .. n :
        /\ Escape(k) => k < n /\ typed[k + 1] \notin Obeyed
        /\ k > 1 /\ Escape(k - 1) => typed[k] \notin Obeyed}
=============================================================================
