# A TLA+ verification project for the Meiko CS/2 Linux port

The repository holds what a Linux 2.2 kernel needs to run on the boards of a
Meiko CS/2: support for the architecture (`kernel/arch/sparc/meiko`), drivers
(`kernel/drivers/meiko`) and programs (`cmd`).  Most of its own logic is about
the Control Area Network (CAN), a slow bus that connects the boards and carries
heartbeats, resets and, for every node, a console.  The rest keeps a board going:
a second processor, the clock, the IOMMU, a bargraph.

## Inventory

| Part | State it keeps | Operations | What is hard about it | Module |
|---|---|---|---|---|
| packet rings (`can.h`, `can_main.c`) | `head`, `tail`, `buf` | `pkt_to_ring`, `ring_to_pkt` | no locks: interrupt handler, bottom half and system calls share them | `CanRing` |
| open files (`can_main.c`) | `openfd[]`, reserved console objects, promiscuous bits and count, the chip's accept mask | open, release, ioctls | `kmalloc` sleeps in the middle of an open; one chip serves all files | `CanFile` |
| data path (`can_main.c`) | `inq`, `outq`, a ring for each file, chip registers, wait queues | read, write, `send_pkt`, `can_intr`, `can_bh`, heartbeat, reset of the chip | three levels of context, wake-ups, interrupt acknowledgement | `CanData` |
| console output (`can_console.c`) | `cancon_outbuf`, `cancon_ack_pending`, `ack_timer` | `printk`, tty write, ACK, timeout | a timer armed outside the lock, ACKs lost or late, sends that fail | `CanConsole` |
| console input (`can_console.c`) | `cancon_inbuf`, `ttyp`, reference count | data packets, tty open and close, hangup | data before the tty is open, buffers of different sizes | `CanTty` |
| objects for the connection (`can_obj.c`) | `cancon_rmt`, the PROM's `cancon-host` | connect, disconnect, forced disconnect | requests repeated after lost answers, reboots | `CanconProto` |
| other objects (`can_obj.c`, `obp.h`) | TESTRW's value, options of the PROM | one handler for each object | RESET_IO sets two options, either of which may fail | `CanObj` |
| `cancon`: connection (`cmd/cancon.c`) | `ackbuf[]`, its threads | connect, steal, disconnect, send | retries, threads that take each other's answers | `CanconProto` |
| `cancon`: terminal (`cmd/cancon.c`) | `outchars[]`, `ackbuf[]`, condition variables | `tty_reader`, `writer`, `reader` | what is typed is read, sent and repeated by different threads | `CanconTerm` |
| CAN library, `canping`, `canctrl` (`cmd`) | sequence number, alarm | one exchange at a time | late answers, answers to other tools | `CanTools` |
| SMP (`smp.c`, `irq.c`) | call-in map, `ccall_info`, pending messages, tickers | boot, cross call, message | processors that wait for each other | `Smp` |
| timer (`timer.c`, `elan.h`) | time at the last tick | tick, `gettimeofday` | a tick before the bottom half of the last one | `Timer` |
| IOMMU (`iommu.c`) | page table, TLB | map, release | stale translations, full table | `Iommu` |
| bargraph (`bargraph.c`) | use count, timer | load, open, release, pattern | a timer that rearms itself | `Bargraph` |
| Elan drivers (`elan.c`) | none | mmap | nothing | none |

How they interact: `write()` and the handlers of `can_obj.c` and `can_console.c`
call `send_pkt`, which puts a packet in `outq` (or in `inq`, if it is for this
node) and calls `try_xmit`; the interrupt handler moves packets from the chip to
`inq` and from `outq` to the chip; the bottom half takes them from `inq`, gives
each first to `canobj_packet` and then to the ring of every open file, where
`cancon` and the other programs read them.  `canobj_packet` calls the console for
ACKs and data.  `cancon` on one node talks so to the CAN objects of another.
The bargraph's timer is driven by the ticks that also move the clock.

What makes each part correct: a ring is a FIFO queue; every open file is found in
the table, console object numbers are unique and come back, the chip receives what
some file wants; no packet and no process waits for an event that already
happened; a pending console packet is resolved; who is told "Connected" owns the
console and nobody else does; what is typed arrives once and in order; canping notices
an answer to another ping; two options of the PROM are set together; a cross call has run everywhere when it returns; the clock
does not drift; a device reaches the pages it was given; who has the bargraph open has it alone.

`PROJECT.json` lists the hazards of this code line by line.

## Modules

| Module | Models | Checked by |
|---|---|---|
| `CanFifo` | what a ring promises: a bounded FIFO queue, an operation of which is one step | `CanRing` implements it |
| `CanRing` | the ring, one action per load or store of an index or a slot | `MCCanRing`, `CanRingProofs` |
| `CanFile` | open files, console objects, promiscuous mode | `MCCanFile`, `CanFileProofs` |
| `CanData` | packets from `write()` to the chip and from the chip to `read()` | itself, `CanDataProofs` |
| `CanConsole` | console output | itself, `ConsoleProofs` |
| `CanconProto` | connection, theft and disconnection of a console | `MCCanconProto`, `CanconProtoProofs` |
| `CanconTerm`, `CanTty` | the two ends of console input | `ConsoleInput` |
| `ConsoleInput` | both of them and the network between: keyboard to tty | itself, `ConsoleProofs` |
| `CanObj` | the objects of a node that are not about its console connection | `CanTools` |
| `CanTools` | the CAN library, `canping` and `canctrl` against `CanObj` | `MCCanTools`, `CanToolsProofs` |
| `CrossCall` | what a cross call promises: it has run once on every processor when it returns | `Smp` implements it (`SmpProofs`) |
| `Smp` | start-up, cross calls, messages, tickers | itself, `SmpProofs` |
| `Timer`, `Bargraph` | the clock; the bargraph driver | `Board` |
| `Board` | both, driven by the same ticks | `MCBoard`, `BoardProofs` |
| `Iommu` | page table in cache, memory and TLB | `MCBoard`, `BoardProofs` |

Actions have the names of the functions they model; where a function can be
interrupted it is several actions, with the function's name as prefix.  A
definition `X_Something` marked *mutant* just before a definition `X` is a plausible
error in `X`; it is used by no specification.

**CanRing.**  A context is a producer or a consumer (or both) and has a program
counter: the test (`PutTest`), the store of the slot (`PutStore`), the store of the
index (`PutBump`), and so for get.  The spinlocks in the code are under `#if 0`; who
cannot run while somebody else is in the middle of an operation (because it is
below it on the same processor, or because system calls are not preempted) is the
constant `Excludes`.  The refinement mapping makes `Queue` from the slots between
`tail` and `head`.

**CanFile.**  The kernel is not preemptive, so a system call is one step, except
`open`, which sleeps in `kmalloc` (`GFP_KERNEL`).  An unchecked `kmalloc` that
fails is an action of its own, and so is the release that ends in the driver's "internal
error".  `jiffies` is any number modulo `COSIZE`.  Every ioctl may be used by every file in any
order.  Three history variables tell what the properties except: `raced`, the files whose open found a slot
that another one, asleep in `kmalloc`, had found too; `lost`, what was not given back by an "internal error"; `misused`,
whether the chip was reset since it was set up, and whether a file set its promiscuous bit twice.

**CanData.**  Three levels, "task", "bh" and "irq", each with a program counter; a
level runs only if those above it are idle.  A ring operation is one step here.  Packets
are told apart by where they go: to another node, to this one, or to this one with
an answer to be sent.  `interruptible_sleep_on` is a step of its own after the test
it follows.  The chip is external: a transmit buffer, two receive buffers and an
interrupt that stays pending until the register is read; it may finish a frame at any time, also
while the handler runs, behind its tests.  The two puts of `send_pkt`, to `outq` and to `inq`, are two steps.
`can_intr` may print an error first, which on a connected console is a packet sent at interrupt level.
`can_init_82c200` is two steps: in reset the chip drops what it was sending and had received, and ignores commands;
its last step leaves reset.  The history variable `cutOff` is TRUE when, since the last interrupt, the chip was reset or has finished
a frame while `can_intr` ran.

**CanConsole.**  Two levels; a `printk` of any context is one step, since it holds
`console_lock` and, on the paths modelled, cannot be interrupted by another.  Characters are
counted.  Of the packets, the last one sent is told from the earlier ones, so that one
can say which packet an ACK or a timer belongs to (`cur`, `old`, `resolved`); the
code does not know that.  The history variable `stranded` is 1 after a `send_pkt` or a
`copy_from_user` failed, until a packet is sent again: only then may characters wait for nobody.

**CanconProto.**  One node, any number of cancons.  The threads of a cancon are in
exchanges (a request, then an answer or a timeout, then perhaps the request again); the node
handles one request at a time, and a connect or disconnect in two steps,
`cancon_setcon` and `canobj_cancon_host`, between which it may go down.  The PROM may refuse the
owner, which `canobj_cancon_host` does not notice, and a read of it at boot may fail, which leaves any owner (`Refuses`);
`prom` remembers that a reboot did not find the owner.  `MAX_RETRIES` is 20
and the number of polls of a thief 5 in the code.  `disconnect` raises SIGTERM, for which `cancon` has no
handler, before it sends CONSOLE_DISCONN: from then on the process may end at any step (`sigterm`), with
the request not sent, sent or acknowledged.  That it may also live on until the answer is kept, since
signals to a thread are delivered at the kernel's leisure.

**ConsoleInput.**  A character is known by its place in `typed`, so that loss, doubling
and disorder can be told; `Meant` says, with no automaton, which places are not of
an escape sequence; `tty_reader`'s automaton (`hist`, `PassedOn`) is the code's.  The
mutex of a pair of threads makes a test and its wait, or a change and its signal, one step.
The node's side is `cantty_recv_dat`, the flip buffer, and opens, closes and hangups at any time.
The network keeps order and may lose packets and answers.  `fault` is 1 once something was
lost, timed out or thrown away for want of room.

**CanTools.**  Tools run on nodes; the bottom half there puts an answer in the queue of every
tool on the node.  A packet carries whom and which question it is the answer to, which
the code does not see.  `Proms` are PROMs: the strings of their options, which need not be in any table of
`obp.h`, and the options they lack or refuse to set.

**Smp.**  A processor has a program counter for its own code and another one for level 15
interrupts, which nothing masks; levels 13 and 14 wait until it runs none of this code.  The
lock of `smp4m_cross_call`, its arrays `processors_in` and `processors_out` and the loops
that wait for them are as in the code, one action per test or store.  The constant `Pals` has the processors
that the ASSERTs of `irq.c` accept.  `LateCallin` lets a processor call in after
`smp4m_boot_cpus` gave up on it.  A failed ASSERT is `panicked`.

**Timer, Bargraph, Board.**  Time is counted in fractions of a tick and wraps, since only
differences matter; `wall` is the true time.  `Elapse` lets a unit pass, the L10
interrupt may be `MaxDelay` late, and any number of ticks may come before the bottom half (`MaxLost` bounds
them for TLC).  The history variable `missed` has the number that waited when the last one was recorded.
`Parallel` lets the bargraph's timer run on one processor while a system call runs on another.

**Iommu.**  An entry has three copies: in the processor's cache, in memory, where it gets by a flush or
by itself, and in the controller's TLB.  What is in memory at first is arbitrary, since the cache is flushed
before the table is zeroed and not after.  The scan for a free entry, the
stores, the flush of the cache and the invalidation of the TLB are actions in the order of the code.

`MCBoard` checks `Board` and `Iommu` in one run.  They share no state, so in a behaviour
either one moves or the other (`part`).

## Runs

Runs that pass:

| Run | Shows |
|---|---|
| `ring_serial` | two producers and two consumers on a ring of three slots, where producers exclude each other and consumers do: FIFO |
| `file_ok` | three files, two slots, two console objects, overlapping opens and every ioctl: console objects are unique and not leaked, a file is in the table unless its own open raced, the accept mask agrees with the use count until a reset and the count with the files while they set and clear in turn |
| `data_ok` | a writer that may also reset the chip, a received request, heartbeats, frames that end at any time: nothing overflows, no packet in `inq` is forgotten, sleeping writers wake |
| `data_live` | a reader that may reset the chip, received requests, heartbeats: the transmitter does not idle while packets wait and received frames are taken, unless the chip is silenced (`outq` is full and the interrupt that was to start it again was cleared unseen) |
| `console` | with failing sends, faults, lost and late ACKs: a pending packet always has a timer or somebody at work on it and does not pend for ever, tty writers wake, characters in the ring are attended to unless a send or a copy failed |
| `cancon_polite` | three cancons without `-f`, no loss, a node that reboots, a PROM that refuses, processes that SIGTERM ends: who is told so owns the console, unless a reboot did not find the owner in the PROM |
| `cancon_live` | two cancons, one a thief, with loss, late answers and reboots: every exchange ends |
| `input` | without a fault what is typed gets to the node once and in order (`Conserved`); with faults a character is seen at most `MAX_RETRIES` times, and nothing of an escape sequence that was obeyed (`RepeatsBounded`); the writer does not sleep over characters |
| `tools` | one canping and two canctrls with late and lost answers: what canping takes without complaint from the third ping on is the answer to its question; RESET_IO makes the two devices the same or leaves both, whichever cannot be set, if the old value is one of the table |
| `smp` | two processors that cross-call at once: `Smp` implements `CrossCall`, calls return, who runs the kernel is counted and has its trap table, reschedule messages arrive |
| `board` | `gettimeofday` is behind the true time by no more than the ticks that waited for the bottom half when the last was recorded, however ticks, bottom halves and settings interleave; who has the bargraph open has it alone, and its pattern goes on otherwise; addresses given to devices translate to their pages in every copy of the entry; a released page is out of reach once another request was mapped |

The run that shows a disagreement between the code and what is written about it
(`PROJECT.json`, "findings", quotes the line):

| Run | Shows |
|---|---|
| `data_read` | a reader sleeps for ever with a packet in its ring, since the wake-up came just before it slept |

The models show more of the kind; each has a configuration beside the modules, which
TLC refutes in seconds, but no entry among the runs:

| Configuration | Module | Shows |
|---|---|---|
| `CanRing_inq` | `MCCanRing` | the interrupt handler's put on top of a system call's put breaks the FIFO order of `inq`; the NOTE at `can_main.c:66` says "spinlocks are used to protect inq and outq input", but they are compiled out |
| `CanRing_outq` | `MCCanRing` | nested gets break `outq` too, of which the NOTE (`can_main.c:68`) says that they do not arise |
| `CanData_reset` | `CanData` | a reset ("to clear a hung chip", `can_main.c:651`) that aborts a transmission while `outq` is full: `send_pkt` calls `try_xmit` only if its packet fitted, so nothing is transmitted until a frame arrives |
| `CanConsole_race` | `CanConsole` | a timer armed after its packet was ACKed expires for a later one, so the next packet is sent before that one was ACKed or timed out (`can_console.c:11`: "must be ACKed (or CONSOBJ_ACK_TIMEOUT jiffies must pass)"); with `LateAcks = TRUE` a late ACK does the same |
| `CanconProto_lost` | `MCCanconProto` | a lost ACK makes a cancon fail because of its own connection |
| `CanconProto_late` | `MCCanconProto` | two cancons believe to be connected |
| `CanconProto_kill` | `MCCanconProto` | a cancon that disconnects leaves the console to itself: `cancon.c:613` says "Disconnect from the remote node by writing to the CONSOLE_DISCONN object", but the SIGTERM of `cancon.c:620` may end the process first |
| `CanconProto_prom` | `MCCanconProto` | a cancon is told "Connected" though the PROM has refused it: `can_obj.c:61` says "It needs to be out there so a console connection can persist across a reboot", but `can_obj.c:77` ignores the result |
| `Input_stuck` | `ConsoleInput` | characters that came before the tty was open, or did not fit its flip buffer, wait in `cancon_inbuf` for the next packet though there is room |
| `Tools_hex` | `MCCanTools` | `canctrl` sends other data than given: the man page asks for "a hex value preceded with "0x"" (`canctrl.8:27`); when that was read, `canctrl.c:124` reads it again as decimal, and of "0x..." that is 0 |
| `Tools_reset` | `MCCanTools` | RESET_IO sets only the input device: `can_obj.c:280` says "set both input and output to new value", but when the output device is refused and the old input device is not in the table, the restore at `can_obj.c:287` fails unnoticed |
| `Tools_same` | `MCCanTools` | two tools of a node that ask for the same object take each other's answers |
| `Tools_hang` | `MCCanTools` | an alarm that goes off before `read()` leaves `canping` waiting for ever |
| `Smp_ticker` | `Smp` | a processor runs the kernel without its ticker ("Get our local ticker going", `smp.c:88`) |
| `Board_lost` | `MCBoard` | time goes back when two ticks come before the bottom half, even with no interrupt late (late ones make it go back too) |
| `Board_released` | `MCBoard` | a device reaches a page after its release, from the TLB |

More show when one constant of a passing configuration changes:

| Configuration | Change | Shows |
|---|---|---|
| `CanConsole_ok` | `INVARIANTS AlwaysAttended` | a failed send leaves the rest of the buffer unattended |
| `CanconProto_polite` | `Fopt = {c2}`, and no `SYMMETRY` | the victim's repeated disconnect cuts off the thief, whom the node told that it is connected ("Once attached, it receives printk output", `can_console.c:6`) (`UpOwns`) |
| `CanconProto_polite` | `MaxDisc = 2` | a user who asks to quit twice starts two disconnect threads; the node handles the second request when the console may be another's, and `canobj_disconnect` does not look at who asks: the next owner is cut off (`UpOwns`) |
| `Smp_ok` | `LateCallin = TRUE` | a processor that calls in late runs the kernel uncounted, with a trap table that was freed (`RunningAreCounted`) |
| `Board_ok` | `Parallel = TRUE` | on two processors the pattern timer overwrites what the user of the bargraph wrote (`UserUndisturbed`) |

Some things show in the models as the exceptions their properties make.  Two opens that meet in `kmalloc` share a
slot, and the close of the loser meets the driver's "internal error" with its console object still
reserved (`raced`, `lost`).  `canwhack` ends the promiscuous mode of a running `cansnoop -p`, and a file that sets its bit twice
leaves the count one too high (`misused`).  A frame that ends between `can_intr`'s tests and its read of the
interrupt register goes unseen until the next interrupt or `send_pkt` (`cutOff`).  And two show without a
property: every `MSG_STOP_CPU` panics, because `smp4m_message_pass`
sends it on level 14, which the ASSERT in `dino1_send_ipi` (`irq.c:103`) refuses
(`message_pass_stop`); and the second ping of a canping may take the late answer to the first,
since both find 0 in a fresh object, which is why `SilentAnswerIsOwn` begins with the third.

**Bounds.**  A ring of three slots has every case: empty, partly full, full, and both
indices wrap.  Two contexts on a side are enough for a race between them.  Three
files and two console objects make the allocator run out while a file waits; two
slots for three files make the table run out and let two opens race while a third file is open; a use count of up to 2
either way tells one misuse from none.  In `CanData` rings of two packets are full after a packet and its copy, and a
writer meets that with one packet at a time; one arrival (in `data_ok`) or two (in `data_live`, where both receive buffers
and a frame behind `try_recv` matter) keep the chip's part finite, and an error that is printed counts as one.  The reader of
`data_live` has O_NONBLOCK set, the writer of `data_ok` has not; `data_read` has a reader that sleeps.
In `CanConsole` a write of more characters than fit the ring is included, and packets
smaller than the ring.  In `CanconProto` two tries and two polls show what 20 and 5 do,
`MaxDisc` bounds disconnect threads to one (what a second one does is among the tables above),
and a queue holds two packets.  `ConsoleInput`: three characters typed make two packets, with
buffers of one or two characters every buffer overflows, two tries show what 20 do, one packet is in the
network each way.  `CanTools`: three pings, for the property that begins with the third.  `Smp`: two
processors are what the PALs of these boards accept.  `Board`: a tick of three units with
interrupts up to one late has every order of pulse, interrupt and reading; three ticks may wait for the bottom half; `Wrap` is
more than the range that `TimeAccurate` allows; a pattern of two steps.  `Iommu`: two requests with lists of two
pages in two slots reuse slots and fill the table.

Deadlock is not checked where the system may stop (all files in error, all cancons gone,
a processor halted, all pings done); it is in the runs of `CanRing`.

**Fairness.**  `CanData`: the chip finishes transmissions; interrupts and bottom halves
that are due run; the heartbeat timer runs; a task in the kernel gets the processor again
and again (strong fairness, since interrupts take it away in between).  It is not assumed
that anybody writes or reads or that anything arrives.  `CanConsole`: bottom halves complete,
an armed timer expires unless it is stopped, a task in the kernel goes on; no ACK
is assumed to arrive.  `CanconProto`: packets not lost are handled, and a thread that
waits gets an answer or its timeout (`pthread_cond_timedwait` returns).  `ConsoleInput`: the threads
of cancon run, packets not lost are handled, timeouts come; nobody needs to type or open the tty.  `Smp`: a
processor's own code and the boot go on between interrupts (strong), its level 15 interrupt is
taken (weak, nothing masks it), level 13 is taken when it is enabled again and again (strong).
`Board`: time passes, and interrupts, bottom halves and expired timers run.

`smp` assumes `LateCallin = FALSE` and `board` assumes
`Parallel = FALSE`; the tables above show that they have to.
`cancon_polite` assumes that nobody steals or quits twice and that nothing is lost or late, for the same reason.

## Proofs

Theorems hold for every value of the constants that satisfies the named assumptions of the modules (sizes
are not zero, sets are disjoint, and the like).  A theorem that holds only for some behaviours of
the hardware or of users has that as a hypothesis on a constant; TLC refutes the property without
it, in the configuration named.  Every inductive invariant was checked by TLC
before it was proved.

`CanRingProofs`: for every ring size, set of packets and set of contexts,
`TypeCorrect` needs no hypothesis; `RingInvariant` and `RingImplementsFifo` need
`Serialised`: two producers, or two consumers, exclude each other (`CanRing_inq`, `CanRing_outq`).  The
invariant `RingInv` says what a context in the middle of an operation may rely on: its
copy of its index is still the index, its slot is free (or holds what it stored, or
what it is about to return), and it is the only one of its side.  Without that a step
of the ring cannot be mapped to a step of the queue.  `MacrosAgree` relates `RING_SIZE`,
`RING_ROOM`, `RING_FULL` and `RING_EMPTY`.

`CanFileProofs`, all with `kmalloc` sleeping, every ioctl and no hypothesis: `ConsobjIsUnique` and `FilesTyped`, because a reservation is made
and tested in one step; `OpenFilesInTable` and `NoObjectLeaked`, whose invariant `TableInv` says that a file which did not race has
its slot to itself from the search on: nobody else sleeps with that slot in hand and no other file's store went there; and
`PromiscuousModeAgrees`, which counts the files with the bit (`Files` is finite, `FilesAssumption`).

`CanDataProofs`, with resets of the chip and frames that end at any time: `NothingLeftInInq` and `RingsBounded`.
`InqAttended` becomes inductive with three facts (`DataInv`): queues and program counters have
their types, a level about to put or deliver has a packet in hand, and `can_bh` has something to go on with only while
it sends an answer.  `ChipAttendedTo`: an idle transmitter with packets in `outq`,
and a frame in a receive buffer, always have somebody to go on with them, a `try_xmit` under way or an interrupt still
pending, unless `cutOff` tells that an event was cut off since the last interrupt.  Its invariant adds what the handler has left behind at each of its
steps (`HandlerInv`): when it clears the interrupt the receive buffers
are empty, and `outq` is empty or the chip is busy, or `cutOff`.  This is the part of `XmitProgress` and `RecvProgress` that does not need fairness; that
progress is made also after something was cut off, by the heartbeat, is what `data_live` adds.

`ConsoleProofs`, about output (`CanConsole`): `PendingTimed` and `ConsoleTyped` hold with every failure allowed: `PendingHasTimer` is
inductive with the types.  `OutputAttended` holds with every failure allowed too, since
`OutbufAttended` excepts what is stranded by one (`AlwaysAttended` is refuted without that).

`ConsoleProofs`, about input (`ConsoleInput`), with no hypothesis: `TypedOnceInOrder`, `RepeatsLimited`, `BuffersNeverOverrun` and
`NoWakeupLost`, for any text, buffers of any size, any losses, hangups and timeouts.  They share `InputInv`, which has to hold with faults as well, for a
fault may come after any part of it was needed: `hist` is the last two characters dealt with; whatever is anywhere was
passed on and is `Meant`; what cancon has still to queue or send is ascending and behind all that it ever sent; a packet is
ascending, and a break carries nothing.  For `TypedOnceInOrder` it is joined, while `fault = 0`, by `InOrder` (the stages, farthest first,
follow each other) and `AllThere` (between them they have all that is meant).  `RepeatsLimited` rests on `RepeatInv`:
the copies of a character, in the network and at the node, are at most the tries of the packet it is in, or `MAX_RETRIES` once that packet is over; what is
still queued has no copies yet, by `InputInv`.  `BuffersNeverOverrun` needs `ReadInv` for `outbuf`, which the code fills without a test: what is in it
and twice what is unparsed of a `read()` is at most `2 * ReadMax` (8 and 4 in the code), as an escape character that was kept back is passed on with its successor.

`CanconProtoProofs`: `ProtocolTyped`, whatever the network, the cancons, the PROM and reboots do.
`ConnectedOwns` needs `Polite`: nobody steals, nobody quits twice, nothing is lost or late
(`CanconProto_lost`, `CanconProto_late`, and the changes of `CanconProto_polite` above); the node may reboot, the PROM refuse
and SIGTERM end a process at any time.  Its
invariant `PoliteInv` gives each cancon one of five phases (not running, looking, connecting,
connected, leaving) and says for each where its one request or answer is and what
the node's `cancon_rmt` must then be; that the PROM agrees with the node outside its handlers, as long as it has refused nothing,
is part of it (`PromAgrees`).  That a cancon which is gone has released the console is not a theorem: `CanconProto_kill` refutes it.

`CanToolsProofs`: `ResetsWhole` holds for every PROM and all requests; the exception, an old value without a number, is
the one that `Tools_reset` shows.
`SilentAnswersOwn` needs `PingsAlone`, one canping and nobody else who asks about TESTRW (`Tools_same`), for answers are told apart
by nothing else than the object.  `ToolsInv` says that every packet in a queue
or in the network comes from a tool that asked this; `PingInv` that the numbers of pings under way grow,
are larger than the one in the object, and that an answer has a smaller number than its request (except for the
first), from which a stale answer is recognised.

`SmpProofs`, both under `~LateCallin`.  `CountedRun` rests on `BootInv`: how far `smp4m_boot_cpus` has
come, which processors have had their turn and how each of them ended, and that `smp_num_cpus`, `cpu_present_map`
and the number maps agree with that.  `CrossCallImplemented` rests besides on `CallInv`: at most one processor is in a call, the
flags of every other processor tell how far its handler is, nobody is busy for a call that is over, and
who has `processors_out` set has run the function once.  A panic stops the machine, so `CallInv` is claimed only before one.

`BoardProofs`: `Translates` and `ReachEnds` rest on `IommuInv`: the slots of a request are its own and
hold its pages in order, no valid entry is without an owner, and the copies in memory and in the TLB of
mapped slots agree with the table (between flush and invalidation, memory does).  `Undisturbed` needs `~Parallel`, as the
code has no lock.  `NoTimeDrift` has no hypothesis: however many ticks wait, the error is what `missed` says.  Since time
wraps, `TimeInv` is about congruence modulo `Wrap` (`Same`): the recorded time with what is lost, latched and elapsed of the tick
under way differs from the true time by an error that no step changes but `settimeofday`.

Only model-checked: the liveness properties `WriterWakes` (of `CanData` and of `CanConsole`), `XmitProgress`, `RecvProgress`,
`PendingEnds`, `Settles`, `DisconnectEnds`, `CallReturns`, `RescheduleArrives`, `PatternGoesOn` and `InputGetsThrough`, since the
prover has no fairness reasoning.  Every other property of a passing run is stated by a theorem.

## Not modelled

- Module load and unload of the CAN driver, and the mapping of registers in every driver:
  straight-line code that runs alone.
- `clear_ring` between the two steps of a `char_to_ring` that it interrupts, and a delivery to a
  file between the `kfree` and the store of `can_release_openfd`: both are one step here, and hazards
  without a property.
- The lookup of hosts and objects in files (`can.c`): text parsing.  The path lookup of `obp.h` is
  abstracted to: the PROM has the option, or not.
- `canhb` (one ioctl), `cansnoop` and `candebug` (they print); of `canwhack` only its ioctl, in `CanFile` and `CanData`.
- `smp4m_irq_rotate`, which ends in a function that is empty on these boards.
- The Elan drivers map pages, `testled` and `testclock` do I/O: there is nothing to check.
- The `kernel-2.2.19` and `silo` patches are not code of this repository.

## Plan

1. `CanRing`, `CanFile`, `CanData`, `CanConsole`, `CanconProto`: done.
2. Console input, the terminal threads of `cancon` and their composition; SMP with an abstract cross call
   and its refinement; IOMMU, timer and bargraph; the other objects and the tools; resets of the chip: done.
3. Theorems about the safety of every component, and the safety parts of the liveness of the chip and of the writer thread: done.  What is left
   is type correctness of `Smp` beyond what its invariants state.
4. `RING_CLEAR` at the level of `CanRing`; `deliver_pkt` composed with `CanFile`.
