----------------------------- MODULE MCCanRing -----------------------------
(***************************************************************************)
(* Instances of CanRing for TLC: the contexts of the kernel that share a   *)
(* ring of the CAN driver.                                                 *)
(***************************************************************************)
EXTENDS CanRing

(* Two producers that never overlap (two system calls: the kernel is not   *)
(* preemptive), and two consumers likewise; a producer and a consumer      *)
(* interleave freely, as on two processors.                                *)
SerialProducers == {"write1", "write2"}
SerialConsumers == {"read1", "read2"}
SerialExcludes ==
    (SerialProducers \X SerialProducers) \cup (SerialConsumers \X SerialConsumers)

(* inq: a system call or timer in send_pkt and the interrupt handler in    *)
(* try_recv both put; the bottom half gets.  An interrupt runs on top of   *)
(* either and completes before they go on.                                 *)
InqProducers == {"syscall", "irq"}
InqConsumers == {"bh"}
InqExcludes == {<<"irq", "syscall">>, <<"irq", "bh">>, <<"bh", "syscall">>}

(* outq: system calls put and get (send_pkt calls try_xmit), the interrupt *)
(* handler gets.                                                           *)
OutqProducers == {"syscall"}
OutqConsumers == {"syscall", "irq"}
OutqExcludes == {<<"irq", "syscall">>}

=============================================================================
