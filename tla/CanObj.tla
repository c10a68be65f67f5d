------------------------------- MODULE CanObj -------------------------------
(***************************************************************************)
(* The objects of a node that are not about its console connection         *)
(* (can_obj.c): TESTRW, HEARTBEAT, and AUTOBOOT, RESET_IO and BOOT_DEV,    *)
(* which stand for options of the PROM.  A value on the CAN is the index   *)
(* of the option's string in a table (obp.h), from 0.  The handlers run in *)
(* the bottom half, one packet after the other.                            *)
(***************************************************************************)
EXTENDS Integers, Sequences

CONSTANTS
    Values,         \* what a word of data can hold
    Proms           \* the PROMs considered: their options, which any string may be in,
                    \* and those that they lack or refuse to set

VARIABLES
    obj_val,        \* of canobj_testrw
    prom,           \* the options
    absent,         \* those the PROM does not have
    readonly        \* those it refuses to set

objVars == <<obj_val, prom, absent, readonly>>

OBP_INPUT_DEVICE_VALUES == <<"keyboard", "can", "ttya", "ttyb">>
OBP_BOOT_DEVICE_VALUES ==
    <<"", "elan", "disk", "net", "disk0", "disk1", "disk2", "disk3", "can", "eip">>
OBP_BOOLEAN == <<"false", "true">>

Devices == {"input-device", "output-device"}
Table(option) ==
    CASE option \in Devices      -> OBP_INPUT_DEVICE_VALUES
      [] option = "boot-device"  -> OBP_BOOT_DEVICE_VALUES
      [] option = "auto-boot?"   -> OBP_BOOLEAN

Options == Devices \cup {"boot-device", "auto-boot?"}

ASSUME PromsAssumption == \A p \in Proms : p.options = [option \in Options |-> p.options[option]]

ObjInit ==
    /\ obj_val = 0
    /\ \E p \in Proms : prom = p.options /\ absent = p.absent /\ readonly = p.readonly

-----------------------------------------------------------------------------
(* obp.h.  A string that is not in the table is -1, a number that is not   *)
(* has no string.                                                          *)
obp_strtonum(str, names) ==
    IF \E i \in DOMAIN names : names[i] = str
    THEN (CHOOSE i \in DOMAIN names : names[i] = str) - 1
    ELSE -1

HasString(num, names) == num \in 0 .. Len(names) - 1
obp_numtostr(num, names) == names[num + 1]

Readable(option) == option \notin absent
obp_getcan(option) == obp_strtonum(prom[option], Table(option))

Settable(option, num) ==
    HasString(num, Table(option)) /\ option \notin absent /\ option \notin readonly

(* What obp_setcan makes of the options p. *)
obp_setcan(p, option, num) ==
    IF Settable(option, num) THEN [p EXCEPT ![option] = obp_numtostr(num, Table(option))] ELSE p

-----------------------------------------------------------------------------
(* RESET_IO, written with num: both devices, or, if the output device      *)
(* fails, the input device as it was; unless that was a string without a   *)
(* number, with which the last obp_setcan fails unnoticed.                 *)
Resettable(num) ==
    Readable("input-device") /\ \A d \in Devices : Settable(d, num)

canobj_reset_io_NotUndone(num) ==           \* mutant: the input device keeps its new value
    IF ~Readable("input-device") THEN prom
    ELSE obp_setcan(obp_setcan(prom, "input-device", num), "output-device", num)
canobj_reset_io(num) ==
    IF ~Readable("input-device") \/ ~Settable("input-device", num) THEN prom
    ELSE LET new == obp_setcan(prom, "input-device", num)
         IN  IF Settable("output-device", num)
             THEN obp_setcan(new, "output-device", num)
             ELSE obp_setcan(new, "input-device", obp_getcan("input-device"))

(* The answer to a request: an ACK or NAK with data, or none.  A NAK for   *)
(* an option that cannot be read comes with whatever was on the stack, the *)
(* heartbeat is whatever canhb has set it to.                              *)
Ack(dat) == [type |-> "ACK", dat |-> dat]
Nak(dat) == [type |-> "NAK", dat |-> dat]
OfOption(option) ==
    IF Readable(option) THEN {Ack(obp_getcan(option))} ELSE {Nak(v) : v \in Values}

canobj_packet(object, type, dat) ==
    CASE object = "TESTRW" /\ type \in {"RO", "WO"} -> {Ack(obj_val)}
      [] object = "HEARTBEAT" /\ type = "RO"        -> {Ack(v) : v \in Values}
      [] object = "AUTOBOOT" /\ type = "RO"         -> OfOption("auto-boot?")
      [] object = "BOOT_DEV" /\ type = "RO"         -> OfOption("boot-device")
      [] object = "RESET_IO" /\ type = "RO" ->
            {IF Readable("input-device") THEN Ack(obp_getcan("input-device")) ELSE Nak(0)}
      [] object = "RESET_IO" /\ type = "WO" ->
            {IF ~Readable("input-device") THEN Nak(0)
             ELSE IF Resettable(dat) THEN Ack(obp_getcan("input-device"))
                                     ELSE Nak(obp_getcan("input-device"))}
      [] OTHER -> {}

(* What it does to the objects. *)
Written(object, type, dat) ==
    /\ obj_val' = IF object = "TESTRW" /\ type = "WO" THEN dat ELSE obj_val
    /\ prom' = IF object = "RESET_IO" /\ type = "WO" THEN canobj_reset_io(dat) ELSE prom
    /\ UNCHANGED <<absent, readonly>>
=============================================================================
