----------------------------- MODULE MCCanTools -----------------------------
(* Model-checking instances of CanTools: a canping and a canctrl on the    *)
(* same node and a canctrl on another.                                     *)
EXTENDS CanTools

MCAt == [t \in Tools |-> IF t = "other" THEN "n2" ELSE "n1"]

(* PROMs that set everything, refuse one of the devices or lack an option, *)
(* and one whose input device has a name that is in no table.              *)
Prom(input, absent_, readonly_) ==
    [options |-> [option \in Options |->
        CASE option = "input-device"  -> input
          [] option = "output-device" -> "screen"
          [] option = "boot-device"   -> "disk"
          [] option = "auto-boot?"    -> "true"],
     absent |-> absent_, readonly |-> readonly_]

MCProms ==
    {Prom("keyboard", {}, r) : r \in {{}} \cup {{d} : d \in Devices}}
        \cup {Prom("keyboard", {option}, {}) : option \in {"input-device", "boot-device"}}
        \cup {Prom("other", {}, {"output-device"})}

Ask(object, type, given) == [object |-> object, type |-> type, given |-> given]

MCAsks == [t \in Ctrls |->
    IF t = "other"
    THEN {Ask("RESET_IO", "WO", None), Ask("HEARTBEAT", "WNA", 0)}
    ELSE {Ask("RESET_IO", "WO", None), Ask("BOOT_DEV", "RO", None)}]

HexAsks == [t \in Ctrls |-> {Ask("RESET_IO", "WO", given) : given \in {0, 1}}]
TestrwAsks == [t \in Ctrls |-> {Ask("TESTRW", "RO", None)}]
=============================================================================
