--------------------------- MODULE CanFileProofs ---------------------------
(***************************************************************************)
(* What is proved of the open files of /dev/can, for every number of       *)
(* files, slots and console objects.                                       *)
(***************************************************************************)
EXTENDS CanFile, FiniteSetTheorems, TLAPS

(* What an object is worth when its file is not open: nothing is held. *)
HeldOnlyOpen == \A f \in Files : pc[f] # "open" => consobj[f] = -1

HeldUnique ==
    /\ \A f, g \in Files : f # g /\ consobj[f] # -1 => consobj[f] # consobj[g]
    /\ \A f \in Files : consobj[f] # -1 =>
            consobj_reserved[consobj[f] - CANOBJ_CONSMIN] = 1

ConsInv == TypeOK /\ HeldOnlyOpen /\ HeldUnique

(* The place in consobj_reserved of an object, and back. *)
LEMMA ConsPlace ==
    /\ \A o \in Consobjs : o - CANOBJ_CONSMIN \in ConsSlots /\ o # -1
    /\ \A i \in ConsSlots : i + CANOBJ_CONSMIN \in Consobjs
    /\ \A o \in Consobjs, i \in ConsSlots :
            o - CANOBJ_CONSMIN = i <=> o = i + CANOBJ_CONSMIN
  BY SizeAssumption DEF Consobjs, ConsSlots

(* Freeing the object of f leaves the objects of the other files reserved. *)
LEMMA FreedMap ==
    ASSUME TypeOK, HeldUnique, NEW f \in Files
    PROVE  /\ Freed(f) \in [ConsSlots -> {0, 1}]
           /\ \A g \in Files \ {f} : consobj[g] # -1 =>
                Freed(f)[consobj[g] - CANOBJ_CONSMIN] = 1
           /\ \A i \in ConsSlots : Freed(f)[i] = 1 =>
                /\ consobj_reserved[i] = 1
                /\ i + CANOBJ_CONSMIN # consobj[f]
  <1>1. CASE consobj[f] = -1
    BY <1>1, ConsPlace DEF Freed, TypeOK, HeldUnique
  <1>2. CASE consobj[f] # -1
    <2> DEFINE p == consobj[f] - CANOBJ_CONSMIN
    <2>1. consobj[f] \in Consobjs /\ p \in ConsSlots
      BY <1>2, ConsPlace DEF TypeOK
    <2>2. Freed(f) = [consobj_reserved EXCEPT ![p] = 0]
      BY <1>2 DEF Freed, can_free_consobj
    <2>3. \A g \in Files \ {f} : consobj[g] # -1 =>
            /\ consobj[g] - CANOBJ_CONSMIN \in ConsSlots
            /\ consobj[g] - CANOBJ_CONSMIN # p
      <3> SUFFICES ASSUME NEW g \in Files \ {f}, consobj[g] # -1
          PROVE  /\ consobj[g] - CANOBJ_CONSMIN \in ConsSlots
                 /\ consobj[g] - CANOBJ_CONSMIN # p
        OBVIOUS
      <3>1. consobj[g] \in Consobjs /\ consobj[g] # consobj[f]
        BY DEF TypeOK, HeldUnique
      <3> QED
        BY <3>1, <2>1, SizeAssumption DEF Consobjs, ConsSlots
    <2> QED
      BY <2>1, <2>2, <2>3, ConsPlace DEF TypeOK, HeldUnique
  <1> QED
    BY <1>1, <1>2

(* What can_alloc_consobj may do: take one object that is free in map. *)
LEMMA AllocEffect ==
    ASSUME NEW f \in Files, NEW map \in [ConsSlots -> {0, 1}],
           can_alloc_consobj(f, map)
    PROVE  \/ \E i \in ConsSlots :
                /\ map[i] = 0
                /\ consobj_reserved' = [map EXCEPT ![i] = 1]
                /\ consobj' = [consobj EXCEPT ![f] = i + CANOBJ_CONSMIN]
           \/ /\ consobj_reserved' = map
              /\ consobj' = [consobj EXCEPT ![f] = -1]
  <1>1. \A j, n \in ConsSlots : (j + n) % COSIZE \in ConsSlots
    BY SizeAssumption DEF ConsSlots
  <1> QED
    BY <1>1 DEF can_alloc_consobj, Reserve

(* Every system call preserves the invariant of the allocator. *)
LEMMA ConsInvStep ==
    ASSUME ConsInv, [Next]_vars
    PROVE  ConsInv'
  <1> USE DEF ConsInv
  <1>1. ASSUME NEW f \in Files, can_alloc_openfd_scan(f)
        PROVE  ConsInv'
    <2>1. raced' \subseteq Files
      BY <1>1 DEF can_alloc_openfd_scan, Rivals, TypeOK
    <2>2. \E i \in Slots : slot' = [slot EXCEPT ![f] = i]
      BY <1>1 DEF can_alloc_openfd_scan
    <2>3. /\ pc' = [pc EXCEPT ![f] = "kmalloc"] /\ pc[f] = "closed"
          /\ UNCHANGED <<openfd, can_usecount, snoopy, promiscVars, consVars, lost>>
      BY <1>1 DEF can_alloc_openfd_scan
    <2> QED
      BY <2>1, <2>2, <2>3 DEF promiscVars, consVars, TypeOK, HeldOnlyOpen, HeldUnique
  <1>2. ASSUME NEW f \in Files, can_open(f)
        PROVE  ConsInv'
    BY <1>2 DEF can_open, TypeOK, HeldOnlyOpen, HeldUnique
  <1>3. ASSUME NEW f \in Files, can_open_nomem(f)
        PROVE  ConsInv'
    BY <1>3 DEF can_open_nomem, promiscVars, consVars,
                TypeOK, HeldOnlyOpen, HeldUnique
  <1>4. ASSUME NEW f \in Files, ioctl_set_promiscuous(f)
        PROVE  ConsInv'
    BY <1>4 DEF ioctl_set_promiscuous, can_init_82c200, Misuses, fileVars, consVars,
                TypeOK, HeldOnlyOpen, HeldUnique
  <1>5. ASSUME NEW f \in Files, ioctl_clr_promiscuous(f)
        PROVE  ConsInv'
    BY <1>5 DEF ioctl_clr_promiscuous, DropPromiscuous, can_init_82c200, Misuses,
                fileVars, consVars, TypeOK, HeldOnlyOpen, HeldUnique
  <1>6. ASSUME NEW f \in Files, ioctl_snoopy(f)
        PROVE  ConsInv'
    BY <1>6 DEF ioctl_snoopy, fileVars, promiscVars, consVars,
                TypeOK, HeldOnlyOpen, HeldUnique
  <1>7. ASSUME NEW f \in Files, ioctl_get_consobj(f)
        PROVE  ConsInv'
    <2>1. /\ pc[f] = "open" /\ can_alloc_consobj(f, Freed(f))
          /\ UNCHANGED <<openfd, pc, slot, can_usecount, promiscuous,
                         promiscuous_usecount, accept_mask, snoopy, raced, lost, misused>>
      BY <1>7 DEF ioctl_get_consobj, fileVars, promiscVars
    <2>2. CASE \E i \in ConsSlots :
                /\ Freed(f)[i] = 0
                /\ consobj_reserved' = [Freed(f) EXCEPT ![i] = 1]
                /\ consobj' = [consobj EXCEPT ![f] = i + CANOBJ_CONSMIN]
      <3> PICK i \in ConsSlots :
                /\ Freed(f)[i] = 0
                /\ consobj_reserved' = [Freed(f) EXCEPT ![i] = 1]
                /\ consobj' = [consobj EXCEPT ![f] = i + CANOBJ_CONSMIN]
        BY <2>2
      <3>1. TypeOK' /\ HeldOnlyOpen'
        BY <2>1, FreedMap, ConsPlace DEF TypeOK, HeldOnlyOpen
      <3>2. \A g \in Files \ {f} : consobj'[g] # -1 =>
                /\ consobj'[g] - CANOBJ_CONSMIN \in ConsSlots
                /\ consobj'[g] # i + CANOBJ_CONSMIN
                /\ consobj_reserved'[consobj'[g] - CANOBJ_CONSMIN] = 1
        BY FreedMap, ConsPlace DEF TypeOK
      <3>3. consobj'[f] - CANOBJ_CONSMIN = i /\ consobj'[f] # -1
        BY ConsPlace DEF TypeOK
      <3>4. consobj_reserved'[i] = 1
        BY FreedMap
      <3> QED
        BY <3>1, <3>2, <3>3, <3>4 DEF HeldUnique, TypeOK
    <2>3. CASE /\ consobj_reserved' = Freed(f)
               /\ consobj' = [consobj EXCEPT ![f] = -1]
      BY <2>1, <2>3, FreedMap DEF TypeOK, HeldOnlyOpen, HeldUnique
    <2> QED
      BY <2>1, <2>2, <2>3, FreedMap, AllocEffect
  <1>8. ASSUME NEW f \in Files, ioctl_set_reset(f)
        PROVE  ConsInv'
    BY <1>8 DEF ioctl_set_reset, can_init_82c200, fileVars, consVars,
                TypeOK, HeldOnlyOpen, HeldUnique
  <1>9. ASSUME NEW f \in Files, can_release(f)
        PROVE  ConsInv'
    <2>1. TypeOK'
      BY <1>9, FreedMap DEF can_release, DropPromiscuous, can_init_82c200, Misuses, TypeOK
    <2>2. HeldOnlyOpen' /\ HeldUnique'
      BY <1>9, FreedMap DEF can_release, TypeOK, HeldOnlyOpen, HeldUnique
    <2> QED
      BY <2>1, <2>2
  <1>10. ASSUME NEW f \in Files, can_release_internal_error(f)
        PROVE  ConsInv'
    <2>1. lost'.objs \subseteq Consobjs /\ lost'.uses \in Nat
      BY <1>10 DEF can_release_internal_error, TypeOK
    <2>2. HeldOnlyOpen' /\ HeldUnique'
      BY <1>10 DEF can_release_internal_error, TypeOK, HeldOnlyOpen, HeldUnique
    <2>3. TypeOK'
      BY <1>10, <2>1 DEF can_release_internal_error, TypeOK
    <2> QED
      BY <2>2, <2>3
  <1>11. CASE UNCHANGED vars
    BY <1>11 DEF vars, TypeOK, HeldOnlyOpen, HeldUnique
  <1> QED
    BY <1>1, <1>2, <1>3, <1>4, <1>5, <1>6, <1>7, <1>8, <1>9, <1>10, <1>11 DEF Next

(* It holds when the module is loaded. *)
LEMMA ConsInvInit == Init => ConsInv
  <1> SUFFICES ASSUME Init PROVE ConsInv
    OBVIOUS
  <1>1. 0 \in Slots
    BY SizeAssumption DEF Slots
  <1> QED
    BY <1>1 DEF Init, ConsInv, TypeOK, HeldOnlyOpen, HeldUnique

(* CAN_GET_CONSOBJ hands out unique ids: whatever opens race in kmalloc,   *)
(* whatever ioctls the files issue, whatever becomes of openfd[], no two   *)
(* open files hold the same console object.                                *)
THEOREM ConsobjIsUnique == Spec => []ConsobjUnique
  <1>1. ConsInv /\ [Next]_vars => ConsInv'
    BY ConsInvStep
  <1>2. ConsInv => ConsobjUnique
    BY DEF ConsInv, HeldUnique, ConsobjUnique, Open
  <1> QED
    BY ConsInvInit, <1>1, <1>2, PTL DEF Spec

(* can_open, can_ioctl and can_release keep every field in its range, also *)
(* when opens race: each slot of openfd[] names a file or nobody, and an   *)
(* object that a file has is one of CANOBJ_CONSMIN and up.                 *)
THEOREM FilesTyped == Spec => []TypeOK
  <1>1. ConsInv /\ [Next]_vars => ConsInv'
    BY ConsInvStep
  <1>2. ConsInv => TypeOK
    BY DEF ConsInv
  <1> QED
    BY ConsInvInit, <1>1, <1>2, PTL DEF Spec

-----------------------------------------------------------------------------
(* Whose open met no other in its slot has that slot to itself: while it   *)
(* sleeps the slot is free and nobody else is to store there, and then     *)
(* the slot is its own.                                                    *)
Alone(f) ==
    /\ pc[f] = "kmalloc" => openfd[slot[f]] = NULL
    /\ pc[f] = "open" => openfd[slot[f]] = f
    /\ pc[f] \in {"kmalloc", "open"} =>
        \A g \in Files \ {f} : pc[g] = "kmalloc" => slot[g] # slot[f]

AloneInv == \A f \in Files \ raced : Alone(f)

TableInv == ConsInv /\ AloneInv /\ ConsobjNotLeaked

(* A file with a slot of its own is in the table. *)
LEMMA AloneInTable ==
    ASSUME TypeOK, AloneInv
    PROVE  OpenInTable
  BY DEF TypeOK, AloneInv, Alone, OpenInTable, Open

(* Opens and closes leave the slots of files that are alone to them. *)
LEMMA AloneInvStep ==
    ASSUME TypeOK, AloneInv, [Next]_vars
    PROVE  AloneInv'
  <1>1. ASSUME NEW f \in Files, can_alloc_openfd_scan(f)
        PROVE  AloneInv'
    <2>1. PICK i \in Slots :
            /\ openfd[i] = NULL /\ slot' = [slot EXCEPT ![f] = i]
            /\ raced' = IF Rivals(i) = {} THEN raced ELSE raced \cup Rivals(i) \cup {f}
      BY <1>1 DEF can_alloc_openfd_scan, Unused
    <2>2. pc[f] = "closed" /\ pc' = [pc EXCEPT ![f] = "kmalloc"] /\ openfd' = openfd
      BY <1>1 DEF can_alloc_openfd_scan
    <2>3. ASSUME NEW g \in Files, g \notin raced'
          PROVE  Alone(g)'
      <3>1. g \notin raced /\ Alone(g) /\ (Rivals(i) # {} => g # f /\ g \notin Rivals(i))
        BY <2>1, <2>3 DEF AloneInv
      <3>2. CASE g = f
        <4>1. \A h \in Files \ {f} : pc'[h] = "kmalloc" => slot'[h] # i
          BY <2>1, <2>2, <3>1, <3>2 DEF TypeOK, Rivals
        <4> QED
          BY <2>1, <2>2, <3>2, <4>1 DEF Alone, TypeOK
      <3>3. CASE g # f
        <4>1. pc'[g] = pc[g] /\ slot'[g] = slot[g] /\ slot'[f] = i
          BY <2>1, <2>2, <3>3 DEF TypeOK
        <4>2. pc[g] = "kmalloc" => slot[g] # i
          BY <2>1, <3>1 DEF Rivals
        <4>3. pc[g] = "open" => slot[g] # i
          BY <2>1, <3>1, NullAssumption DEF Alone
        <4> QED
          BY <2>1, <2>2, <3>1, <3>3, <4>1, <4>2, <4>3 DEF Alone, TypeOK
      <3> QED
        BY <3>2, <3>3
    <2> QED
      BY <2>3 DEF AloneInv
  <1>2. ASSUME NEW f \in Files, can_open(f)
        PROVE  AloneInv'
    BY <1>2 DEF can_open, TypeOK, AloneInv, Alone
  <1>3. ASSUME NEW f \in Files, can_open_nomem(f)
        PROVE  AloneInv'
    BY <1>3 DEF can_open_nomem, TypeOK, AloneInv, Alone
  <1>4. ASSUME NEW f \in Files, can_release(f)
        PROVE  AloneInv'
    <2>1. PICK i \in Slots : openfd[i] = f /\ openfd' = [openfd EXCEPT ![i] = NULL]
      BY <1>4 DEF can_release
    <2>2. /\ pc' = [pc EXCEPT ![f] = "closed"] /\ slot' = slot /\ raced' = raced \ {f}
      BY <1>4 DEF can_release
    <2> QED
      BY <2>1, <2>2, NullAssumption DEF TypeOK, AloneInv, Alone
  <1>5. ASSUME NEW f \in Files, can_release_internal_error(f)
        PROVE  AloneInv'
    BY <1>5 DEF can_release_internal_error, TypeOK, AloneInv, Alone
  <1>6. CASE \/ UNCHANGED vars
             \/ \E f \in Files : \/ ioctl_set_promiscuous(f) \/ ioctl_clr_promiscuous(f)
                                 \/ ioctl_snoopy(f) \/ ioctl_set_reset(f) \/ ioctl_get_consobj(f)
    <2>1. UNCHANGED <<openfd, pc, slot, raced>>
      BY <1>6 DEF ioctl_set_promiscuous, ioctl_clr_promiscuous, ioctl_snoopy,
                  ioctl_set_reset, ioctl_get_consobj, fileVars, vars
    <2> QED
      BY <2>1 DEF AloneInv, Alone
  <1> QED
    BY <1>1, <1>2, <1>3, <1>4, <1>5, <1>6 DEF Next

(* Reservations stay with open files, or are lost with one. *)
LEMMA LeakStep ==
    ASSUME ConsInv, ConsobjNotLeaked, [Next]_vars
    PROVE  ConsobjNotLeaked'
  <1> USE DEF Open
  <1>0. TypeOK /\ HeldUnique
    BY DEF ConsInv
  <1>2. ASSUME NEW f \in Files, can_open(f)
        PROVE  ConsobjNotLeaked'
    BY <1>2, <1>0 DEF can_open, TypeOK, ConsobjNotLeaked
  <1>4. ASSUME NEW f \in Files, ioctl_get_consobj(f)
        PROVE  ConsobjNotLeaked'
    <2>1. /\ pc[f] = "open" /\ can_alloc_consobj(f, Freed(f)) /\ UNCHANGED <<pc, lost>>
      BY <1>4 DEF ioctl_get_consobj, fileVars
    <2>2. /\ Freed(f) \in [ConsSlots -> {0, 1}]
          /\ \A i \in ConsSlots : Freed(f)[i] = 1 =>
                /\ consobj_reserved[i] = 1
                /\ i + CANOBJ_CONSMIN # consobj[f]
      BY <1>0, FreedMap
    <2>3. \A i \in ConsSlots : Freed(f)[i] = 1 =>
            \/ i + CANOBJ_CONSMIN \in lost.objs
            \/ \E g \in Open \ {f} : consobj[g] = i + CANOBJ_CONSMIN
      BY <2>2 DEF ConsobjNotLeaked
    <2>4. CASE \E i \in ConsSlots :
              /\ Freed(f)[i] = 0
              /\ consobj_reserved' = [Freed(f) EXCEPT ![i] = 1]
              /\ consobj' = [consobj EXCEPT ![f] = i + CANOBJ_CONSMIN]
      BY <2>1, <2>2, <2>3, <2>4, <1>0 DEF ConsobjNotLeaked, TypeOK
    <2>5. CASE /\ consobj_reserved' = Freed(f)
               /\ consobj' = [consobj EXCEPT ![f] = -1]
      BY <2>1, <2>3, <2>5, <1>0 DEF ConsobjNotLeaked, TypeOK
    <2> QED
      BY <2>1, <2>2, <2>4, <2>5, AllocEffect
  <1>5. ASSUME NEW f \in Files, can_release(f)
        PROVE  ConsobjNotLeaked'
    <2>1. \A i \in ConsSlots : Freed(f)[i] = 1 =>
              /\ consobj_reserved[i] = 1
              /\ i + CANOBJ_CONSMIN # consobj[f]
      BY <1>0, FreedMap
    <2> QED
      BY <1>5, <1>0, <2>1 DEF can_release, TypeOK, ConsobjNotLeaked
  <1>6. ASSUME NEW f \in Files, can_release_internal_error(f)
        PROVE  ConsobjNotLeaked'
    <2>1. /\ lost'.objs = lost.objs \cup ({consobj[f]} \ {-1})
          /\ consobj' = [consobj EXCEPT ![f] = -1] /\ consobj_reserved' = consobj_reserved
          /\ pc' = [pc EXCEPT ![f] = "closed"]
      BY <1>6 DEF can_release_internal_error
    <2>2. \A i \in ConsSlots : i + CANOBJ_CONSMIN # -1
      BY ConsPlace
    <2> QED
      BY <2>1, <2>2, <1>0 DEF TypeOK, ConsobjNotLeaked
  <1>7. ASSUME NEW f \in Files, can_alloc_openfd_scan(f) \/ can_open_nomem(f)
        PROVE  ConsobjNotLeaked'
    <2>1. /\ UNCHANGED <<consobj, consobj_reserved, lost>> /\ pc[f] # "open"
          /\ \E where \in {"kmalloc", "oops"} : pc' = [pc EXCEPT ![f] = where]
      BY <1>7 DEF can_alloc_openfd_scan, can_open_nomem, consVars
    <2> QED
      BY <2>1, <1>0 DEF TypeOK, ConsobjNotLeaked
  <1>8. CASE \/ UNCHANGED vars
             \/ \E f \in Files : \/ ioctl_set_promiscuous(f) \/ ioctl_clr_promiscuous(f)
                                 \/ ioctl_snoopy(f) \/ ioctl_set_reset(f)
    <2>1. UNCHANGED <<pc, consobj, consobj_reserved, lost>>
      BY <1>8 DEF ioctl_set_promiscuous, ioctl_clr_promiscuous, ioctl_snoopy,
                  ioctl_set_reset, fileVars, consVars, vars
    <2> QED
      BY <2>1 DEF ConsobjNotLeaked
  <1> QED
    BY <1>2, <1>4, <1>5, <1>6, <1>7, <1>8 DEF Next

(* The invariant of the table. *)
LEMMA TableInvariant == Spec => []TableInv
  <1>1. Init => TableInv
    BY ConsInvInit DEF Init, TableInv, AloneInv, Alone, ConsobjNotLeaked
  <1>2. TableInv /\ [Next]_vars => TableInv'
    BY ConsInvStep, AloneInvStep, LeakStep DEF TableInv, ConsInv
  <1> QED
    BY <1>1, <1>2, PTL DEF Spec

(* However long opens sleep in kmalloc, every open file whose own open met *)
(* no other one in its slot is in openfd[]: packets reach it and its       *)
(* release is complete.  Who loses such a race harms only those in it.     *)
THEOREM OpenFilesInTable == Spec => []OpenInTable
  <1>1. TableInv => OpenInTable
    BY AloneInTable DEF TableInv, ConsInv
  <1> QED
    BY TableInvariant, <1>1, PTL

(* Every reserved console object belongs to an open file or was lost with  *)
(* one that can_release_openfd did not find: closing a file, and asking    *)
(* for another object, give the old one back.                              *)
THEOREM NoObjectLeaked == Spec => []ConsobjNotLeaked
  <1>1. TableInv => ConsobjNotLeaked
    BY DEF TableInv
  <1> QED
    BY TableInvariant, <1>1, PTL

-----------------------------------------------------------------------------
(* The files whose promiscuous bit is set; only an open file has one.      *)
PromiscSet == {f \in Files : promiscuous[f] = 1}
BitsOpen == \A f \in Files : pc[f] # "open" => promiscuous[f] = 0

MaskFollows == accept_mask = MaskAll <=> promiscuous_usecount > 0 /\ "reset" \notin misused
CountFollows ==
    "untidy" \notin misused => promiscuous_usecount = Cardinality(PromiscSet) + lost.uses

PromiscInv == TypeOK /\ BitsOpen /\ MaskFollows /\ CountFollows

(* One bit more, one bit less: the number of bits that are set. *)
LEMMA CountAdd ==
    ASSUME NEW S \in SUBSET Files, NEW f \in Files, f \notin S
    PROVE  Cardinality(S \cup {f}) = Cardinality(S) + 1 /\ Cardinality(S) \in Nat
  BY FilesAssumption, FS_Subset, FS_AddElement, FS_CardinalityType

(* ... and the same for a bit that is cleared. *)
LEMMA CountRemove ==
    ASSUME NEW S \in SUBSET Files, NEW f \in S
    PROVE  Cardinality(S \ {f}) = Cardinality(S) - 1 /\ Cardinality(S) \in Nat
  BY FilesAssumption, FS_Subset, FS_RemoveElement, FS_CardinalityType

(* Clearing the bit of a file, or leaving it clear. *)
LEMMA BitCleared ==
    ASSUME TypeOK, NEW f \in Files, promiscuous' = [promiscuous EXCEPT ![f] = 0]
    PROVE  /\ Cardinality(PromiscSet') = Cardinality(PromiscSet) - promiscuous[f]
           /\ Cardinality(PromiscSet) \in Nat /\ Cardinality(PromiscSet') \in Nat
  <1>1. PromiscSet \in SUBSET Files /\ PromiscSet' = PromiscSet \ {f}
    BY DEF PromiscSet, TypeOK
  <1>n. Cardinality(PromiscSet) \in Nat /\ Cardinality(PromiscSet') \in Nat
    BY <1>1, FilesAssumption, FS_Subset, FS_CardinalityType
  <1>2. CASE promiscuous[f] = 1
    BY <1>1, <1>2, <1>n, CountRemove DEF PromiscSet
  <1>3. CASE promiscuous[f] = 0
    <2>1. PromiscSet' = PromiscSet
      BY <1>1, <1>3 DEF PromiscSet
    <2> QED
      BY <1>3, <1>n, <2>1
  <1> QED
    BY <1>2, <1>3, <1>n DEF TypeOK

(* if (--promiscuous_usecount == 0) can_init_82c200(0): the chip leaves    *)
(* the mode with its last use, and at no other time.                       *)
LEMMA DropFollows ==
    ASSUME TypeOK, MaskFollows, NEW n \in {0, 1}, NEW untidy \in BOOLEAN,
           DropPromiscuous(n, untidy)
    PROVE  MaskFollows'
  <1>1. promiscuous_usecount \in Int
    BY DEF TypeOK
  <1>2. CASE n = 1 /\ promiscuous_usecount = 1
    BY <1>2 DEF DropPromiscuous, can_init_82c200, MaskFollows, MaskAll, MaskMine
  <1>3. CASE ~(n = 1 /\ promiscuous_usecount = 1)
    <2>1. /\ promiscuous_usecount' = promiscuous_usecount - n /\ accept_mask' = accept_mask
          /\ "reset" \in misused' <=> "reset" \in misused
      BY <1>3 DEF DropPromiscuous, Misuses
    <2>2. promiscuous_usecount' > 0 <=> promiscuous_usecount > 0
      BY <1>1, <1>3, <2>1
    <2> QED
      BY <2>1, <2>2 DEF MaskFollows
  <1> QED
    BY <1>2, <1>3

(* Every system call keeps the chip in step with the use count, and the    *)
(* use count in step with the bits.                                        *)
LEMMA PromiscInvStep ==
    ASSUME PromiscInv, TypeOK', [Next]_vars
    PROVE  PromiscInv'
  <1>0. /\ TypeOK /\ BitsOpen /\ MaskFollows /\ CountFollows
        /\ promiscuous_usecount \in Int /\ lost.uses \in Nat
    BY DEF PromiscInv, TypeOK
  <1> DEFINE Goal == BitsOpen /\ MaskFollows /\ CountFollows
  <1>1. ASSUME NEW f \in Files, ioctl_set_promiscuous(f)
        PROVE  Goal'
    <2>1. /\ pc[f] = "open" /\ UNCHANGED <<pc, lost>>
          /\ promiscuous' = [promiscuous EXCEPT ![f] = 1]
          /\ promiscuous_usecount' = promiscuous_usecount + 1
          /\ misused' = Misuses(promiscuous_usecount = 0, promiscuous[f] = 1)
      BY <1>1 DEF ioctl_set_promiscuous, fileVars
    <2>2. BitsOpen'
      BY <2>1, <1>0 DEF TypeOK, BitsOpen
    <2>3. MaskFollows'
      <3>1. CASE promiscuous_usecount = 0
        BY <1>1, <2>1, <3>1 DEF ioctl_set_promiscuous, can_init_82c200, Misuses, MaskFollows
      <3>2. CASE promiscuous_usecount # 0
        <4>1. accept_mask' = accept_mask /\ ("reset" \in misused' <=> "reset" \in misused)
          BY <1>1, <2>1, <3>2 DEF ioctl_set_promiscuous, Misuses
        <4>2. promiscuous_usecount' > 0 <=> promiscuous_usecount > 0
          BY <2>1, <3>2, <1>0
        <4> QED
          BY <4>1, <4>2, <1>0 DEF MaskFollows
      <3> QED
        BY <3>1, <3>2
    <2>4. CountFollows'
      <3> SUFFICES ASSUME "untidy" \notin misused'
                   PROVE  promiscuous_usecount' = Cardinality(PromiscSet') + lost'.uses
        BY DEF CountFollows
      <3>1. promiscuous[f] = 0 /\ "untidy" \notin misused
        BY <2>1, <1>0 DEF Misuses, TypeOK
      <3>2. PromiscSet' = PromiscSet \cup {f} /\ f \notin PromiscSet /\ PromiscSet \in SUBSET Files
        BY <2>1, <3>1, <1>0 DEF PromiscSet, TypeOK
      <3> QED
        BY <2>1, <3>1, <3>2, <1>0, CountAdd DEF CountFollows
    <2> QED
      BY <2>2, <2>3, <2>4
  <1>2. ASSUME NEW f \in Files, ioctl_clr_promiscuous(f)
        PROVE  Goal'
    <2>1. /\ UNCHANGED <<pc, lost>> /\ DropPromiscuous(1, promiscuous[f] = 0)
          /\ promiscuous' = [promiscuous EXCEPT ![f] = 0]
      BY <1>2 DEF ioctl_clr_promiscuous, fileVars
    <2>2. BitsOpen'
      BY <2>1, <1>0 DEF TypeOK, BitsOpen
    <2>3. MaskFollows'
      BY <2>1, <1>0, DropFollows
    <2>4. CountFollows'
      <3> SUFFICES ASSUME "untidy" \notin misused'
                   PROVE  promiscuous_usecount' = Cardinality(PromiscSet') + lost'.uses
        BY DEF CountFollows
      <3>1. /\ promiscuous[f] = 1 /\ "untidy" \notin misused
            /\ promiscuous_usecount' = promiscuous_usecount - 1
        BY <2>1, <1>0 DEF DropPromiscuous, Misuses, TypeOK
      <3>2. Cardinality(PromiscSet') = Cardinality(PromiscSet) - 1 /\ Cardinality(PromiscSet) \in Nat
        BY <2>1, <3>1, <1>0, BitCleared
      <3> QED
        BY <2>1, <3>1, <3>2, <1>0 DEF CountFollows
    <2> QED
      BY <2>2, <2>3, <2>4
  <1>3. ASSUME NEW f \in Files, can_release(f)
        PROVE  Goal'
    <2>1. /\ DropPromiscuous(promiscuous[f], FALSE) /\ promiscuous[f] \in {0, 1}
          /\ promiscuous' = [promiscuous EXCEPT ![f] = 0]
          /\ pc' = [pc EXCEPT ![f] = "closed"] /\ lost' = lost
      BY <1>3, <1>0 DEF can_release, TypeOK
    <2>2. BitsOpen'
      BY <2>1, <1>0 DEF TypeOK, BitsOpen
    <2>3. MaskFollows'
      BY <2>1, <1>0, DropFollows
    <2>4. CountFollows'
      <3>1. /\ "untidy" \in misused' <=> "untidy" \in misused
            /\ promiscuous_usecount' = promiscuous_usecount - promiscuous[f]
        BY <2>1 DEF DropPromiscuous, Misuses
      <3>2. /\ Cardinality(PromiscSet') = Cardinality(PromiscSet) - promiscuous[f]
            /\ Cardinality(PromiscSet) \in Nat
        BY <2>1, <1>0, BitCleared
      <3> QED
        BY <2>1, <3>1, <3>2, <1>0 DEF CountFollows
    <2> QED
      BY <2>2, <2>3, <2>4
  <1>4. ASSUME NEW f \in Files, can_release_internal_error(f)
        PROVE  Goal'
    <2>1. /\ promiscuous' = [promiscuous EXCEPT ![f] = 0] /\ promiscuous[f] \in {0, 1}
          /\ pc' = [pc EXCEPT ![f] = "closed"]
          /\ UNCHANGED <<promiscuous_usecount, accept_mask, misused>>
          /\ "untidy" \notin misused => lost'.uses = lost.uses + promiscuous[f]
      BY <1>4, <1>0 DEF can_release_internal_error, TypeOK
    <2>2. BitsOpen' /\ MaskFollows'
      BY <2>1, <1>0 DEF TypeOK, BitsOpen, MaskFollows
    <2>3. CountFollows'
      <3>1. /\ Cardinality(PromiscSet') = Cardinality(PromiscSet) - promiscuous[f]
            /\ Cardinality(PromiscSet) \in Nat
        BY <2>1, <1>0, BitCleared
      <3> QED
        BY <2>1, <3>1, <1>0 DEF CountFollows
    <2> QED
      BY <2>2, <2>3
  <1>5. ASSUME NEW f \in Files,
               can_open(f) \/ can_alloc_openfd_scan(f) \/ can_open_nomem(f)
        PROVE  Goal'
    <2>1. /\ promiscuous' = promiscuous
          /\ UNCHANGED <<promiscuous_usecount, accept_mask, misused, lost>>
      BY <1>5, <1>0 DEF can_open, can_alloc_openfd_scan, can_open_nomem, promiscVars, BitsOpen, TypeOK
    <2>2. BitsOpen'
      BY <1>5, <2>1, <1>0 DEF can_open, can_alloc_openfd_scan, can_open_nomem, BitsOpen, TypeOK
    <2> QED
      BY <2>1, <2>2, <1>0 DEF MaskFollows, CountFollows, PromiscSet
  <1>6. ASSUME NEW f \in Files, ioctl_set_reset(f)
        PROVE  Goal'
    BY <1>6, <1>0 DEF ioctl_set_reset, can_init_82c200, fileVars, BitsOpen, MaskFollows, MaskAll, MaskMine,
                      CountFollows, PromiscSet
  <1>7. ASSUME UNCHANGED vars \/ \E f \in Files : ioctl_snoopy(f) \/ ioctl_get_consobj(f)
        PROVE  Goal'
    <2>1. UNCHANGED <<pc, promiscuous, promiscuous_usecount, accept_mask, misused, lost>>
      BY <1>7 DEF ioctl_snoopy, ioctl_get_consobj, fileVars, promiscVars, vars
    <2> QED
      BY <2>1, <1>0 DEF BitsOpen, MaskFollows, CountFollows, PromiscSet
  <1>8. Goal'
    <2> HIDE DEF Goal
    <2> QED
      BY <1>1, <1>2, <1>3, <1>4, <1>5, <1>6, <1>7 DEF Next
  <1> QED
    BY <1>8 DEF PromiscInv

(* Whatever files do, the chip is promiscuous exactly when the use count   *)
(* is positive, but for a reset by ioctl; and as long as files set and     *)
(* clear their bits in turn, the use count is the number of open files     *)
(* with the bit and of those lost by an "internal error".                  *)
THEOREM PromiscuousModeAgrees == Spec => []PromiscuousAgrees
  <1>1. Init => PromiscInv
    <2> SUFFICES ASSUME Init PROVE PromiscInv
      OBVIOUS
    <2>1. TypeOK
      BY ConsInvInit DEF ConsInv
    <2>2. PromiscSet = {}
      BY DEF Init, PromiscSet
    <2>3. CountFollows
      BY <2>2, FS_EmptySet DEF Init, CountFollows
    <2> QED
      BY <2>1, <2>3 DEF Init, PromiscInv, BitsOpen, MaskFollows, MaskAll, MaskMine
  <1>2. PromiscInv /\ TypeOK' /\ [Next]_vars => PromiscInv'
    BY PromiscInvStep
  <1>3. PromiscInv => PromiscuousAgrees
    <2> SUFFICES ASSUME PromiscInv PROVE PromiscuousAgrees
      OBVIOUS
    <2>1. PromiscSet = {f \in Open : promiscuous[f] = 1}
      BY DEF PromiscInv, BitsOpen, PromiscSet, Open
    <2> QED
      BY <2>1 DEF PromiscInv, MaskFollows, CountFollows, PromiscuousAgrees
  <1> QED
    BY <1>1, <1>2, <1>3, FilesTyped, PTL DEF Spec

=============================================================================
